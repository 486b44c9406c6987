SPECIFICATION Spec
CONSTANTS
  Units = {u1}
  Sessions = {s1, s2}
  Consumers = {}
  Files = {}
  NoFile = NoFile
  NoUnit = NoUnit
  MaxHead = 2
  MaxRequests = 2
  MaxMoves = 1
  MaxCrashes = 0
  UnitsStopped = FALSE
  LeaseHeld = TRUE
SYMMETRY Symmetry
INVARIANTS LandedIsRecorded
CHECK_DEADLOCK FALSE
