SPECIFICATION Spec
CONSTANTS
  Units = {u1}
  Sessions = {s1, s2}
  Consumers = {}
  Files = {}
  NoFile = NoFile
  NoUnit = NoUnit
  MaxHead = 2
  MaxRequests = 2
  MaxMoves = 1
  MaxCrashes = 1
  UnitsStopped = TRUE
  LeaseHeld = FALSE
SYMMETRY Symmetry
INVARIANTS QueueEntriesPaid MergedUnitLanded
PROPERTIES TargetSpec
CHECK_DEADLOCK FALSE
