SPECIFICATION ProgressSpec
CONSTANTS
  Signals = {output}
  Unknown = Unknown
  FlatNeeded = 1
  NoResult = NoResult
  Situations <- SomeSituations
  AttemptBudget = 1
  MaxGrant = 1
  Units = {u1}
  Files = {f1, f2}
  Consumers = {c1, c2}
  NoFile = NoFile
  MaxHead = 1
  MaxRequests = 1
INVARIANTS BusyNeverHung ResultIsTrue HealsWithinCaps AnswersAreTrue
PROPERTIES SupervisionEnds DriveEnds InboxDrains DecisionsStand
CHECK_DEADLOCK FALSE
