SPECIFICATION ManagerRun
CONSTANTS
  N = 3
  Plans <- SomePlans
  Conductors = {c1, c2}
  Workers = {w1, w2}
  None = None
  Tiers = {t1}
  NoTier = NoTier
  AttemptLimit = 1
  CostLimit = 1
  Charges = {1}
  Pids = {1}
  Ttl = 1
  MaxGrant = 1
  MaxHandoffs = 2
  TornTransactions = TRUE
SYMMETRY ActorSymmetry
INVARIANTS TypeOK DependenciesMerged BudgetBound
PROPERTIES OwnershipChangesByHandoff LeaseTakeoverRecorded
