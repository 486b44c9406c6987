SPECIFICATION Spec
CONSTANTS
  N = 2
  Plans <- PairPlans
  Conductors = {c1}
  Workers = {w1}
  None = None
  Tiers = {t1}
  NoTier = NoTier
  AttemptLimit = 1
  CostLimit = 1
  Charges = {}
  Pids = {}
  Ttl = 1
  MaxGrant = 0
  MaxHandoffs = 0
  TornTransactions = TRUE
INVARIANTS PromotedWhenMerged
