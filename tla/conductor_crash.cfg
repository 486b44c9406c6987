SPECIFICATION ConductorSpec
CONSTANTS
  N = 1
  Plans <- SinglePlan
  c1 = c1
  c2 = c2
  s1 = s1
  s2 = s2
  Conductors = {c1}
  Sessions = {s1}
  Id <- OneSession
  Workers = {w1}
  None = None
  Tiers = {t1}
  NoTier = NoTier
  AttemptLimit = 2
  CostLimit = 1
  Charges = {0, 2}
  Pids = {1, 2}
  Ttl = 1
  MaxGrant = 0
  MaxHandoffs = 1
  MaxCrashes = 1
  MaxRaises = 0
  Timeliness = {TRUE}
  TornTransactions = FALSE
INVARIANTS NoSharedCheckout
