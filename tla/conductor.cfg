SPECIFICATION MCConductorSpec
CONSTANTS
  N = 1
  Plans <- SinglePlan
  c1 = c1
  c2 = c2
  s1 = s1
  s2 = s2
  Conductors = {c1, c2}
  Sessions = {s1, s2}
  Id <- TwoConductors
  Workers = {w1}
  None = None
  Tiers = {t1}
  NoTier = NoTier
  AttemptLimit = 2
  CostLimit = 3
  Charges = {2}
  Pids = {1, 2}
  Ttl = 1
  MaxGrant = 0
  MaxHandoffs = 2
  MaxCrashes = 1
  MaxRaises = 1
  Timeliness = {TRUE, FALSE}
  TornTransactions = FALSE
INVARIANTS FinishedMeansExited CostsCounted ReviewedWorkIsCurrent
PROPERTIES ManagerSpec VerifiedAfterExit AttemptJudged
