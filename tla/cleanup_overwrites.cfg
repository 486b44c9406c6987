SPECIFICATION PartsSpec
CONSTANTS
  Processes = {p1, p2}
  NoProcess = NoProcess
  MaxEvents = 4
  MaxBatch = 2
  Asks = {a1}
  Decisions = {"approved"}
  NoAsk = NoAsk
  MaxSeq = 3
  MaxRotations = 1
  MaxOutages = 1
  FeedLimit = 1
  Commits = {k1}
  Detached = {h1, h2}
  Ignored = {i1}
  NoWork = NoWork
  MaxOrphans = 2
  MaxMerges = 1
  MaxCrashes = 1
  Calls = {q1, q2}
  ConductorIds = {id1, id2}
  NoConductor = NoConductor
  Records = {r1}
  NoRecord = NoRecord
  Extras = {1}
  AttemptsPerUnit = 1
  MaxGranted = 1
  MaxTier = 1
  Budget = 2
  MaxCost = 5
  AttemptCosts = {1}
  TierCosts <- CostsOfTiers
  MaxGrants = 2
  PlansToAnalyze <- SomePlans
  Dispatchers = {d1, d2}
  Jobs <- SomeJobs
  Unreviewed = Unreviewed
  Guarded = {g1, g2}
  NoSnapshot = NoSnapshot
  NoMerge = NoMerge
  MaxMoves = 3
  AfterMerged = 1
  MinLessons = 1
  MaxLessons = 2
  MaxTarget = 3
  GatePlans = {{"runnable"}, {"runnable", "missing"}}
  RepairTurns = 1
  MaxAttempts = 2
  MaxCommits = 3
  MaxTips = 1
  MaxMembers = 2
  MaxLate = 1
INVARIANTS WorkKept
CHECK_DEADLOCK FALSE
