SPECIFICATION EscalationSpec
CONSTANTS
  MaxTier = 1
  Budget = 2
  MaxCost = 5
  AttemptCosts = {1}
  TierCosts <- RisingTiers
  MaxGrants = 2
INVARIANTS OpinionsDoNotEscalate
CHECK_DEADLOCK FALSE
