SPECIFICATION EscalationSpec
CONSTANTS
  MaxTier = 1
  Budget = 2
  MaxCost = 5
  AttemptCosts = {1}
  TierCosts <- DearTiers
  MaxGrants = 2
INVARIANTS RestartKeepsDecision
CHECK_DEADLOCK FALSE
