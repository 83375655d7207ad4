CONSTANTS
  Burst = 10
  Cost = 2
  MaxWindow = 12
SPECIFICATION LimiterSpec
INVARIANTS
  LimiterTypeOK
  WindowBudget
  DeniedOnlyWhenSpent
