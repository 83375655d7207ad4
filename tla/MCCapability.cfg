CONSTANTS
  Burst = 2
  Cost = 1
  Ignores = TRUE
  MaxReports = 2
  MaxLost = 2
  MaxRestarts = 1
SPECIFICATION Spec
CHECK_DEADLOCK FALSE
INVARIANTS
  VerifiedIsProven
  ProbedOnce
  NeverLeftSwitched
