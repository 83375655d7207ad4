CONSTANTS
  Burst = 2
  Cost = 1
  Slots = {"thermal", "coolsense"}
  Values = {0, 1}
  Cooldown <- MCCooldown
  MaxCall = 1
  None = None
SPECIFICATION Spec
INVARIANTS
  ReadYourWrites
  RepliesFresh
PROPERTY
  FlagsKept
