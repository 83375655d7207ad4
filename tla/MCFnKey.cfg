CONSTANTS
  Debounce = 4
  Suppress = 6
  Delay = 1
  MaxAway = 1
  MaxTime = 8
SPECIFICATION Spec
CHECK_DEADLOCK FALSE
INVARIANTS
  TypeOK
  NoWakeBounce
  OneActPerBurst
