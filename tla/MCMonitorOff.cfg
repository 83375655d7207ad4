CONSTANTS
  ui = ui
  other = other
  w1 = w1
  w2 = w2
  w3 = w3
  Callers = {ui, other}
  Workers = {w1, w2, w3}
SPECIFICATION FairSpec
INVARIANTS
  TypeOK
  OneHolder
  NoLostRequest
PROPERTIES
  Implements
