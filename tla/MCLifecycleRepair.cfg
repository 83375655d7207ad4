CONSTANTS
  p1 = p1
  p2 = p2
  P = {p1, p2}
  Hardware <- MCHardware
  MaxLaunches = 2
  MaxFaults = 1
SYMMETRY Slots
SPECIFICATION Spec
CHECK_DEADLOCK FALSE
INVARIANTS
  RepairKeepsExe
