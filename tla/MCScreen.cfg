CONSTANTS
  Bright = 2
  Methods = {"DPMS", "BRIGHTNESS", "BLACK"}
  MaxFaults = 1
SPECIFICATION FairScreenSpec
INVARIANTS
  NothingLeftOver
  BrightnessRestored
PROPERTIES
  EscapeWorks
