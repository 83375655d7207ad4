CONSTANTS
  cool = cool
  perf = perf
  Modes = {cool, perf}
  Unknown = Unknown
  MaxChoices = 2
  MaxFaults = 2
SPECIFICATION FairMenuSpec
CHECK_DEADLOCK FALSE
INVARIANTS
  QuietSelectionShown
PROPERTIES
  Converges
