CONSTANTS
  MaxPoints = 3
  Modes = {0, 1, 2}
  DeviceLists <- MCDeviceLists
  Measures <- MCMeasures
  OldFiles <- MCOldFiles
  MaxRuns = 2
  Timeout = 2
  MaxOpens = 4
SPECIFICATION Spec
CHECK_DEADLOCK FALSE
INVARIANT
  AnnouncedIsSet
PROPERTIES
  CalibrationKept
  MeasurementEnds
  GpuReleased
