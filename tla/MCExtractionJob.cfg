SPECIFICATION JobSpec
CONSTANTS
  MaxRuns = 2
  MaxCancels = 1
  PipeSize = 1
  Abrupt = FALSE
INVARIANTS
  Tracked
  CancelIsReported
  OwnResult
PROPERTIES
  CancelStops
  RunEnds
CHECK_DEADLOCK FALSE
