SPECIFICATION TuiSpec
CONSTANTS
  MaxRuns = 2
  MaxCancels = 1
  PipeSize = 1
  Abrupt = TRUE
  HastyRuns = 2
INVARIANT OneRun
CHECK_DEADLOCK FALSE
