SPECIFICATION TuiSpec
CONSTANTS
  MaxRuns = 1
  MaxCancels = 1
  PipeSize = 1
  Abrupt = TRUE
  HastyRuns = 1
INVARIANT CtrlCWorks
CHECK_DEADLOCK FALSE
