SPECIFICATION TuiSpec
CONSTANTS
  MaxRuns = 2
  MaxCancels = 1
  PipeSize = 1
  Abrupt = TRUE
  HastyRuns = 1
INVARIANTS
  Cancellable
  OnScreen
  PendingBelongs
  NoFrozenScreen
  QuitStops
PROPERTY CancelLands
CHECK_DEADLOCK FALSE
