SPECIFICATION Spec
CONSTANTS
  MaxFaults = 2
  MaxInterrupts = 1
  N = 3
  Workers = 2
INVARIANTS
  OldTreeKept
  OneFailure
  FirstFailure
  NoStrays
PROPERTY
  ToolsEnd
CHECK_DEADLOCK FALSE
