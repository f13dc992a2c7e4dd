SPECIFICATION Spec
CONSTANTS
  N = 2
  MaxFaults = 0
  MaxInterrupts = 1
INVARIANT InterruptRestores
