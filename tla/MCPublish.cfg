SPECIFICATION Spec
CONSTANTS
  N = 3
  MaxFaults = 2
  MaxInterrupts = 1
INVARIANTS
  NothingLost
  AllOrNothing
  LeftoversHaveFaults
PROPERTY
  Keeps
