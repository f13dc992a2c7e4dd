SPECIFICATION Spec
CONSTANTS
  Bases = {"a", "b"}
  FoldsCase = TRUE
  MaxRuns = 3
  MaxEdits = 2
INVARIANT Delivered
CHECK_DEADLOCK FALSE
