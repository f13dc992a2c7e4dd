SPECIFICATION Spec
CONSTANTS
  Bases = {"a", "b"}
  FoldsCase = FALSE
  MaxRuns = 3
  MaxEdits = 2
INVARIANTS
  TypeOK
  Delivered
  NoOrphans
PROPERTY
  RemovesOnlyItsOwn
CHECK_DEADLOCK FALSE
