SPECIFICATION Spec
CONSTANTS
  Procs = {p, q}
  Artifacts = 2
  MaxMishaps = 1
  Builders = {b, c}
  Manifests <- MCManifests
  Bundles <- MCBundles
  MaxBytes = 2
  MaxTroubles = 1
  Shapes <- MCShapes
  TopEnums <- MCTopEnums
  MaxMessages = 2
  MaxTrips = 2
INVARIANTS
  Materialized
  SourceWhole
  FairlyScored
PROPERTY
  GoodStays
CHECK_DEADLOCK FALSE
