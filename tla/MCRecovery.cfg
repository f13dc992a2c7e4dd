SPECIFICATION Spec
CONSTANTS
  MaxEntries = 3
  MaxNames = 9
  MaxScan = 4
  MaxMember = 2
  MaxCandidates = 3
  MaxBoundaries = 3
  MaxAttempts = 5
  MaxInflated = 8
  MaxMembers = 2
  MaxGzipDepth = 3
  Blobs <- MCBlobs
  Registers = {0, 1, 2, 3}
  MaxInt = 2147483647
  Damages <- MCDamages
  Obscured <- MCObscured
  Obscurings <- MCObscurings
  Contents = {"a", "b"}
  Slots = {1, 2}
  Ranks = {0, 1, 2}
  Places = {"p", "q"}
  MaxMerges = 3
  Key <- MCKey
  Packaged <- MCPackaged
  Numbered <- MCNumbered
  Unsafe <- MCUnsafe
  Reserved <- MCReserved
  Requests <- MCRequests
  MaxItems = 12
  MaxDepth = 2
  Keywords <- MCKeywords
  FileNames <- MCFileNames
  NoFile = "none"
  MaxFiles = 3
  MaxSize = 4
INVARIANTS
  NothingOverlooked
  ScanSound
  LiteFaithful
  WireFaithful
  FieldsPreferBest
  NothingDropped
  EvidenceComplete
  ReferencesFollow
  NamesFree
  Compilable
  FilesResolved
CHECK_DEADLOCK FALSE
