CONSTANTS
  p1 = p1
  p2 = p2
  NoProc = NoProc
  AtBase = 3
  FUEL_PER_SLICE = 4
  YIELD_THRESHOLD = 2
  CAP_LOOKUP = 1
  FS_OPERATION = 1
  MEMORY_IO = 1
  SYNC_CREATE = 1
  SYNC_OPERATION = 1
  GenBase = 8
  BufLen = 1
  MaxNodes = 3
  MaxOpens = 3
  MaxOpenAts = 2
  MaxCaps = 3
  MaxSync = 1
  Procs <- MCProcs
  Modes <- MCModes
  Grants <- MCGrants
  Paths <- MCPaths
  Contents <- MCContents
  Permits <- MCPermits
SPECIFICATION Spec
INVARIANTS
  TypeOK
  HandlesHaveOneOwner
  SemaphoresAccounted
PROPERTIES
  DerivedAuthority
  CapabilitiesAreStable
  NamesAreKept
  FailedCallHasNoEffect
  FuelShrinks
CHECK_DEADLOCK FALSE
VIEW WithoutReply
