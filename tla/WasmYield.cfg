CONSTANTS
  p1 = p1
  p2 = p2
  NoProc = NoProc
  AtBase = 4
  FUEL_PER_SLICE = 5
  YIELD_THRESHOLD = 2
  CAP_LOOKUP = 1
  FS_OPERATION = 2
  MEMORY_IO = 1
  SYNC_CREATE = 1
  SYNC_OPERATION = 1
  GenBase = 8
  BufLen = 1
  MaxNodes = 3
  MaxOpens = 2
  MaxOpenAts = 1
  MaxCaps = 3
  MaxSync = 1
  Procs <- YieldProcs
  Modes <- YieldModes
  Grants <- MCGrants
  Paths <- MCPaths
  Contents <- MCContents
  Permits <- MCPermits
SPECIFICATION FairSpec
PROPERTIES
  YieldedIsResumed
CHECK_DEADLOCK FALSE
