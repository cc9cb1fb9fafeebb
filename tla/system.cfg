SPECIFICATION GuardedSysSpec
CONSTANTS
  LPN = {0, 1}
  RSP_INVALID_LPN = invalid_lpn
  VC_MAX = vc_max
  LogSize = 6
  MinLogging = 2
  MaxTwritePage = 2
  MaxTwriteSector = 16
  NumTwriteEntry = 2
  RemapThreshold = 3
  RemapSize = 2
  NumRemapEntry = 1
  TwriteEntries = 2
  NumMaxTwrite = 2
  NumMaxRemap = 2
  BUFF_THRESHOLD = 2
  OwnCoreId = TRUE
  Version = {v1, v2}
INVARIANTS
  SysTypeOK
  NoAssert
  HomeHoldsOwnPage
  RemainedIsOutstanding
PROPERTY
  ImplementsPageStore
CHECK_DEADLOCK FALSE
SYMMETRY Versions
