SPECIFICATION SysSpec
CONSTANTS
  LPN = {0, 1, 2}
  RSP_INVALID_LPN = invalid_lpn
  VC_MAX = vc_max
  LogSize = 8
  MinLogging = 2
  MaxTwritePage = 2
  MaxTwriteSector = 16
  NumTwriteEntry = 2
  RemapThreshold = 5
  RemapSize = 4
  NumRemapEntry = 2
  TwriteEntries = 1
  NumMaxTwrite = 1
  NumMaxRemap = 1
  BUFF_THRESHOLD = 2
  OwnCoreId = TRUE
  Version = {v1}
INVARIANT
  NoAssert
CHECK_DEADLOCK FALSE
