SPECIFICATION Spec
CONSTANTS
  LPN = {0, 1, 2}
  RSP_INVALID_LPN = invalid_lpn
  LogSize = 8
  MinLogging = 2
  MaxTwritePage = 2
  MaxTwriteSector = 16
  NumTwriteEntry = 2
  RemapThreshold = 6
  RemapSize = 3
  NumRemapEntry = 1
  TwriteEntries = 2
INVARIANTS
  TypeOK
  ValidIsRedirected
  RemapFindsAll
  RemappingIsPending
  SameCore
