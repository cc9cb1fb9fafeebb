SPECIFICATION NoSkip
CONSTANTS
  LPN = {0, 1, 2}
  RSP_INVALID_LPN = invalid_lpn
  LogSize = 8
  MinLogging = 2
  MaxTwritePage = 2
  MaxTwriteSector = 16
  NumTwriteEntry = 2
  RemapThreshold = 5
  RemapSize = 4
  NumRemapEntry = 2
  TwriteEntries = 1
INVARIANT
  NoPackingError
CHECK_DEADLOCK FALSE
