SPECIFICATION Guarded
CONSTANTS
  LPN = {0, 1, 2}
  RSP_INVALID_LPN = invalid_lpn
  LogSize = 10
  MinLogging = 3
  MaxTwritePage = 3
  MaxTwriteSector = 24
  NumTwriteEntry = 3
  RemapThreshold = 5
  RemapSize = 4
  NumRemapEntry = 2
  TwriteEntries = 1
INVARIANTS
  RedirectionLeadsToPage
  LiveInWindow
  NoPackingError
CHECK_DEADLOCK FALSE
