SPECIFICATION Spec
CONSTANTS
  k1 = k1
  k2 = k2
  k3 = k3
  k4 = k4
  k5 = k5
  k6 = k6
  c1 = c1
  c2 = c2
  BlockOrder <- SixBlocks
  Slot <- TwoSlots
  MapPage = {p1, p2, p3}
  LPN = {p1, p2, p3}
  MapPageOf <- Itself
  Updated = {p1, p2}
  BankOf <- OneBank
  NumBank = 1
  VC_MAX = vc_max
  NULL = null
  Meta = meta
  DirtyBBP = {1}
  MAP_ENTRY_BLK_PER_BANK = 3
  PAGES_PER_BLK = 2
  SuperPage = 1
  NumData = 0
INVARIANTS
  TypeOK
  GetVpnIsLast
  LRUHoldsCached
  MapVcountIsMapped
  LoggedOnce
  ErasedBeforeProgram
CHECK_DEADLOCK FALSE
VIEW View
