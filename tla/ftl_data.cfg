SPECIFICATION Spec
CONSTANTS
  b1 = b1
  b2 = b2
  b3 = b3
  b4 = b4
  b5 = b5
  b6 = b6
  FreeOrder <- Five
  HomeLPN = {h1, h2, h3}
  SlotLPN = {}
  RSP_INVALID_LPN = invalid_lpn
  VC_MAX = vc_max
  VC_ERASED = 99
  NumBank = 2
  PLANES_PER_BANK = 1
  PAGES_PER_BLK = 2
  GC_THRESHOLD = 1
  WriteTypes = {"SW"}
  NUM_READ_PER_INCGC = 1
INVARIANTS
  ReadsNewest
  VcountIsMapped
CHECK_DEADLOCK FALSE
VIEW View
SYMMETRY Symmetry
