SPECIFICATION FairSpec
CONSTANTS
  Buffer = {b1, b2, b3, b4, b5}
  LPN = {0, 3, 8}
  RSP_INVALID_LPN = invalid_lpn
  SPECIAL_LPN_START = 4
  NUM_PERBANK_QUEUE = 2
  BUFF_THRESHOLD = 3
  NumPlane = 1
  MaxKept = 1
INVARIANTS
  TypeOK
  BuffersConserved
  CountersMatch
  PartialIsYoungest
  BufferAtHand
PROPERTIES
  ImplementsWriteQueue
  CallReturns
