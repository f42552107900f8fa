CONSTANTS
  fifoSize = 5
  maxReqSize = 2
  maxPending = 3
  watermark = 2
  BlockSizes = {1, 3}
  GetSizes = {1, 4}
  MaxBlocks = 3
SPECIFICATION FairSpec
INVARIANTS NeverOverfilled DataInOrder AbortedDataDropped IdleReported
PROPERTIES ReadsSatisfiable
