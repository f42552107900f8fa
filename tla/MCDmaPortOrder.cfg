CONSTANTS
  r1 = r1
  w1 = w1
  w2 = w2
  w3 = w3
  Actions <- MCActions
  Writes <- MCWrites
  Chunks <- MCChunks
  numChannels = 2
  maxRequests = 2
  InvalidateOnWrite = {TRUE}
  SerialWrites = FALSE
SPECIFICATION Spec
INVARIANT DataAfterInvalidation
CHECK_DEADLOCK FALSE
