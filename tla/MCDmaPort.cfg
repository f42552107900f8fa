CONSTANTS
  r1 = r1
  w1 = w1
  w2 = w2
  w3 = w3
  Actions <- MCActions4
  Writes <- MCWrites4
  Chunks <- MCChunks4
  numChannels = 3
  maxRequests = 2
  InvalidateOnWrite = {TRUE, FALSE}
  SerialWrites = TRUE
SPECIFICATION FairSpec
INVARIANTS PendingAccounted SenderWakeup CompletionMeansDone DataAfterInvalidation
PROPERTIES TransfersComplete
