CONSTANTS
  p1 = p1
  p2 = p2
  p3 = p3
  w1 = w1
  Packets <- MCPackets
  NeedsResponse <- MCNeedsResponse
  ReqQueueLimit = 2
  RespQueueLimit = 2
SPECIFICATION FairSpec
INVARIANTS ResponseSpaceReserved HeadHasOneWakeup NoLostRetry
PROPERTIES RetryAfterResponseSucceeds RequestsComplete
