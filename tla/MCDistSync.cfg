SPECIFICATION FairSpec
CONSTANTS
  n1 = n1
  n2 = n2
  sw = sw
  Nodes = {n1, n2}
  Switch = sw
  SyncStart = 3
  Repeat <- MCRepeat
  LinkDelay = 3
  PseudoOp = TRUE
  Programs <- MCPrograms
  Talking <- MCTalking
  MaxGap = 1
  MaxCrashes = 1
INVARIANTS PacketsPunctual BarrierAgreed AssertionsHold
PROPERTIES JobEnds
CHECK_DEADLOCK FALSE
