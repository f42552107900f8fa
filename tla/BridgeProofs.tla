---------------------------- MODULE BridgeProofs ----------------------------
(***************************************************************************)
(* The safety of the bridge for any packets and any queue limits.          *)
(*                                                                         *)
(* ResponseSpaceReserved is not inductive: that a response fits follows    *)
(* from the count, and the count changes by one only because a packet is   *)
(* in one place (PacketsOnce) and a queue is sent from only when it is not *)
(* empty (HeadHasOneWakeup).  The conjunction is inductive.                *)
(***************************************************************************)
EXTENDS Bridge, QueueLemmas, FiniteSetTheorems

(* A queue without duplicates is as long as its set of elements is large.  *)
LEMMA QueueCardinality ==
    ASSUME NEW S, NEW s \in Seq(S), Distinct(s)
    PROVE  /\ IsFiniteSet(Elements(s))
           /\ Cardinality(Elements(s)) = Len(s)
           /\ Elements(s) \subseteq S
<1>1. Len(s) \in Nat /\ s \in [1..Len(s) -> S] /\ DOMAIN s = 1..Len(s)
  BY LenProperties
<1>2. s \in [1..Len(s) -> Elements(s)]
  BY <1>1 DEF Elements
<1>3. s \in Bijection(1..Len(s), Elements(s))
  BY <1>1, <1>2 DEF Bijection, Injection, Surjection, Elements, Distinct, IsInjective
<1>4. ExistsBijection(1..Len(s), Elements(s))
  BY <1>3 DEF ExistsBijection
<1>5. IsFiniteSet(1..Len(s)) /\ Cardinality(1..Len(s)) = Len(s)
  BY <1>1, FS_Interval
<1>6. IsFiniteSet(Elements(s)) /\ Cardinality(Elements(s)) = Cardinality(1..Len(s))
  BY <1>4, <1>5, FS_Bijection
<1>7. Elements(s) \subseteq S
  BY <1>1 DEF Elements
<1> QED  BY <1>5, <1>6, <1>7

(* Such a queue is no longer than any finite set that holds its elements.  *)
LEMMA QueueBound ==
    ASSUME NEW S, NEW s \in Seq(S), Distinct(s),
           NEW F, IsFiniteSet(F), Elements(s) \subseteq F
    PROVE  Len(s) <= Cardinality(F)
BY QueueCardinality, FS_Subset

Inv ==
    /\ TypeOK
    /\ PacketsOnce
    /\ ResponseSpaceReserved
    /\ HeadHasOneWakeup
    /\ NoLostRetry

(* The initial state satisfies the inductive invariant.                    *)
LEMMA InitInv == Init => Inv
<1> SUFFICES ASSUME Init PROVE Inv
  OBVIOUS
<1>1. Elements(reqList) = {} /\ Elements(respList) = {}
  BY QueueEmpty DEF Init
<1>2. InFlight = {}
  BY <1>1 DEF Init, InFlight
<1>3. Cardinality(InFlight) = 0
  BY <1>2, FS_EmptySet
<1>4. /\ TypeOK
      /\ PacketsOnce
      /\ HeadHasOneWakeup
      /\ NoLostRetry
  <2>1. TypeOK  BY EmptySeq, Zenon DEF Init, TypeOK
  <2>2. PacketsOnce  BY <1>1, QueueEmpty DEF Init, PacketsOnce
  <2>3. HeadHasOneWakeup  BY DEF Init, HeadHasOneWakeup
  <2>4. NoLostRetry  BY DEF Init, NoLostRetry
  <2> QED  BY <2>1, <2>2, <2>3, <2>4
<1>5. ResponseSpaceReserved
  BY <1>3, QueueEmpty, BridgeAssumption DEF Init, ResponseSpaceReserved
<1> QED  BY <1>4, <1>5 DEF Inv

(* The packets that hold a slot are finitely many.                         *)
LEMMA InFlightFinite ==
    TypeOK /\ PacketsOnce => IsFiniteSet(InFlight) /\ Cardinality(InFlight) \in Nat
<1> SUFFICES ASSUME TypeOK, PacketsOnce
             PROVE  IsFiniteSet(InFlight) /\ Cardinality(InFlight) \in Nat
  OBVIOUS
<1>1. InFlight \in SUBSET Packets
  BY BridgeAssumption DEF TypeOK, PacketsOnce, InFlight
<1> QED  BY <1>1, BridgeAssumption, FS_Subset, FS_CardinalityType

(* recvTimingReq accepts: one more packet in the request queue, and a slot *)
(* more when it expects a response.                                        *)
LEMMA AcceptInv == ASSUME Inv, NEW p \in Packets, RecvTimingReqAccept(p) PROVE Inv'
<1> USE DEF Inv
<1>1. /\ p \notin Elements(reqList) /\ p \notin Elements(respList) /\ p \notin atSlave
      /\ reqList' = Append(reqList, p) /\ respList' = respList /\ atSlave' = atSlave
  BY DEF RecvTimingReqAccept, Idle, schedTimingReq, peerVars
<1>2. /\ reqList' \in Seq(Packets) /\ Len(reqList') = Len(reqList) + 1
      /\ reqList' # <<>> /\ Elements(reqList') = Elements(reqList) \cup {p}
      /\ Distinct(reqList')
  BY <1>1, QueueAppend DEF TypeOK, PacketsOnce
<1>3. /\ IsFiniteSet(InFlight) /\ Cardinality(InFlight) \in Nat
      /\ InFlight' = IF p \in NeedsResponse THEN InFlight \cup {p} ELSE InFlight
      /\ p \notin InFlight
  BY <1>1, <1>2, InFlightFinite DEF InFlight
<1>4. IsFiniteSet(InFlight') /\ outstandingResponses' = Cardinality(InFlight')
  BY <1>3, FS_AddElement DEF ResponseSpaceReserved, RecvTimingReqAccept, Reserved
<1>5. TypeOK'
  BY <1>1, <1>2 DEF TypeOK, RecvTimingReqAccept, Reserved, schedTimingReq, peerVars
<1>6. PacketsOnce'
  BY <1>1, <1>2 DEF PacketsOnce
<1>7. Len(respList') <= outstandingResponses'
  BY <1>4, <1>5, <1>6, QueueBound DEF TypeOK, PacketsOnce, InFlight
<1>8. outstandingResponses' <= RespQueueLimit /\ Len(reqList') <= ReqQueueLimit
  <2>1. Len(reqList) # ReqQueueLimit /\ Len(reqList) \in Nat
    BY LenProperties DEF RecvTimingReqAccept, Accepts, reqQueueFull, TypeOK
  <2>2. p \in NeedsResponse => outstandingResponses # RespQueueLimit
    BY DEF RecvTimingReqAccept, Accepts, respQueueFull
  <2> QED  BY <1>2, <2>1, <2>2, BridgeAssumption
           DEF TypeOK, ResponseSpaceReserved, RecvTimingReqAccept, Reserved
<1>9. HeadHasOneWakeup'
  BY <1>1, <1>2, Zenon DEF HeadHasOneWakeup, TypeOK, RecvTimingReqAccept, schedTimingReq, peerVars
<1>10. NoLostRetry'
  BY <1>1, <1>2 DEF NoLostRetry, RecvTimingReqAccept, Accepts, peerVars
<1> QED  BY <1>4, <1>5, <1>6, <1>7, <1>8, <1>9, <1>10 DEF ResponseSpaceReserved

(* recvTimingReq refuses: only the retry owed changes, and some packet     *)
(* occupies the space that was missing.                                    *)
LEMMA RefuseInv == ASSUME Inv, NEW p \in Packets, RecvTimingReqRefuse(p) PROVE Inv'
<1> USE DEF Inv
<1>1. UNCHANGED <<reqList, respList, outstandingResponses, reqSendEvent,
                  respSendEvent, respRefused, reqRefused, atSlave>>
  BY DEF RecvTimingReqRefuse
<1>2. retryReq' = TRUE /\ masterWaiting' = TRUE
  BY DEF RecvTimingReqRefuse
<1>3. InFlight' = InFlight
  BY <1>1 DEF InFlight
<1>4. TypeOK' /\ PacketsOnce' /\ HeadHasOneWakeup'
  BY <1>1, <1>2 DEF TypeOK, PacketsOnce, HeadHasOneWakeup
<1>5. ResponseSpaceReserved'
  BY <1>1, <1>3 DEF ResponseSpaceReserved
<1>6. reqList # <<>> \/ InFlight # {}
  <2>1. CASE retryReq
    BY <2>1 DEF NoLostRetry
  <2>2. CASE reqQueueFull
    BY <2>2, QueueEmpty, BridgeAssumption DEF reqQueueFull
  <2>3. CASE respQueueFull
    BY <2>3, FS_EmptySet, BridgeAssumption, Zenon DEF respQueueFull, ResponseSpaceReserved
  <2> QED  BY <2>1, <2>2, <2>3 DEF RecvTimingReqRefuse, Accepts
<1> QED  BY <1>1, <1>2, <1>3, <1>4, <1>5, <1>6 DEF NoLostRetry

(* recvTimingResp: the packet keeps the slot it was given.                 *)
LEMMA RespInv == ASSUME Inv, NEW p \in Packets, RecvTimingResp(p) PROVE Inv'
<1> USE DEF Inv
<1>1. /\ p \in atSlave /\ p \in NeedsResponse /\ atSlave' = atSlave \ {p}
      /\ respList' = Append(respList, p)
      /\ respSendEvent' = (respSendEvent \/ respList = <<>>)
      /\ UNCHANGED <<reqList, outstandingResponses, retryReq, reqSendEvent,
                     masterWaiting, respRefused, reqRefused>>
  BY DEF RecvTimingResp, schedTimingResp, TypeOK
<1>2. /\ respList' \in Seq(Packets) /\ respList' # <<>>
      /\ Elements(respList') = Elements(respList) \cup {p}
      /\ Distinct(respList')
  BY <1>1, QueueAppend DEF TypeOK, PacketsOnce
<1>3. InFlight' = InFlight
  BY <1>1, <1>2 DEF InFlight
<1>4. TypeOK'
  BY <1>1, <1>2 DEF TypeOK
<1>5. PacketsOnce'
  BY <1>1, <1>2 DEF PacketsOnce
<1>6. Len(respList') <= Cardinality(InFlight')
  <2>1. IsFiniteSet(InFlight')  BY <1>3, InFlightFinite
  <2>2. Elements(respList') \subseteq InFlight'  BY DEF InFlight
  <2> QED  BY <2>1, <2>2, <1>2, QueueBound
<1>7. ResponseSpaceReserved'
  BY <1>1, <1>3, <1>6 DEF ResponseSpaceReserved
<1>8. HeadHasOneWakeup'
  BY <1>1, <1>2, Zenon DEF HeadHasOneWakeup, TypeOK
<1>9. NoLostRetry'
  BY <1>1, <1>3 DEF NoLostRetry
<1> QED  BY <1>4, <1>5, <1>7, <1>8, <1>9

(* BridgeMasterPort::trySendTiming succeeds: a request that expects a      *)
(* response moves to the slave and keeps its slot.                         *)
LEMMA MasterSendInv == ASSUME Inv, MasterTrySendTiming PROVE Inv'
<1> USE DEF Inv
<1>1. /\ reqList # <<>> /\ reqList' = Tail(reqList)
      /\ atSlave' = atSlave \cup ({Head(reqList)} \cap NeedsResponse)
      /\ reqSendEvent' = (Len(reqList) > 1) /\ reqRefused' = FALSE
      /\ retryReq' = FALSE /\ masterWaiting' = (masterWaiting /\ ~retryReq)
      /\ UNCHANGED <<respList, outstandingResponses, respSendEvent, respRefused>>
  BY DEF MasterTrySendTiming, retryStalledReq, popFront, moreToSend, HeadHasOneWakeup
<1>2. /\ reqList' \in Seq(Packets) /\ Len(reqList') = Len(reqList) - 1
      /\ Len(reqList) \in Nat
      /\ Head(reqList) \in Elements(reqList)
      /\ Elements(reqList') = Elements(reqList) \ {Head(reqList)}
      /\ Distinct(reqList') /\ (reqList' # <<>> <=> Len(reqList) > 1)
  BY <1>1, QueuePop, Zenon DEF TypeOK, PacketsOnce
<1>3. InFlight' = InFlight
  BY <1>1, <1>2 DEF InFlight
<1>4. TypeOK'
  <2>1. reqSendEvent' \in BOOLEAN /\ masterWaiting' \in BOOLEAN
    BY <1>1
  <2>2. atSlave' \subseteq NeedsResponse
    BY <1>1 DEF TypeOK
  <2> QED  BY <1>1, <1>2, <2>1, <2>2, Zenon DEF TypeOK
<1>5. PacketsOnce'
  BY <1>1, <1>2 DEF PacketsOnce
<1>6. ResponseSpaceReserved'
  <2>1. Len(reqList') <= ReqQueueLimit
    BY <1>2, BridgeAssumption DEF ResponseSpaceReserved
  <2> QED  BY <1>1, <1>3, <2>1 DEF ResponseSpaceReserved
<1>7. HeadHasOneWakeup'
  BY <1>1, <1>2 DEF HeadHasOneWakeup, TypeOK
<1>8. NoLostRetry'
  BY <1>1, Zenon DEF NoLostRetry
<1> QED  BY <1>4, <1>5, <1>6, <1>7, <1>8

(* trySendTiming is refused: the wake-up of the head becomes the retry.    *)
LEMMA RefusedInv ==
    ASSUME Inv, MasterTrySendTimingRefused \/ SlaveTrySendTimingRefused
    PROVE  Inv'
<1> USE DEF Inv
<1>1. /\ reqList # <<>> \/ respList # <<>>
      /\ UNCHANGED <<reqList, respList, outstandingResponses, retryReq,
                     masterWaiting, atSlave>>
  BY DEF MasterTrySendTimingRefused, SlaveTrySendTimingRefused, HeadHasOneWakeup
<1>2. InFlight' = InFlight
  BY <1>1 DEF InFlight
<1>3. TypeOK'
  BY Zenon DEF TypeOK, MasterTrySendTimingRefused, SlaveTrySendTimingRefused
<1>4. PacketsOnce' /\ ResponseSpaceReserved' /\ NoLostRetry'
  BY <1>1, <1>2 DEF PacketsOnce, ResponseSpaceReserved, NoLostRetry
<1>5. HeadHasOneWakeup'
  BY DEF HeadHasOneWakeup, TypeOK, MasterTrySendTimingRefused, SlaveTrySendTimingRefused
<1> QED  BY <1>3, <1>4, <1>5

(* BridgeSlavePort::trySendTiming succeeds: what the pop and the retry do, *)
(* whatever the master did from inside its recvTimingResp.                 *)
LEMMA RespSentFacts ==
    ASSUME Inv, NEW stalled \in BOOLEAN, RespSent(stalled)
    PROVE  /\ respList # <<>> /\ respList' = Tail(respList)
           /\ respList' \in Seq(Packets) /\ Distinct(respList')
           /\ Head(respList) \in Elements(respList)
           /\ Elements(respList') = Elements(respList) \ {Head(respList)}
           /\ respSendEvent' = (respList' # <<>>) /\ respRefused' = FALSE
           /\ retryReq' \in BOOLEAN /\ masterWaiting' = retryReq'
           /\ retryReq' => (retryReq \/ stalled) /\ Len(reqList') = ReqQueueLimit
           /\ UNCHANGED <<reqRefused, atSlave>>
<1> USE DEF Inv
<1>1. respList # <<>> /\ respList' = Tail(respList)
  BY DEF RespSent, popFront, HeadHasOneWakeup
<1>2. /\ respList' \in Seq(Packets) /\ Distinct(respList')
      /\ Head(respList) \in Elements(respList)
      /\ Elements(respList') = Elements(respList) \ {Head(respList)}
      /\ (respList' # <<>> <=> Len(respList) > 1)
  BY <1>1, QueuePop DEF TypeOK, PacketsOnce
<1>3. respSendEvent' = (respList' # <<>>)
  BY <1>2 DEF RespSent, moreToSend
<1>4. masterWaiting = retryReq /\ retryReq \in BOOLEAN
  BY DEF NoLostRetry, TypeOK
<1>5. /\ retryReq' \in BOOLEAN /\ masterWaiting' = retryReq'
      /\ retryReq' => (retryReq \/ stalled) /\ Len(reqList') = ReqQueueLimit
  BY <1>4, Zenon DEF RespSent, SpaceForRetry
<1> QED  BY <1>1, <1>2, <1>3, <1>5 DEF RespSent

(* No request from inside recvTimingResp, or one that was refused.         *)
LEMMA SlaveSendInv ==
    ASSUME Inv, NEW stalled \in BOOLEAN, RespSent(stalled),
           UNCHANGED <<reqList, reqSendEvent>>,
           outstandingResponses' = outstandingResponses - 1
    PROVE  Inv'
<1> USE DEF Inv
<1> DEFINE h == Head(respList)
<1>1. /\ respList # <<>> /\ respList' \in Seq(Packets) /\ Distinct(respList')
      /\ h \in Elements(respList) /\ Elements(respList') = Elements(respList) \ {h}
      /\ respSendEvent' = (respList' # <<>>) /\ respRefused' = FALSE
      /\ retryReq' \in BOOLEAN /\ masterWaiting' = retryReq'
      /\ retryReq' => Len(reqList') = ReqQueueLimit
      /\ UNCHANGED <<reqRefused, atSlave>>
  BY RespSentFacts, Zenon
<1>2. /\ IsFiniteSet(InFlight) /\ Cardinality(InFlight) \in Nat
      /\ h \in InFlight /\ InFlight' = InFlight \ {h}
  BY <1>1, InFlightFinite DEF InFlight, PacketsOnce
<1>3. /\ IsFiniteSet(InFlight') /\ Cardinality(InFlight') = Cardinality(InFlight) - 1
      /\ Cardinality(InFlight') \in Nat
  BY <1>2, FS_RemoveElement, FS_CardinalityType
<1>4. TypeOK'
  BY <1>1, <1>3, Zenon DEF TypeOK, ResponseSpaceReserved
<1>5. PacketsOnce'
  BY <1>1 DEF PacketsOnce
<1>6. Len(respList') <= Cardinality(InFlight')
  <2>1. Elements(respList') \subseteq InFlight'  BY DEF InFlight
  <2> QED  BY <2>1, <1>1, <1>3, QueueBound
<1>7. ResponseSpaceReserved'
  BY <1>3, <1>6, BridgeAssumption DEF ResponseSpaceReserved, TypeOK
<1>8. HeadHasOneWakeup'
  BY <1>1 DEF HeadHasOneWakeup, TypeOK
<1>9. NoLostRetry'
  <2>1. retryReq' => reqList' # <<>>
    BY <1>1, QueueEmpty, BridgeAssumption
  <2> QED  BY <1>1, <2>1 DEF NoLostRetry
<1> QED  BY <1>4, <1>5, <1>7, <1>8, <1>9

(* A request accepted from inside recvTimingResp: its slot was taken       *)
(* before the one of the response was released.                            *)
LEMMA NestedAcceptInv ==
    ASSUME Inv, NEW p \in Packets, SlaveTrySendTimingNestedAccept(p)
    PROVE  Inv'
<1> USE DEF Inv
<1> DEFINE h == Head(respList)
           mid == IF p \in NeedsResponse THEN InFlight \cup {p} ELSE InFlight
<1>1. /\ respList # <<>> /\ respList' \in Seq(Packets) /\ Distinct(respList')
      /\ h \in Elements(respList) /\ Elements(respList') = Elements(respList) \ {h}
      /\ respSendEvent' = (respList' # <<>>) /\ respRefused' = FALSE
      /\ retryReq' \in BOOLEAN /\ masterWaiting' = retryReq'
      /\ retryReq' => retryReq
      /\ UNCHANGED <<reqRefused, atSlave>>
  BY RespSentFacts, Zenon DEF SlaveTrySendTimingNestedAccept
<1>2. ~retryReq'
  BY <1>1 DEF SlaveTrySendTimingNestedAccept, Accepts
<1>3. /\ p \notin Elements(reqList) /\ p \notin Elements(respList) /\ p \notin atSlave
      /\ reqList' = Append(reqList, p)
      /\ reqSendEvent' = (reqSendEvent \/ reqList = <<>>)
  BY DEF SlaveTrySendTimingNestedAccept, Idle, schedTimingReq
<1>4. /\ reqList' \in Seq(Packets) /\ Len(reqList') = Len(reqList) + 1
      /\ reqList' # <<>> /\ Elements(reqList') = Elements(reqList) \cup {p}
      /\ Distinct(reqList')
  BY <1>3, QueueAppend DEF TypeOK, PacketsOnce
<1>5. /\ IsFiniteSet(InFlight) /\ Cardinality(InFlight) \in Nat
      /\ p \notin InFlight /\ h \in InFlight /\ h # p
      /\ InFlight' = mid \ {h}
  BY <1>1, <1>3, <1>4, InFlightFinite DEF InFlight, PacketsOnce
<1>6. /\ IsFiniteSet(mid)
      /\ Cardinality(mid) = Cardinality(InFlight) + Reserved(p)
      /\ h \in mid
  <2>1. CASE p \in NeedsResponse
    <3>1. mid = InFlight \cup {p} /\ Reserved(p) = 1
      BY <2>1 DEF Reserved
    <3> QED  BY <3>1, <1>5, FS_AddElement
  <2>2. CASE p \notin NeedsResponse
    <3>1. mid = InFlight /\ Reserved(p) = 0
      BY <2>2 DEF Reserved
    <3> HIDE DEF mid
    <3> QED  BY <3>1, <1>5
  <2> QED  BY <2>1, <2>2
<1>7. /\ IsFiniteSet(InFlight') /\ Cardinality(InFlight') = Cardinality(mid) - 1
      /\ Cardinality(InFlight') \in Nat
  BY <1>5, <1>6, FS_RemoveElement, FS_CardinalityType, Zenon
<1>8. outstandingResponses' = Cardinality(InFlight')
  BY <1>6, <1>7 DEF SlaveTrySendTimingNestedAccept, ResponseSpaceReserved
<1>9. TypeOK'
  BY <1>1, <1>3, <1>4, <1>7, <1>8, Zenon DEF TypeOK
<1>10. PacketsOnce'
  BY <1>1, <1>3, <1>4 DEF PacketsOnce
<1>11. Len(respList') <= Cardinality(InFlight')
  <2>1. Elements(respList') \subseteq InFlight'  BY DEF InFlight
  <2> QED  BY <2>1, <1>1, <1>7, QueueBound
<1>12. Len(reqList') <= ReqQueueLimit
  <2>1. Len(reqList) # ReqQueueLimit /\ Len(reqList) \in Nat
    BY LenProperties DEF SlaveTrySendTimingNestedAccept, Accepts, reqQueueFull, TypeOK
  <2> QED  BY <2>1, <1>4, BridgeAssumption DEF ResponseSpaceReserved
<1>13. outstandingResponses' <= RespQueueLimit
  BY BridgeAssumption
     DEF SlaveTrySendTimingNestedAccept, ResponseSpaceReserved, Reserved, TypeOK
<1>14. HeadHasOneWakeup'
  BY <1>1, <1>3, <1>4 DEF HeadHasOneWakeup, TypeOK
<1>15. NoLostRetry'
  BY <1>1, <1>2 DEF NoLostRetry
<1> QED
  BY <1>8, <1>9, <1>10, <1>11, <1>12, <1>13, <1>14, <1>15 DEF ResponseSpaceReserved

(* Every step of the bridge and its peers preserves the invariant.         *)
LEMMA NextInv == Inv /\ [Next]_vars => Inv'
<1> SUFFICES ASSUME Inv, [Next]_vars PROVE Inv'
  OBVIOUS
<1>1. ASSUME NEW p \in Packets, RecvTimingReqAccept(p) PROVE Inv'
  BY <1>1, AcceptInv
<1>2. ASSUME NEW p \in Packets, RecvTimingReqRefuse(p) PROVE Inv'
  BY <1>2, RefuseInv
<1>3. ASSUME NEW p \in Packets, RecvTimingResp(p) PROVE Inv'
  BY <1>3, RespInv
<1>4. CASE MasterTrySendTiming
  BY <1>4, MasterSendInv
<1>5. CASE MasterTrySendTimingRefused \/ SlaveTrySendTimingRefused
  BY <1>5, RefusedInv
<1>6. CASE SlaveTrySendTiming
  BY <1>6, SlaveSendInv, Zenon DEF SlaveTrySendTiming
<1>7. ASSUME NEW p \in Packets, SlaveTrySendTimingNestedAccept(p) PROVE Inv'
  BY <1>7, NestedAcceptInv
<1>8. ASSUME NEW p \in Packets, SlaveTrySendTimingNestedRefuse(p) PROVE Inv'
  BY <1>8, SlaveSendInv, Zenon DEF SlaveTrySendTimingNestedRefuse
<1>9. CASE UNCHANGED vars
  <2>1. InFlight' = InFlight  BY <1>9 DEF vars, InFlight
  <2> QED
    BY <1>9, <2>1 DEF vars, Inv, TypeOK, PacketsOnce, ResponseSpaceReserved,
                      HeadHasOneWakeup, NoLostRetry
<1> QED
  BY <1>1, <1>2, <1>3, <1>4, <1>5, <1>6, <1>7, <1>8, <1>9 DEF Next, RespDelivered

(* The inductive invariant holds in every reachable state.                 *)
THEOREM BridgeInvariant == Spec => []Inv
BY InitInv, NextInv, PTL DEF Spec

(* Every variable keeps its type; outstandingResponses never goes below    *)
(* zero, for any packets and limits.                                       *)
THEOREM BridgeTypeOK == Spec => []TypeOK
BY BridgeInvariant, PTL DEF Inv

(* recvTimingResp's comment holds for any limits: a response always finds  *)
(* the space that was reserved for it when its request was accepted.       *)
THEOREM BridgeResponseSpace == Spec => []ResponseSpaceReserved
BY BridgeInvariant, PTL DEF Inv

(* No queue is ever stuck, and no send event is scheduled twice.           *)
THEOREM BridgeWakeup == Spec => []HeadHasOneWakeup
BY BridgeInvariant, PTL DEF Inv

(* A refused master is never forgotten.                                    *)
THEOREM BridgeRetry == Spec => []NoLostRetry
BY BridgeInvariant, PTL DEF Inv

(* A retry sent after a response is never futile: the request queue was    *)
(* checked and the response just sent released a slot.                     *)
THEOREM BridgeRetrySucceeds == Spec => RetryAfterResponseSucceeds
<1> DEFINE A == (masterWaiting /\ ~masterWaiting' /\ Len(respList') < Len(respList))
                => \A p \in Packets : Accepts(p)'
<1>1. ASSUME Inv, [Next]_vars PROVE [A]_vars
  <2> SUFFICES ASSUME Inv, Next, masterWaiting, ~masterWaiting',
                      Len(respList') < Len(respList), NEW p \in Packets
               PROVE  Accepts(p)'
    BY <1>1
  <2>1. retryReq /\ \A q \in Packets : ~Accepts(q)
    BY DEF Inv, NoLostRetry, Accepts
  <2>2. /\ RespSent(FALSE) \/ RespSent(TRUE)
        /\ outstandingResponses' = outstandingResponses - 1
    <3>1. ASSUME NEW q \in Packets, RecvTimingResp(q) PROVE FALSE
      <4>1. Len(respList') = Len(respList) + 1 /\ Len(respList) \in Nat
        BY <3>1, QueueAppend, LenProperties DEF RecvTimingResp, schedTimingResp, Inv, TypeOK
      <4> QED  BY <4>1
    <3>2. respList' # respList
      <4>1. Len(respList) \in Nat
        BY LenProperties DEF Inv, TypeOK
      <4> QED  BY <4>1
    <3> QED
      BY <2>1, <3>1, <3>2, Zenon DEF Next, RespDelivered, RecvTimingReqAccept, RecvTimingReqRefuse,
         MasterTrySendTiming, MasterTrySendTimingRefused, SlaveTrySendTiming,
         SlaveTrySendTimingNestedAccept, SlaveTrySendTimingNestedRefuse,
         SlaveTrySendTimingRefused
  <2>3. Inv'
    BY NextInv
  <2>4. ~retryReq' /\ Len(reqList') # ReqQueueLimit
    <3>1. ~retryReq'  BY <2>3 DEF Inv, NoLostRetry
    <3> QED  BY <2>1, <2>2, <3>1, Zenon DEF RespSent, SpaceForRetry
  <2>5. outstandingResponses' # RespQueueLimit
    BY <2>2, BridgeAssumption DEF Inv, TypeOK, ResponseSpaceReserved
  <2> QED  BY <2>4, <2>5 DEF Accepts, reqQueueFull, respQueueFull
<1>2. RetryAfterResponseSucceeds <=> [][A]_vars
  BY DEF RetryAfterResponseSucceeds
<1> QED  BY <1>1, <1>2, BridgeInvariant, PTL DEF Spec
=============================================================================
