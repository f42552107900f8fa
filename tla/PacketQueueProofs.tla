-------------------------- MODULE PacketQueueProofs -------------------------
(***************************************************************************)
(* Proofs about PacketQueue for any packets, addresses and delays, with    *)
(* and without forced order.                                               *)
(***************************************************************************)
EXTENDS PacketQueue, QueueLemmas

Entries == [pkt : Packets, tick : 0 .. MaxDelay]

(* The inductive invariant: the properties, and the fact that a scheduled  *)
(* event is for a packet and not before its time, inside a send as well.   *)
QueueInv ==
    /\ TypeOK
    /\ SendsOnlyWhenDue
    /\ SendsInTime
    /\ DrainNotForgotten
    /\ sendEvent # NotScheduled =>
         transmitList # <<>> /\ Head(transmitList).tick <= sendEvent
    /\ inSend => ~waitingOnRetry

(* The list with e behind its first k elements.                            *)
Inserted(s, k, e) == SubSeq(s, 1, k) \o <<e>> \o SubSeq(s, k + 1, Len(s))

(* What an insertion by schedSendTiming does to the front of the list.     *)
LEMMA InsertFront ==
    ASSUME NEW S, NEW s \in Seq(S), NEW e \in S, NEW k \in 0 .. Len(s)
    PROVE  /\ Inserted(s, k, e) \in Seq(S)
           /\ Inserted(s, k, e) # <<>>
           /\ k = 0 => Head(Inserted(s, k, e)) = e
           /\ k # 0 => s # <<>> /\ Head(Inserted(s, k, e)) = Head(s)
<1> DEFINE a == SubSeq(s, 1, k)
           b == SubSeq(s, k + 1, Len(s))
           c == a \o <<e>>
<1>1. k \in Nat /\ Len(s) \in Nat /\ k <= Len(s) /\ (k + 1) - 1 = k
  OBVIOUS
<1>2. Inserted(s, k, e) = c \o b
  BY <1>1, Zenon DEF Inserted
<1>3. /\ a \in Seq(S) /\ Len(a) = k
      /\ k # 0 => a[1] = s[1]
  BY <1>1
<1>4. b \in Seq(S)
  BY <1>1
<1>5. /\ c \in Seq(S) /\ Len(c) = k + 1
      /\ c[1] = IF k = 0 THEN e ELSE s[1]
  <2>1. <<e>> \in Seq(S) /\ Len(<<e>>) = 1 /\ <<e>>[1] = e
    OBVIOUS
  <2> HIDE DEF a
  <2> QED BY <1>1, <1>3, <2>1
<1> HIDE DEF b, c
<1>6. /\ c \o b \in Seq(S) /\ Len(c \o b) = Len(c) + Len(b)
      /\ (c \o b)[1] = c[1]
  <2>1. c \o b \in Seq(S) /\ Len(c \o b) = Len(c) + Len(b)
    BY <1>4, <1>5
  <2>2. Len(c) \in Nat /\ Len(b) \in Nat /\ 1 <= Len(c)
    BY <1>4, <1>5
  <2>3. (c \o b)[1] = c[1]
    BY <1>4, <1>5, <2>2
  <2> QED  BY <2>1, <2>3
<1>7. c \o b # <<>> /\ Head(c \o b) = c[1]
  BY <1>1, <1>4, <1>5, <1>6
<1>8. k # 0 => s # <<>> /\ Head(s) = s[1]
  BY <1>1
<1> QED
  BY <1>2, <1>5, <1>6, <1>7, <1>8, Zenon

(* The packet at the front is an entry of the right type.                  *)
LEMMA FrontEntry ==
    ASSUME QueueInv, transmitList # <<>>
    PROVE  Head(transmitList) \in Entries /\ Head(transmitList).tick \in 0 .. MaxDelay
<1>1. transmitList \in Seq(Entries)
  BY DEF QueueInv, TypeOK, Entries
<1>2. Head(transmitList) \in Entries
  BY <1>1
<1> QED BY <1>2 DEF Entries

(* The time of an event that schedSendEvent sets for `when`.               *)
LEMMA EventTimes ==
    ASSUME QueueInv, NEW when \in 0 .. MaxDelay
    PROVE  /\ EventAt(when) \in 1 .. MaxDelay \/ EventAt(when) = sendEvent
           /\ EventAt(when) \in 0 .. MaxDelay
           /\ EventAt(when) <= SendAt(when)
           /\ sendEvent # NotScheduled /\ when <= sendEvent => when <= EventAt(when)
           /\ sendEvent = NotScheduled => when <= EventAt(when)
  BY QueueAssumption DEF QueueInv, TypeOK, EventAt, SendAt, NotScheduled

(* The queue starts empty with no event scheduled.                         *)
LEMMA QueueInitInv == Init => QueueInv
<1> SUFFICES ASSUME Init PROVE QueueInv
  OBVIOUS
<1>1. TypeOK
  <2>1. transmitList \in Seq([pkt : Packets, tick : 0 .. MaxDelay])
    BY DEF Init
  <2> QED BY <2>1, Zenon DEF Init, TypeOK
<1>2. sendEvent # 0 /\ ~waitingOnRetry /\ ~inSend
  BY DEF Init, NotScheduled
<1> QED BY <1>1, <1>2, Zenon
     DEF Init, QueueInv, SendsOnlyWhenDue, SendsInTime, DrainNotForgotten

(* Scheduling a packet keeps the invariant.                                *)
LEMMA SchedInv ==
    ASSUME QueueInv, NEW p \in Packets, NEW when \in 0 .. MaxDelay,
           schedSendTiming(p, when)
    PROVE  QueueInv' /\ (waitingOnRetry => Head(transmitList') = Head(transmitList))
<1> DEFINE e == [pkt |-> p, tick |-> when]
<1>1. PICK k \in 0 .. Len(transmitList) :
        /\ k # 0 => StaysBehind(p, when, transmitList[k])
        /\ \A i \in k + 1 .. Len(transmitList) : ~StaysBehind(p, when, transmitList[i])
        /\ transmitList' = Inserted(transmitList, k, e)
        /\ sendEvent' = IF AtFront(k) /\ ~waitingOnRetry THEN EventAt(when) ELSE sendEvent
  BY DEF schedSendTiming, Inserted
<1>2. transmitList \in Seq(Entries) /\ e \in Entries
  BY DEF QueueInv, TypeOK, Entries
<1>3. /\ transmitList' \in Seq(Entries) /\ transmitList' # <<>>
      /\ k = 0 => Head(transmitList') = e
      /\ k # 0 => transmitList # <<>> /\ Head(transmitList') = Head(transmitList)
  BY <1>1, <1>2, InsertFront
<1>4. k = 0 /\ transmitList # <<>> => when < Head(transmitList).tick
  <2> SUFFICES ASSUME k = 0, transmitList # <<>>
               PROVE  when < Head(transmitList).tick
    OBVIOUS
  <2>1. 1 \in k + 1 .. Len(transmitList) /\ Head(transmitList) = transmitList[1]
    BY <1>2
  <2>2. Head(transmitList) \in Entries
    BY <1>2
  <2>3. ~StaysBehind(p, when, Head(transmitList))
    BY <1>1, <2>1
  <2> QED BY <2>2, <2>3, QueueAssumption DEF StaysBehind, Entries
<1>5. /\ waitingOnRetry => k # 0
      /\ UNCHANGED <<forceOrder, waitingOnRetry, inSend, drainState>>
  BY <1>4, QueueAssumption DEF QueueInv, SendsOnlyWhenDue, schedSendTiming
<1>6. CASE k # 0
  <2>1. sendEvent' = sendEvent
    BY <1>1, <1>6 DEF AtFront
  <2> QED BY <1>2, <1>3, <1>5, <1>6, <2>1
       DEF QueueInv, TypeOK, SendsOnlyWhenDue, SendsInTime, DrainNotForgotten,
           Entries, SendAt, NotScheduled
<1>7. CASE k = 0
  <2>1. sendEvent' = EventAt(when) /\ Head(transmitList').tick = when /\ ~waitingOnRetry
    BY <1>1, <1>3, <1>5, <1>7 DEF AtFront
  <2>2. when <= EventAt(when)
    <3>1. sendEvent # NotScheduled => Head(transmitList) \in Entries /\ transmitList # <<>>
      BY <1>2 DEF QueueInv
    <3>2. CASE sendEvent = NotScheduled
      BY <3>2, EventTimes
    <3>3. CASE sendEvent # NotScheduled
      <4>1. when < Head(transmitList).tick /\ Head(transmitList).tick <= sendEvent
        BY <1>4, <1>7, <3>1, <3>3 DEF QueueInv
      <4>2. sendEvent \in Int /\ when \in Int /\ Head(transmitList).tick \in Int
        BY <3>1, <3>3 DEF QueueInv, TypeOK, Entries
      <4>3. when <= sendEvent
        BY <4>1, <4>2
      <4> QED BY <3>3, <4>3, EventTimes
    <3> QED BY <3>2, <3>3
  <2>3. EventAt(when) \in 0 .. MaxDelay /\ EventAt(when) <= SendAt(when)
    BY EventTimes
  <2> QED BY <1>2, <1>3, <1>5, <1>7, <2>1, <2>2, <2>3
       DEF QueueInv, TypeOK, SendsOnlyWhenDue, SendsInTime, DrainNotForgotten,
           Entries, SendAt, NotScheduled
<1> QED BY <1>6, <1>7

(* Sending, or trying to, keeps the invariant.                             *)
LEMMA SendInv ==
    ASSUME QueueInv, processSendEvent \/ retry
    PROVE  QueueInv'
<1>1. sendEvent' = NotScheduled
  BY DEF processSendEvent, retry, QueueInv, SendsOnlyWhenDue
<1>2. /\ transmitList # <<>> /\ Head(transmitList).tick = 0 /\ ~inSend
      /\ UNCHANGED <<forceOrder, drainState>>
  BY DEF processSendEvent, retry, QueueInv, SendsOnlyWhenDue
<1>3. CASE SendAccepted
  <2>1. transmitList' \in Seq([pkt : Packets, tick : 0 .. MaxDelay])
    BY <1>2, <1>3 DEF SendAccepted, QueueInv, TypeOK
  <2>2. sendEvent' # 0 /\ ~waitingOnRetry' /\ inSend'
    BY <1>1, <1>3 DEF SendAccepted, NotScheduled
  <2>3. TypeOK'
    BY <1>1, <1>2, <1>3, <2>1, Zenon DEF SendAccepted, QueueInv, TypeOK
  <2>4. NotScheduled' = NotScheduled
    BY DEF NotScheduled
  <2> QED BY <1>1, <2>2, <2>3, <2>4, Zenon
       DEF QueueInv, SendsOnlyWhenDue, SendsInTime, DrainNotForgotten
<1>4. CASE SendRefused
  BY <1>1, <1>2, <1>4
  DEF SendRefused, QueueInv, TypeOK, SendsOnlyWhenDue, SendsInTime,
      DrainNotForgotten, NotScheduled
<1> QED BY <1>3, <1>4 DEF processSendEvent, retry

(* So does the return of sendTiming,                                       *)
LEMMA ReturnInv ==
    ASSUME QueueInv, SendReturns
    PROVE  QueueInv'
<1>1. /\ inSend /\ inSend' = FALSE /\ ~waitingOnRetry
      /\ UNCHANGED <<forceOrder, transmitList, waitingOnRetry>>
  BY DEF SendReturns, QueueInv
<1>2. CASE transmitList # <<>>
  <2> DEFINE h == Head(transmitList).tick
  <2>1. sendEvent' = EventAt(h) /\ drainState' = drainState
    BY <1>2 DEF SendReturns
  <2>2. h \in 0 .. MaxDelay
    BY <1>2, FrontEntry
  <2>3. EventAt(h) \in 0 .. MaxDelay /\ EventAt(h) <= SendAt(h)
    BY <2>2, EventTimes
  <2>4. h <= EventAt(h)
    BY <2>2, EventTimes DEF QueueInv
  <2> HIDE DEF h
  <2>5. sendEvent' = 0 => h = 0
    BY <2>1, <2>2, <2>4
  <2>6. sendEvent' # NotScheduled
    BY <2>1, <2>3, QueueAssumption DEF NotScheduled
  <2>7. TypeOK'
    BY <1>1, <2>1, <2>3, Zenon DEF QueueInv, TypeOK
  <2> QED BY <1>1, <1>2, <2>1, <2>3, <2>4, <2>5, <2>6, <2>7
       DEF QueueInv, SendsOnlyWhenDue, SendsInTime, DrainNotForgotten, SendAt, h,
           NotScheduled
<1>3. CASE transmitList = <<>>
  <2>1. sendEvent' = sendEvent /\ sendEvent = NotScheduled
    BY <1>3 DEF SendReturns, QueueInv
  <2>2. drainState' # "Draining" /\ drainState' \in {"Running", "Draining", "Drained"}
    BY <1>3, <2>1 DEF SendReturns, signalDrainDone, QueueInv, TypeOK
  <2>3. TypeOK'
    BY <1>1, <2>1, <2>2, Zenon DEF QueueInv, TypeOK
  <2>4. sendEvent' # 0
    BY <2>1 DEF NotScheduled
  <2> QED BY <1>1, <1>3, <2>1, <2>2, <2>3, <2>4
       DEF QueueInv, SendsOnlyWhenDue, SendsInTime, DrainNotForgotten
<1> QED BY <1>2, <1>3

(* the passing of time,                                                    *)
LEMMA TickInv ==
    ASSUME QueueInv, Tick
    PROVE  QueueInv' /\ (waitingOnRetry => Head(transmitList').pkt = Head(transmitList).pkt)
<1>1. /\ sendEvent # 0 /\ ~inSend /\ sendEvent' = Earlier(sendEvent)
      /\ UNCHANGED <<forceOrder, waitingOnRetry, inSend, drainState>>
  BY DEF Tick
<1>2. /\ transmitList' \in Seq([pkt : Packets, tick : 0 .. MaxDelay])
      /\ (transmitList = <<>>) <=> (transmitList' = <<>>)
      /\ transmitList # <<>> =>
           /\ Head(transmitList').tick = Earlier(Head(transmitList).tick)
           /\ Head(transmitList').pkt = Head(transmitList).pkt
  <2>1. transmitList \in Seq([pkt : Packets, tick : 0 .. MaxDelay])
    BY DEF QueueInv, TypeOK
  <2>2. transmitList' = [i \in 1 .. Len(transmitList) |->
                           [pkt |-> transmitList[i].pkt, tick |-> Earlier(transmitList[i].tick)]]
    BY <2>1 DEF Tick
  <2>3. ASSUME NEW i \in 1 .. Len(transmitList)
        PROVE  [pkt |-> transmitList[i].pkt, tick |-> Earlier(transmitList[i].tick)]
                 \in [pkt : Packets, tick : 0 .. MaxDelay]
    <3>1. transmitList \in Seq(Entries)
      BY <2>1 DEF Entries
    <3>2. transmitList[i].pkt \in Packets /\ transmitList[i].tick \in 0 .. MaxDelay
      <4>1. transmitList[i] \in Entries
        BY <3>1
      <4> QED BY <4>1 DEF Entries
    <3>3. Earlier(transmitList[i].tick) \in 0 .. MaxDelay
      BY <3>2, QueueAssumption DEF Earlier
    <3> QED BY <3>2, <3>3
  <2>4. transmitList' \in Seq([pkt : Packets, tick : 0 .. MaxDelay])
        /\ Len(transmitList') = Len(transmitList)
    BY <2>1, <2>2, <2>3
  <2>5. transmitList # <<>> =>
          /\ 1 \in 1 .. Len(transmitList)
          /\ Head(transmitList) = transmitList[1] /\ Head(transmitList') = transmitList'[1]
    BY <2>1, <2>4
  <2>6. (transmitList = <<>>) <=> (transmitList' = <<>>)
    BY <2>1, <2>4
  <2>7. transmitList # <<>> =>
          transmitList'[1] = [pkt |-> transmitList[1].pkt,
                              tick |-> Earlier(transmitList[1].tick)]
    BY <2>2, <2>5
  <2> QED BY <2>4, <2>5, <2>6, <2>7
<1>3. transmitList # <<>> => Head(transmitList).tick \in 0 .. MaxDelay
  BY FrontEntry
<1>4. TypeOK'
  BY <1>1, <1>2, QueueAssumption DEF QueueInv, TypeOK, Earlier, NotScheduled
<1>5. SendsOnlyWhenDue'
  BY <1>1, <1>2, <1>3, QueueAssumption
  DEF QueueInv, TypeOK, SendsOnlyWhenDue, Earlier, NotScheduled
<1>6. SendsInTime'
  BY <1>1, <1>2, <1>3, QueueAssumption
  DEF QueueInv, TypeOK, SendsInTime, SendAt, Earlier, NotScheduled
<1>7. (sendEvent # NotScheduled =>
         transmitList # <<>> /\ Head(transmitList).tick <= sendEvent)'
  BY <1>1, <1>2, <1>3, QueueAssumption DEF QueueInv, TypeOK, Earlier, NotScheduled
<1>8. DrainNotForgotten' /\ (inSend => ~waitingOnRetry)'
  BY <1>1, <1>2, Zenon DEF QueueInv, DrainNotForgotten
<1>9. waitingOnRetry => transmitList # <<>>
  BY DEF QueueInv, SendsOnlyWhenDue
<1> QED BY <1>2, <1>4, <1>5, <1>6, <1>7, <1>8, <1>9 DEF QueueInv

(* a drain request,                                                        *)
LEMMA DrainInv ==
    ASSUME QueueInv, drain \/ drainResume
    PROVE  QueueInv'
<1>1. /\ UNCHANGED <<forceOrder, transmitList, sendEvent, waitingOnRetry, inSend>>
      /\ drainState' \in {"Running", "Draining", "Drained"}
      /\ drainState' = "Draining" => transmitList # <<>>
  BY DEF drain, drainResume
<1> QED BY <1>1 DEF QueueInv, TypeOK, SendsOnlyWhenDue, SendsInTime,
     DrainNotForgotten, SendAt, NotScheduled

(* and so every step.                                                      *)
LEMMA QueueNextInv ==
    ASSUME QueueInv, [Next]_vars
    PROVE  QueueInv'
<1>1. ASSUME NEW p \in Packets, NEW when \in 0 .. MaxDelay, schedSendTiming(p, when)
      PROVE  QueueInv'
  BY <1>1, SchedInv
<1>2. CASE processSendEvent \/ retry
  BY <1>2, SendInv
<1>3. CASE SendReturns
  BY <1>3, ReturnInv
<1>4. CASE Tick
  BY <1>4, TickInv
<1>5. CASE drain \/ drainResume
  BY <1>5, DrainInv
<1>6. CASE UNCHANGED vars
  BY <1>6 DEF vars, QueueInv, TypeOK, SendsOnlyWhenDue, SendsInTime,
     DrainNotForgotten, SendAt, NotScheduled
<1> QED BY <1>1, <1>2, <1>3, <1>4, <1>5, <1>6 DEF Next

(* The invariant holds in every reachable state.                           *)
THEOREM QueueInvariant == Spec => []QueueInv
<1>1. QueueInv /\ [Next]_vars => QueueInv'
  BY QueueNextInv
<1> QED BY QueueInitInv, <1>1, PTL DEF Spec

(* sendDeferredPacket is only ever called with a packet that is due, and   *)
(* no event is scheduled while the queue waits for a retry: none of the    *)
(* assertions of PacketQueue fails.                                        *)
THEOREM QueueSendsOnlyWhenDue == Spec => []SendsOnlyWhenDue
<1>1. QueueInv => SendsOnlyWhenDue
  BY DEF QueueInv
<1> QED BY <1>1, QueueInvariant, PTL

(* The send event is never missing and never late, however packets are     *)
(* inserted, with or without forced order and from inside a send.          *)
THEOREM QueueSendsInTime == Spec => []SendsInTime
<1>1. QueueInv => SendsInTime
  BY DEF QueueInv
<1> QED BY <1>1, QueueInvariant, PTL

(* A queue that is draining cannot become empty without the signal.        *)
THEOREM QueueDrainNotForgotten == Spec => []DrainNotForgotten
<1>1. QueueInv => DrainNotForgotten
  BY DEF QueueInv
<1> QED BY <1>1, QueueInvariant, PTL

(* The packet that the peer refused stays the first until the retry.       *)
THEOREM QueueRefusedStaysFirst == Spec => RefusedStaysFirst
<1> DEFINE A == waitingOnRetry /\ waitingOnRetry' =>
                  Head(transmitList').pkt = Head(transmitList).pkt
<1>1. ASSUME QueueInv, [Next]_vars PROVE [A]_vars
  <2>1. ASSUME NEW p \in Packets, NEW when \in 0 .. MaxDelay, schedSendTiming(p, when)
        PROVE  A
    BY <1>1, <2>1, SchedInv
  <2>2. CASE processSendEvent \/ retry
    BY <2>2 DEF processSendEvent, retry, SendAccepted, SendRefused
  <2>3. CASE Tick
    BY <1>1, <2>3, TickInv
  <2>4. CASE SendReturns \/ drain \/ drainResume
    BY <2>4 DEF SendReturns, drain, drainResume
  <2> QED BY <1>1, <2>1, <2>2, <2>3, <2>4 DEF Next
<1> QED BY <1>1, QueueInvariant, PTL DEF Spec, RefusedStaysFirst

-----------------------------------------------------------------------------
(*                     The queue as an ordered channel                     *)

(* The packets of the list l that are for a, when fo forces the order.     *)
Of(fo, a, e) == IF fo /\ Addr[e.pkt] = a THEN <<e.pkt>> ELSE <<>>
Each(fo, a, l) == [i \in DOMAIN l |-> Of(fo, a, l[i])]
Part(fo, a, l) == Joined(Each(fo, a, l))

(* One sequence per entry of the list.                                     *)
LEMMA EachOf ==
    ASSUME NEW fo, NEW a, NEW l \in Seq(Entries), NEW S,
           \A i \in 1..Len(l) : Of(fo, a, l[i]) \in Seq(S)
    PROVE  /\ Each(fo, a, l) \in Seq(Seq(S)) /\ Len(Each(fo, a, l)) = Len(l)
           /\ \A i \in 1..Len(l) : Each(fo, a, l)[i] = Of(fo, a, l[i])
<1>1. PICK n \in Nat : n = Len(l)
  BY LenProperties, Zenon
<1>2. PICK V : V = Seq(S)
  BY Zenon
<1>3. Each(fo, a, l) = [i \in 1..n |-> Of(fo, a, l[i])]
  BY <1>1, LenProperties, Zenon DEF Each
<1>4. \A i \in 1..n : Of(fo, a, l[i]) \in V
  BY <1>1, <1>2, Zenon
<1>5. Each(fo, a, l) \in Seq(V) /\ Len(Each(fo, a, l)) = n
  BY <1>3, <1>4
<1>6. \A i \in 1..n : Each(fo, a, l)[i] = Of(fo, a, l[i])
  BY <1>3, Zenon
<1> QED  BY <1>1, <1>2, <1>5, <1>6, Zenon

(* An entry stands for its packet or for nothing.                          *)
LEMMA OfType ==
    ASSUME NEW fo, NEW a, NEW e \in Entries
    PROVE  Of(fo, a, e) \in Seq(Packets) /\ e.pkt \in Packets
<1>1. e.pkt \in Packets
  BY DEF Entries
<1>2. <<e.pkt>> \in Seq(Packets) /\ <<>> \in Seq(Packets)
  BY <1>1
<1> QED  BY <1>1, <1>2, Zenon DEF Of

(* Lists of entries and their packets.                                     *)
LEMMA PartType ==
    ASSUME NEW fo, NEW a, NEW l \in Seq(Entries)
    PROVE  /\ Each(fo, a, l) \in Seq(Seq(Packets)) /\ Len(Each(fo, a, l)) = Len(l)
           /\ \A i \in 1..Len(l) : Each(fo, a, l)[i] = Of(fo, a, l[i])
           /\ Part(fo, a, l) \in Seq(Packets)
<1>1. \A i \in 1..Len(l) : Of(fo, a, l[i]) \in Seq(Packets)
  BY ElementOfSeq, OfType, Zenon
<1>2. /\ Each(fo, a, l) \in Seq(Seq(Packets)) /\ Len(Each(fo, a, l)) = Len(l)
      /\ \A i \in 1..Len(l) : Each(fo, a, l)[i] = Of(fo, a, l[i])
  BY <1>1, EachOf, Zenon
<1>3. Joined(Each(fo, a, l)) \in Seq(Packets)
  BY <1>2, JoinedType, Zenon
<1> QED  BY <1>2, <1>3, Zenon DEF Part

(* A packet that is not in the list is not in the channel.                 *)
LEMMA PartNew ==
    ASSUME NEW fo, NEW a, NEW l \in Seq(Entries), NEW p,
           \A i \in 1..Len(l) : l[i].pkt # p
    PROVE  p \notin Elements(Part(fo, a, l))
<1>1. PICK S : S = Packets \ {p}
  BY Zenon
<1>2. ASSUME NEW i \in 1..Len(l) PROVE Of(fo, a, l[i]) \in Seq(S)
  <2>1. l[i].pkt \in S
    BY <1>1, ElementOfSeq, OfType, Zenon
  <2>2. <<l[i].pkt>> \in Seq(S) /\ <<>> \in Seq(S)
    BY <2>1
  <2> QED  BY <2>2, Zenon DEF Of
<1>3. Each(fo, a, l) \in Seq(Seq(S))
  BY <1>2, EachOf, Zenon
<1>4. Part(fo, a, l) \in Seq(S)
  BY <1>3, JoinedType, Zenon DEF Part
<1>5. PICK s \in Seq(S) : s = Part(fo, a, l)
  BY <1>4, Zenon
<1>6. \A i \in DOMAIN s : s[i] \in S
  BY ElementOfSeq, LenProperties, Zenon
<1> QED  BY <1>1, <1>5, <1>6, Zenon DEF Elements

(* A list without packets for a.                                           *)
LEMMA PartNone ==
    ASSUME NEW fo, NEW a, NEW l \in Seq(Entries),
           \A i \in 1..Len(l) : Of(fo, a, l[i]) = <<>>
    PROVE  Part(fo, a, l) = <<>>
<1>1. <<>> \in Seq({})
  OBVIOUS
<1>2. Each(fo, a, l) \in Seq(Seq({}))
  BY <1>1, EachOf, Zenon
<1>3. Part(fo, a, l) \in Seq({})
  BY <1>2, JoinedType, Zenon DEF Part
<1>4. \A s \in Seq({}) : s = <<>>
  <2> SUFFICES ASSUME NEW s \in Seq({}), s # <<>> PROVE FALSE
    OBVIOUS
  <2>1. Head(s) \in {}
    OBVIOUS
  <2> QED  BY <2>1
<1> QED  BY <1>3, <1>4, Zenon

(* A list in two parts.                                                    *)
LEMMA PartCat ==
    ASSUME NEW fo, NEW a, NEW x \in Seq(Entries), NEW y \in Seq(Entries)
    PROVE  Part(fo, a, Cat(x, y)) = Cat(Part(fo, a, x), Part(fo, a, y))
<1>1. PICK z \in Seq(Entries) : z = Cat(x, y)
  BY CatType, Zenon
<1>2. PICK n \in Nat : n = Len(x)
  BY LenProperties, Zenon
<1>3. PICK m \in Nat : m = Len(y)
  BY LenProperties, Zenon
<1>4. Len(z) = n + m
  BY <1>1, <1>2, <1>3, CatType, Zenon
<1>5. /\ \A i \in 1..n : z[i] = x[i]
      /\ \A i \in 1..m : z[n + i] = y[i]
  BY <1>1, <1>2, <1>3, CatElements
<1>6. PICK V : V = Seq(Packets)
  BY Zenon
<1>7. PICK ex \in Seq(V) : ex = Each(fo, a, x)
  BY <1>6, PartType, Zenon
<1>8. PICK ey \in Seq(V) : ey = Each(fo, a, y)
  BY <1>6, PartType, Zenon
<1>9. PICK ez \in Seq(V) : ez = Each(fo, a, z)
  BY <1>6, PartType, Zenon
<1>10. /\ Len(ex) = n /\ Len(ey) = m /\ Len(ez) = n + m
       /\ \A i \in 1..n : ex[i] = Of(fo, a, x[i])
       /\ \A i \in 1..m : ey[i] = Of(fo, a, y[i])
       /\ \A i \in 1..(n + m) : ez[i] = Of(fo, a, z[i])
  <2>1. /\ Len(Each(fo, a, x)) = Len(x)
        /\ \A i \in 1..Len(x) : Each(fo, a, x)[i] = Of(fo, a, x[i])
    BY PartType, Zenon
  <2>2. /\ Len(Each(fo, a, y)) = Len(y)
        /\ \A i \in 1..Len(y) : Each(fo, a, y)[i] = Of(fo, a, y[i])
    BY PartType, Zenon
  <2>3. /\ Len(Each(fo, a, z)) = Len(z)
        /\ \A i \in 1..Len(z) : Each(fo, a, z)[i] = Of(fo, a, z[i])
    BY PartType, Zenon
  <2> QED  BY <1>2, <1>3, <1>4, <1>7, <1>8, <1>9, <2>1, <2>2, <2>3, Zenon
<1>11. (\A i \in 1..n : i \in 1..(n + m)) /\ (\A i \in 1..m : n + i \in 1..(n + m))
  OBVIOUS
<1>12. /\ \A i \in 1..n : ez[i] = ex[i]
       /\ \A i \in 1..m : ez[n + i] = ey[i]
  BY <1>5, <1>10, <1>11, Zenon
<1>13. Cat(ex, ey) = ez
  BY <1>10, <1>12, CatEqual, Zenon
<1>14. Joined(ex \o ey) = Joined(ex) \o Joined(ey)
  BY <1>6, JoinedConcat, Zenon
<1> QED  BY <1>1, <1>7, <1>8, <1>9, <1>13, <1>14, Zenon DEF Part, Cat

(* A list of one entry.                                                    *)
LEMMA PartOne ==
    ASSUME NEW fo, NEW a, NEW e \in Entries
    PROVE  Part(fo, a, <<e>>) = Of(fo, a, e)
<1>1. PICK l : l = <<e>>
  BY Zenon
<1>2. l \in Seq(Entries) /\ Len(l) = 1 /\ l[1] = e /\ 1 \in 1..1
  BY <1>1
<1>3. PICK V : V = Seq(Packets)
  BY Zenon
<1>4. PICK s \in V : s = Of(fo, a, e)
  BY <1>3, OfType, Zenon
<1>5. PICK ss \in Seq(V) : ss = Each(fo, a, l)
  BY <1>2, <1>3, PartType, Zenon
<1>6. Len(ss) = 1 /\ ss[1] = s
  <2>1. /\ Len(Each(fo, a, l)) = Len(l)
        /\ \A i \in 1..Len(l) : Each(fo, a, l)[i] = Of(fo, a, l[i])
    BY <1>2, PartType, Zenon
  <2> QED  BY <1>2, <1>4, <1>5, <2>1, Zenon
<1>7. ss = <<s>>
  BY <1>6
<1> QED  BY <1>1, <1>3, <1>4, <1>5, <1>7, JoinedOne, Zenon DEF Part

(* e, between x and y, goes to the end of its channel.                     *)
Puts(fo, a, x, y, e) ==
    Part(fo, a, Cat(Cat(x, <<e>>), y)) =
        IF fo /\ a = Addr[e.pkt] THEN Append(Part(fo, a, Cat(x, y)), e.pkt)
                                 ELSE Part(fo, a, Cat(x, y))

(* Inserting a packet behind all others for its address appends it to the  *)
(* channel of that address and leaves the other channels alone.            *)
LEMMA PartPut ==
    ASSUME NEW fo, NEW a, NEW x \in Seq(Entries), NEW y \in Seq(Entries),
           NEW e \in Entries,
           \A i \in 1..Len(y) : ~(fo /\ Addr[y[i].pkt] = Addr[e.pkt])
    PROVE  Puts(fo, a, x, y, e)
<1> USE DEF Puts
<1>1. PICK px \in Seq(Packets) : px = Part(fo, a, x)
  BY PartType, Zenon
<1>2. PICK py \in Seq(Packets) : py = Part(fo, a, y)
  BY PartType, Zenon
<1>3. PICK l \in Seq(Entries) : l = <<e>>
  <2>1. <<e>> \in Seq(Entries)
    OBVIOUS
  <2> QED  BY <2>1, Zenon
<1>4. PICK xl \in Seq(Entries) : xl = Cat(x, l)
  BY CatType, Zenon
<1>5. Part(fo, a, Cat(x, y)) = Cat(px, py)
  BY <1>1, <1>2, PartCat, Zenon
<1>6. Part(fo, a, xl) = Cat(px, Of(fo, a, e))
  <2>1. Part(fo, a, Cat(x, l)) = Cat(Part(fo, a, x), Part(fo, a, l))
    BY PartCat, Zenon
  <2> QED  BY <1>1, <1>3, <1>4, <2>1, PartOne, Zenon
<1>7. Part(fo, a, Cat(xl, y)) = Cat(Cat(px, Of(fo, a, e)), py)
  <2>1. Part(fo, a, Cat(xl, y)) = Cat(Part(fo, a, xl), Part(fo, a, y))
    BY PartCat, Zenon
  <2> QED  BY <1>2, <1>6, <2>1, Zenon
<1>8. CASE fo /\ a = Addr[e.pkt]
  <2>1. py = <<>>
    <3>1. \A i \in 1..Len(y) : Of(fo, a, y[i]) = <<>>
      BY <1>8, Zenon DEF Of
    <3> QED  BY <1>2, <3>1, PartNone, Zenon
  <2>2. Of(fo, a, e) = <<e.pkt>> /\ e.pkt \in Packets
    BY <1>8, OfType, Zenon DEF Of
  <2>3. Cat(px, <<e.pkt>>) \in Seq(Packets) /\ Cat(px, <<e.pkt>>) = Append(px, e.pkt)
    BY <2>2 DEF Cat
  <2>4. Cat(Cat(px, <<e.pkt>>), <<>>) = Cat(px, <<e.pkt>>) /\ Cat(px, <<>>) = px
    BY <2>3, CatType, Zenon
  <2> QED  BY <1>3, <1>4, <1>5, <1>7, <1>8, <2>1, <2>2, <2>3, <2>4, Zenon
<1>9. CASE ~(fo /\ a = Addr[e.pkt])
  <2>1. Of(fo, a, e) = <<>>
    BY <1>9, Zenon DEF Of
  <2>2. Cat(px, <<>>) = px
    BY CatType, Zenon
  <2> QED  BY <1>3, <1>4, <1>5, <1>7, <1>9, <2>1, <2>2, Zenon
<1> QED  BY <1>8, <1>9, Zenon

(* Taking the first entry takes the first packet of its channel.           *)
LEMMA PartDeliver ==
    ASSUME NEW fo, NEW a, NEW l \in Seq(Entries), l # <<>>
    PROVE  LET h == Head(l).pkt IN
           IF fo /\ Addr[h] = a
           THEN /\ Part(fo, a, l) # <<>>
                /\ Part(fo, a, Tail(l)) = Tail(Part(fo, a, l))
           ELSE Part(fo, a, Tail(l)) = Part(fo, a, l)
<1>1. PICK e \in Entries : e = Head(l)
  OBVIOUS
<1>2. PICK t \in Seq(Entries) : t = Tail(l)
  <2>1. Tail(l) \in Seq(Entries)
    OBVIOUS
  <2> QED  BY <2>1, Zenon
<1>3. PICK d \in Seq(Entries) : d = <<e>>
  <2>1. <<e>> \in Seq(Entries)
    OBVIOUS
  <2> QED  BY <2>1, Zenon
<1>4. Cat(d, t) = l
  BY <1>1, <1>2, <1>3 DEF Cat
<1>5. PICK pt \in Seq(Packets) : pt = Part(fo, a, t)
  BY PartType, Zenon
<1>6. Part(fo, a, l) = Cat(Of(fo, a, e), pt)
  <2>1. Part(fo, a, Cat(d, t)) = Cat(Part(fo, a, d), Part(fo, a, t))
    BY PartCat, Zenon
  <2> QED  BY <1>3, <1>4, <1>5, <2>1, PartOne, Zenon
<1>7. CASE fo /\ Addr[e.pkt] = a
  <2>1. Of(fo, a, e) = <<e.pkt>> /\ e.pkt \in Packets
    BY <1>7, OfType, Zenon DEF Of
  <2>2. Cat(<<e.pkt>>, pt) # <<>> /\ Tail(Cat(<<e.pkt>>, pt)) = pt
    BY <2>1 DEF Cat
  <2> QED  BY <1>1, <1>2, <1>5, <1>6, <1>7, <2>1, <2>2, Zenon
<1>8. CASE ~(fo /\ Addr[e.pkt] = a)
  <2>1. Of(fo, a, e) = <<>>
    BY <1>8, Zenon DEF Of
  <2>2. Cat(<<>>, pt) = pt
    BY CatType, Zenon
  <2> QED  BY <1>1, <1>2, <1>5, <1>6, <1>8, <2>1, <2>2, Zenon
<1> QED  BY <1>7, <1>8, Zenon

(* The channels depend on the packets of the list only.                    *)
LEMMA PartSame ==
    ASSUME NEW fo, NEW a, NEW l \in Seq(Entries), NEW m \in Seq(Entries),
           Len(m) = Len(l), \A i \in 1..Len(l) : m[i].pkt = l[i].pkt
    PROVE  Part(fo, a, m) = Part(fo, a, l)
<1>1. PICK V : V = Seq(Packets)
  BY Zenon
<1>2. PICK s \in Seq(V) : s = Each(fo, a, l)
  BY <1>1, PartType, Zenon
<1>3. PICK t \in Seq(V) : t = Each(fo, a, m)
  BY <1>1, PartType, Zenon
<1>4. Len(s) = Len(l) /\ \A i \in 1..Len(l) : s[i] = Of(fo, a, l[i])
  <2>1. /\ Len(Each(fo, a, l)) = Len(l)
        /\ \A i \in 1..Len(l) : Each(fo, a, l)[i] = Of(fo, a, l[i])
    BY PartType, Zenon
  <2> QED  BY <1>2, <2>1, Zenon
<1>5. Len(t) = Len(l) /\ \A i \in 1..Len(l) : t[i] = Of(fo, a, m[i])
  <2>1. /\ Len(Each(fo, a, m)) = Len(m)
        /\ \A i \in 1..Len(m) : Each(fo, a, m)[i] = Of(fo, a, m[i])
    BY PartType, Zenon
  <2> QED  BY <1>3, <2>1, Zenon
<1>6. \A i \in 1..Len(l) : Of(fo, a, m[i]) = Of(fo, a, l[i])
  BY Zenon DEF Of
<1>7. s = t
  BY <1>4, <1>5, <1>6, SeqEqual, Zenon
<1> QED  BY <1>2, <1>3, <1>7, Zenon DEF Part

(* The refinement mapping in the terms of the lemmas.                      *)
LEMMA ChannelParts ==
    /\ chanBar = [a \in Addrs |-> Part(forceOrder, a, transmitList)]
    /\ chanBar' = [a \in Addrs |-> Part(forceOrder', a, transmitList')]
BY Zenon DEF chanBar, For, Part, Each, Of

(* Queueing a packet puts it into its channel.                             *)
LEMMA SchedPuts ==
    ASSUME QueueInv, NEW p \in Packets, NEW when \in 0 .. MaxDelay,
           schedSendTiming(p, when)
    PROVE  Channel!Put(p) \/ chanBar' = chanBar
<1>1. PICK fo : fo = forceOrder
  BY Zenon
<1>2. PICK l \in Seq(Entries) : l = transmitList
  <2>1. transmitList \in Seq(Entries)
    BY DEF QueueInv, TypeOK, Entries
  <2> QED  BY <2>1, Zenon
<1>3. PICK e : e = [pkt |-> p, tick |-> when]
  BY Zenon
<1>4. e \in Entries /\ e.pkt = p
  BY <1>3 DEF Entries
<1>5. PICK k \in 0 .. Len(l) :
        /\ \A i \in k + 1 .. Len(l) : ~StaysBehind(p, when, l[i])
        /\ transmitList' = SubSeq(l, 1, k) \o <<e>> \o SubSeq(l, k + 1, Len(l))
  BY <1>2, <1>3, Zenon DEF schedSendTiming
<1>6. forceOrder' = fo /\ \A i \in 1..Len(l) : l[i].pkt # p
  <2>1. forceOrder' = forceOrder /\ p \notin Queued
    BY DEF schedSendTiming
  <2>2. DOMAIN l = 1..Len(l)
    BY LenProperties, Zenon
  <2> QED  BY <1>1, <1>2, <2>1, <2>2, Zenon DEF Queued
<1>7. PICK n \in Nat : n = Len(l)
  BY LenProperties, Zenon
<1>8. PICK x : x = SubSeq(l, 1, k)
  BY Zenon
<1>9. PICK y : y = SubSeq(l, k + 1, n)
  BY Zenon
<1>10. k \in Nat /\ k <= n
  BY <1>7
<1>11. x \in Seq(Entries) /\ Len(x) = k /\ \A i \in 1..k : x[i] = l[i]
  BY <1>7, <1>8, <1>10
<1>12. y \in Seq(Entries) /\ Len(y) = n - k /\ \A i \in 1..(n - k) : y[i] = l[k + i]
  BY <1>7, <1>9, <1>10
<1>13. Cat(x, y) = l
  <2>1. Len(l) = Len(x) + Len(y)
    BY <1>7, <1>10, <1>11, <1>12
  <2>2. \A i \in 1..Len(x) : l[i] = x[i]
    BY <1>11, Zenon
  <2>3. \A i \in 1..Len(y) : l[Len(x) + i] = y[i]
    BY <1>11, <1>12, Zenon
  <2> QED  BY <1>11, <1>12, <2>1, <2>2, <2>3, CatEqual, Zenon
<1>14. transmitList' = Cat(Cat(x, <<e>>), y)
  BY <1>5, <1>7, <1>8, <1>9, Zenon DEF Cat
<1>15. \A i \in 1..Len(y) : ~(fo /\ Addr[y[i].pkt] = Addr[e.pkt])
  <2> SUFFICES ASSUME NEW i \in 1..(n - k) PROVE ~(fo /\ Addr[y[i].pkt] = Addr[e.pkt])
    BY <1>12, Zenon
  <2>1. k + i \in k + 1 .. Len(l)
    BY <1>7, <1>10
  <2>2. ~StaysBehind(p, when, l[k + i])
    BY <1>5, <2>1, Zenon
  <2> QED  BY <1>1, <1>4, <1>12, <2>2, Zenon DEF StaysBehind
<1>16. \A a \in Addrs : Part(fo, a, transmitList') =
             IF fo /\ a = Addr[p] THEN Append(Part(fo, a, l), p) ELSE Part(fo, a, l)
  <2> SUFFICES ASSUME NEW a \in Addrs
               PROVE  Part(fo, a, transmitList') =
                        IF fo /\ a = Addr[p] THEN Append(Part(fo, a, l), p)
                                             ELSE Part(fo, a, l)
    BY Zenon
  <2>1. Part(fo, a, Cat(Cat(x, <<e>>), y)) =
             IF fo /\ a = Addr[e.pkt] THEN Append(Part(fo, a, Cat(x, y)), e.pkt)
                                      ELSE Part(fo, a, Cat(x, y))
    <3>1. Puts(fo, a, x, y, e)
      BY <1>4, <1>11, <1>12, <1>15, PartPut, Zenon
    <3> QED  BY <3>1, Zenon DEF Puts
  <2> QED  BY <1>4, <1>13, <1>14, <2>1, Zenon
<1>17. /\ chanBar = [a \in Addrs |-> Part(fo, a, l)]
       /\ chanBar' = [a \in Addrs |-> Part(fo, a, transmitList')]
  BY <1>1, <1>2, <1>6, ChannelParts, Zenon
<1>18. CASE ~fo
  BY <1>16, <1>17, <1>18, Zenon
<1>19. CASE fo
  <2>1. \A a \in Addrs : p \notin Elements(chanBar[a])
    BY <1>6, <1>17, PartNew, Zenon
  <2>2. PICK ch : ch = chanBar
    BY Zenon
  <2>3. /\ ch = [a \in Addrs |-> Part(fo, a, l)]
        /\ chanBar' = [a \in Addrs |-> IF a = Addr[p] THEN Append(Part(fo, a, l), p)
                                                     ELSE Part(fo, a, l)]
    BY <1>16, <1>17, <1>19, <2>2, Zenon
  <2>4. Addr[p] \in Addrs
    BY QueueAssumption
  <2>5. chanBar' = [ch EXCEPT ![Addr[p]] = Append(@, p)]
    BY <2>3, <2>4, Zenon
  <2> QED  BY <2>1, <2>2, <2>5, Zenon DEF Channel!Put, Elements, Channel!Elements
<1> QED  BY <1>18, <1>19, Zenon

(* A packet the peer accepts is delivered by its channel.                  *)
LEMMA SendDelivers ==
    ASSUME QueueInv, transmitList # <<>>, SendAccepted, forceOrder' = forceOrder
    PROVE  (\E a \in Addrs : Channel!Deliver(a)) \/ chanBar' = chanBar
<1>1. PICK fo : fo = forceOrder
  BY Zenon
<1>2. PICK l \in Seq(Entries) : l = transmitList
  <2>1. transmitList \in Seq(Entries)
    BY DEF QueueInv, TypeOK, Entries
  <2> QED  BY <2>1, Zenon
<1>3. PICK h : h = Head(l).pkt
  BY Zenon
<1>4. h \in Packets /\ l # <<>>
  <2>1. l # <<>>
    BY <1>2, Zenon
  <2>2. Head(l) \in Entries
    BY <2>1
  <2> QED  BY <1>3, <2>1, <2>2, OfType, Zenon
<1>5. /\ chanBar = [a \in Addrs |-> Part(fo, a, l)]
      /\ chanBar' = [a \in Addrs |-> Part(fo, a, Tail(l))]
  BY <1>1, <1>2, ChannelParts, Zenon DEF SendAccepted
<1>6. \A a \in Addrs :
          IF fo /\ Addr[h] = a
          THEN Part(fo, a, l) # <<>> /\ Part(fo, a, Tail(l)) = Tail(Part(fo, a, l))
          ELSE Part(fo, a, Tail(l)) = Part(fo, a, l)
  BY <1>3, <1>4, PartDeliver, Zenon
<1>7. CASE ~fo
  BY <1>5, <1>6, <1>7, Zenon
<1>8. CASE fo
  <2>1. Addr[h] \in Addrs
    BY <1>4, QueueAssumption
  <2>2. PICK ch : ch = chanBar
    BY Zenon
  <2>3. ch[Addr[h]] # <<>>
    BY <1>5, <1>6, <1>8, <2>1, <2>2, Zenon
  <2>4. /\ ch = [a \in Addrs |-> Part(fo, a, l)]
        /\ chanBar' = [a \in Addrs |-> IF a = Addr[h] THEN Tail(Part(fo, a, l))
                                                      ELSE Part(fo, a, l)]
    BY <1>5, <1>6, <1>8, <2>2, Zenon
  <2>5. chanBar' = [ch EXCEPT ![Addr[h]] = Tail(@)]
    BY <2>1, <2>4, Zenon
  <2>6. Channel!Deliver(Addr[h])
    BY <2>2, <2>3, <2>5, Zenon DEF Channel!Deliver
  <2> QED  BY <2>1, <2>6, Zenon
<1> QED  BY <1>7, <1>8, Zenon

(* A step of the queue is a step of the channels, or none.                 *)
LEMMA StepRefines ==
    ASSUME QueueInv, QueueInv', [Next]_vars
    PROVE  [Channel!Next]_chanBar
<1>1. ASSUME NEW p \in Packets, NEW when \in 0 .. MaxDelay, schedSendTiming(p, when)
      PROVE  [Channel!Next]_chanBar
  BY <1>1, SchedPuts, Zenon DEF Channel!Next
<1>2. CASE processSendEvent \/ retry
  <2>1. transmitList # <<>> /\ forceOrder' = forceOrder
    BY <1>2, Zenon DEF processSendEvent, retry
  <2>2. CASE SendAccepted
    BY <2>1, <2>2, SendDelivers, Zenon DEF Channel!Next
  <2>3. CASE SendRefused
    <3>1. chanBar' = chanBar
      BY <2>1, <2>3, ChannelParts, Zenon DEF SendRefused
    <3> QED  BY <3>1, Zenon
  <2> QED  BY <1>2, <2>2, <2>3, Zenon DEF processSendEvent, retry
<1>3. CASE SendReturns \/ drain \/ drainResume \/ UNCHANGED vars
  <2>1. forceOrder' = forceOrder /\ transmitList' = transmitList
    BY <1>3 DEF SendReturns, drain, drainResume, vars
  <2>2. chanBar' = chanBar
    BY <2>1, ChannelParts, Zenon
  <2> QED  BY <2>2, Zenon
<1>4. CASE Tick
  <2>1. PICK l \in Seq(Entries) : l = transmitList
    <3>1. transmitList \in Seq(Entries)
      BY DEF QueueInv, TypeOK, Entries
    <3> QED  BY <3>1, Zenon
  <2>2. PICK m \in Seq(Entries) : m = transmitList'
    <3>1. transmitList' \in Seq(Entries)
      BY DEF QueueInv, TypeOK, Entries
    <3> QED  BY <3>1, Zenon
  <2>3. PICK n \in Nat : n = Len(l)
    BY LenProperties, Zenon
  <2>4. forceOrder' = forceOrder
        /\ m = [i \in 1..n |-> [pkt |-> l[i].pkt, tick |-> Earlier(l[i].tick)]]
    BY <1>4, <2>1, <2>2, <2>3, LenProperties, Zenon DEF Tick
  <2>5. Len(m) = Len(l) /\ \A i \in 1..Len(l) : m[i].pkt = l[i].pkt
    BY <2>3, <2>4
  <2>6. \A a \in Addrs : Part(forceOrder, a, m) = Part(forceOrder, a, l)
    BY <2>5, PartSame, Zenon
  <2>7. chanBar' = chanBar
    BY <2>1, <2>2, <2>4, <2>6, ChannelParts, Zenon
  <2> QED  BY <2>7, Zenon
<1> QED  BY <1>1, <1>2, <1>3, <1>4, Zenon DEF Next

(* A queue with forced order is an ordered channel for every address:      *)
(* packets for one address leave it in the order in which they were        *)
(* queued, none is lost, none is sent twice.                               *)
THEOREM QueueImplementsChannel == Spec => Channel!Ordered
<1>1. Init => Channel!Init
  <2> SUFFICES ASSUME Init PROVE Channel!Init
    OBVIOUS
  <2>1. <<>> \in Seq(Entries) /\ \A i \in 1..Len(<<>>) : FALSE
    OBVIOUS
  <2>2. \A a \in Addrs : Part(forceOrder, a, <<>>) = <<>>
    BY <2>1, PartNone, Zenon
  <2>3. chanBar = [a \in Addrs |-> <<>>]
    BY <2>2, ChannelParts, Zenon DEF Init
  <2> QED  BY <2>3, Zenon DEF Channel!Init
<1>2. Init => QueueInv
  BY QueueInitInv, Zenon
<1>3. QueueInv /\ [Next]_vars => QueueInv'
  BY QueueNextInv, Zenon
<1>4. QueueInv /\ QueueInv' /\ [Next]_vars => [Channel!Next]_chanBar
  BY StepRefines, Zenon
<1> QED  BY <1>1, <1>2, <1>3, <1>4, PTL DEF Spec, Channel!Ordered
=============================================================================
