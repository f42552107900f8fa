---------------------------- MODULE DmaPortProofs ---------------------------
(***************************************************************************)
(* The properties of DmaPort, for any transfers, channels and limits.      *)
(*                                                                         *)
(* Sending side (Core, no assumption on the device): queues are sets of    *)
(* places, so that queueing and sending are counted; a retry is owed only  *)
(* below maxRequests; and when a send is due the current channel holds a   *)
(* packet, because queueDmaAction fills the current channel first when all *)
(* are empty and the round robin ends on the nearest channel that is not.  *)
(*                                                                         *)
(* Transfers (Serial, for a device with one invalidating write at a time): *)
(* every packet is in one place (Placed), numBytes and the packets not     *)
(* answered make up the transfer (Counted), and a transfer goes through    *)
(* its phases in order (Stage).  Without that assumption the delayed write *)
(* sent is not the one whose invalidation completed.                       *)
(***************************************************************************)
EXTENDS DmaPort, QueueLemmas, FiniteSetTheorems

-----------------------------------------------------------------------------
(*                               The channels                              *)

(* Stepping ahead stays among the channels, comes back to the current one  *)
(* and reaches every channel within a round.                               *)
LEMMA AheadChannel ==
    ASSUME currChannel \in Channels
    PROVE  /\ \A k \in Nat : Ahead(k) \in Channels
           /\ Ahead(0) = currChannel
           /\ \A c \in Channels : \E k \in 1..numChannels : Ahead(k) = c
<1>1. numChannels \in Nat \ {0} /\ currChannel \in 0..(numChannels - 1)
  BY DmaPortAssumption DEF Channels
<1>2. \A k \in Nat : Ahead(k) \in Channels
  BY <1>1 DEF Ahead, Channels
<1>3. Ahead(0) = currChannel
  BY <1>1 DEF Ahead
<1>4. ASSUME NEW c \in Channels PROVE \E k \in 1..numChannels : Ahead(k) = c
  <2>1. c \in 0..(numChannels - 1)
    BY DEF Channels
  <2>2. CASE c > currChannel
    <3>1. c - currChannel \in 1..numChannels
      BY <1>1, <2>1, <2>2
    <3>2. Ahead(c - currChannel) = c
      BY <1>1, <2>1, <2>2 DEF Ahead
    <3> QED  BY <3>1, <3>2
  <2>3. CASE c <= currChannel
    <3>1. c - currChannel + numChannels \in 1..numChannels
      BY <1>1, <2>1, <2>3
    <3>2. Ahead(c - currChannel + numChannels) = c
      BY <1>1, <2>1, <2>3 DEF Ahead
    <3> QED  BY <3>1, <3>2
  <2> QED  BY <1>1, <2>1, <2>2, <2>3
<1> QED  BY <1>2, <1>3, <1>4

(* The channel packets are queued on; it is the current one when that is   *)
(* empty.                                                                  *)
LEMMA EmptyChannel ==
    ASSUME currChannel \in Channels
    PROVE  /\ findNextEmptyChannel \in Channels
           /\ transmitList[currChannel] = <<>> => findNextEmptyChannel = currChannel
<1> DEFINE Empty(k) == transmitList[Ahead(k)] = <<>>
           steps == {k \in Channels : Empty(k) /\ \A j \in 0..(k - 1) : ~Empty(j)}
<1>1. findNextEmptyChannel = IF steps = {} THEN currChannel
                                           ELSE Ahead(CHOOSE k \in steps : TRUE)
  BY DEF findNextEmptyChannel
<1>2. steps # {} => (CHOOSE k \in steps : TRUE) \in steps
  OBVIOUS
<1>3. \A k \in steps : k \in Nat
  BY DmaPortAssumption DEF Channels
<1>4. findNextEmptyChannel \in Channels
  BY <1>1, <1>2, <1>3, AheadChannel, Zenon
<1>5. ASSUME transmitList[currChannel] = <<>> PROVE findNextEmptyChannel = currChannel
  <2>1. Empty(0)
    BY <1>5, AheadChannel
  <2>2. \A k \in Nat : k # 0 => 0 \in 0..(k - 1)
    OBVIOUS
  <2>3. \A k \in steps : k = 0
    BY <1>3, <2>1, <2>2
  <2>4. 0 \in steps
    <3>1. 0 \in Channels /\ 0..(0 - 1) = {}
      BY DmaPortAssumption DEF Channels
    <3> QED  BY <2>1, <3>1
  <2>5. (CHOOSE k \in steps : TRUE) = 0
    BY <1>2, <2>3, <2>4
  <2> QED  BY <1>1, <2>4, <2>5, AheadChannel, Zenon
<1> QED  BY <1>4, <1>5

(* The channel that is served next is not empty if any channel is not.     *)
LEMMA NonEmptyChannel ==
    ASSUME currChannel \in Channels, NEW tl
    PROVE  /\ findNextNonEmptyChannel(tl) \in Channels
           /\ (\E c \in Channels : tl[c] # <<>>) => tl[findNextNonEmptyChannel(tl)] # <<>>
<1> DEFINE steps == {k \in 1..numChannels :
                        /\ tl[Ahead(k)] # <<>>
                        /\ \A j \in 1..(k - 1) : tl[Ahead(j)] = <<>>}
           full == {k \in 1..numChannels : tl[Ahead(k)] # <<>>}
<1>1. findNextNonEmptyChannel(tl) = IF steps = {} THEN 0
                                                  ELSE Ahead(CHOOSE k \in steps : TRUE)
  BY DEF findNextNonEmptyChannel
<1>2. steps # {} => (CHOOSE k \in steps : TRUE) \in steps
  OBVIOUS
<1>3. 1..numChannels \subseteq Nat /\ 0 \in Channels
  BY DmaPortAssumption DEF Channels
<1>4. findNextNonEmptyChannel(tl) \in Channels
  BY <1>1, <1>2, <1>3, AheadChannel
<1>5. ASSUME NEW c \in Channels, tl[c] # <<>> PROVE steps # {}
  <2>1. full # {} /\ full \in SUBSET Nat
    BY <1>3, <1>5, AheadChannel
  <2> HIDE DEF full
  <2>2. PICK m \in full : \A k \in full : m <= k
    BY <2>1, LeastNat, Zenon
  <2>3. m \in 1..numChannels /\ tl[Ahead(m)] # <<>>
    BY <2>2 DEF full
  <2>4. \A j \in 1..(m - 1) : j \notin full
    BY <1>3, <2>2, <2>3
  <2>5. \A j \in 1..(m - 1) : j \in 1..numChannels
    BY <2>3, DmaPortAssumption
  <2>6. \A j \in 1..(m - 1) : tl[Ahead(j)] = <<>>
    BY <2>4, <2>5 DEF full
  <2> QED  BY <2>3, <2>6
<1>6. steps # {} => tl[findNextNonEmptyChannel(tl)] # <<>>
  BY <1>1, <1>2
<1> QED  BY <1>4, <1>5, <1>6

-----------------------------------------------------------------------------
(*                        The places in the queues                         *)

Lists == [Channels -> Seq(Packets)]

(* The places of the queues, one by one.                                   *)
LEMMA QueueMember ==
    ASSUME NEW tl \in Lists
    PROVE  /\ \A x : x \in Queue(tl) <=>
                 \E c \in Channels : \E i \in 1..Len(tl[c]) : x = <<c, i>>
           /\ \A c \in Channels : \A i : <<c, i>> \in Queue(tl) <=> i \in 1..Len(tl[c])
<1>1. \A c \in Channels : tl[c] \in Seq(Packets) /\ DOMAIN tl[c] = 1..Len(tl[c])
  BY DEF Lists
<1>2. ASSUME NEW x
      PROVE  x \in Queue(tl) <=> \E c \in Channels : \E i \in 1..Len(tl[c]) : x = <<c, i>>
  <2>1. x \in Queue(tl) <=> \E c \in Channels : x \in {c} \X DOMAIN tl[c]
    BY Zenon DEF Queue
  <2>2. ASSUME NEW c \in Channels
        PROVE  x \in {c} \X DOMAIN tl[c] <=> \E i \in 1..Len(tl[c]) : x = <<c, i>>
    BY <1>1
  <2> QED  BY <2>1, <2>2, Zenon
<1>3. \A c \in Channels : \A i : <<c, i>> \in Queue(tl) <=> i \in 1..Len(tl[c])
  BY <1>2
<1> QED  BY <1>2, <1>3

(* No place is taken exactly when every channel is empty.                  *)
LEMMA QueueNone ==
    ASSUME NEW tl \in Lists
    PROVE  Queue(tl) = {} <=> \A c \in Channels : tl[c] = <<>>
<1>1. \A c \in Channels : tl[c] \in Seq(Packets)
  BY DEF Lists
<1>2. \A c \in Channels : tl[c] # <<>> => 1 \in 1..Len(tl[c])
  BY <1>1
<1>3. \A c \in Channels : tl[c] = <<>> => 1..Len(tl[c]) = {}
  BY <1>1
<1>4. ASSUME Queue(tl) = {}, NEW c \in Channels PROVE tl[c] = <<>>
  BY <1>2, <1>4, QueueMember, Zenon
<1>5. ASSUME \A c \in Channels : tl[c] = <<>> PROVE Queue(tl) = {}
  <2>1. \A x : x \notin Queue(tl)
    BY <1>3, <1>5, QueueMember, Zenon
  <2> QED  BY <2>1
<1> QED  BY <1>4, <1>5, Zenon

(* Sending the first packet of a channel frees one place.                  *)
LEMMA QueueTail ==
    ASSUME NEW tl \in Lists, NEW c \in Channels, tl[c] # <<>>, IsFiniteSet(Queue(tl)),
           NEW rest, rest = [tl EXCEPT ![c] = Tail(@)]
    PROVE  /\ rest \in Lists /\ IsFiniteSet(Queue(rest))
           /\ Cardinality(Queue(rest)) = Cardinality(Queue(tl)) - 1
<1>1. tl[c] \in Seq(Packets) /\ Len(tl[c]) \in Nat \ {0}
  BY DEF Lists
<1>2. Tail(tl[c]) \in Seq(Packets) /\ Len(Tail(tl[c])) = Len(tl[c]) - 1
  BY <1>1
<1>3. rest \in Lists
  BY <1>2 DEF Lists
<1>4. \A d \in Channels : rest[d] = IF d = c THEN Tail(tl[c]) ELSE tl[d]
  BY DEF Lists
<1>5. PICK last : last = <<c, Len(tl[c])>>
  BY Zenon
<1>6. ASSUME NEW d \in Channels, NEW i \in 1..Len(rest[d])
      PROVE  i \in 1..Len(tl[d]) /\ <<d, i>> # last
  <2>1. CASE d = c
    <3>1. i \in 1..(Len(tl[c]) - 1)
      BY <1>2, <1>4, <2>1, Zenon
    <3> QED  BY <1>1, <1>5, <2>1, <3>1
  <2>2. CASE d # c
    BY <1>4, <1>5, <2>2
  <2> QED  BY <2>1, <2>2
<1>7. \A d \in Channels : \A i \in 1..Len(tl[d]) : <<d, i>> # last => i \in 1..Len(rest[d])
  BY <1>1, <1>2, <1>4, <1>5
<1>8. Queue(rest) = Queue(tl) \ {last}
  <2>1. ASSUME NEW x \in Queue(rest) PROVE x \in Queue(tl) \ {last}
    <3>0. \A r \in Lists : \A y \in Queue(r) :
             \E d \in Channels : \E i \in 1..Len(r[d]) : y = <<d, i>>
      BY QueueMember, Zenon
    <3>1. PICK d \in Channels : \E i \in 1..Len(rest[d]) : x = <<d, i>>
      BY <1>3, <3>0, Zenon
    <3>2. PICK i \in 1..Len(rest[d]) : x = <<d, i>>
      BY <3>1, Zenon
    <3>3. i \in 1..Len(tl[d]) /\ x # last
      BY <1>6, <3>2, Zenon
    <3>4. x \in Queue(tl)
      BY <3>2, <3>3, QueueMember, Zenon
    <3> QED  BY <3>3, <3>4
  <2>2. ASSUME NEW x \in Queue(tl), x # last PROVE x \in Queue(rest)
    <3>1. PICK d \in Channels : \E i \in 1..Len(tl[d]) : x = <<d, i>>
      BY QueueMember, Zenon
    <3>2. PICK i \in 1..Len(tl[d]) : x = <<d, i>>
      BY <3>1
    <3>3. i \in 1..Len(rest[d])
      BY <1>7, <2>2, <3>2, Zenon
    <3> QED  BY <1>3, <3>2, <3>3, QueueMember, Zenon
  <2> QED  BY <2>1, <2>2, Zenon
<1>9. last \in Queue(tl)
  <2>1. Len(tl[c]) \in 1..Len(tl[c])
    BY <1>1
  <2> QED  BY <1>5, <2>1, QueueMember, Zenon
<1> QED  BY <1>3, <1>8, <1>9, FS_RemoveElement, Zenon

(* Queueing packets on a channel takes as many places.                     *)
LEMMA QueueMore ==
    ASSUME NEW tl \in Lists, NEW c \in Channels, NEW s \in Seq(Packets),
           IsFiniteSet(Queue(tl)), NEW more, more = [tl EXCEPT ![c] = @ \o s]
    PROVE  /\ more \in Lists /\ IsFiniteSet(Queue(more))
           /\ Cardinality(Queue(more)) = Cardinality(Queue(tl)) + Len(s)
<1>1. tl[c] \in Seq(Packets) /\ Len(tl[c]) \in Nat /\ Len(s) \in Nat
  BY DEF Lists
<1>2. tl[c] \o s \in Seq(Packets) /\ Len(tl[c] \o s) = Len(tl[c]) + Len(s)
  BY <1>1
<1>3. more \in Lists
  BY <1>2 DEF Lists
<1>4. \A d \in Channels : more[d] = IF d = c THEN tl[c] \o s ELSE tl[d]
  BY DEF Lists
<1>5. PICK n, k : n = Len(tl[c]) /\ k = Len(s)
  BY Zenon
<1>6. PICK new, add : new = (n + 1)..(n + k) /\ add = {c} \X new
  BY Zenon
<1>7. 1..(n + k) = (1..n) \cup new /\ (1..n) \cap new = {}
  BY <1>1, <1>5, <1>6
<1>8. \A d \in Channels : 1..Len(more[d]) = IF d = c THEN (1..n) \cup new ELSE 1..Len(tl[d])
  BY <1>2, <1>4, <1>5, <1>7, Zenon
<1>9. Queue(more) = Queue(tl) \cup add
  <2>1. ASSUME NEW x \in Queue(more) PROVE x \in Queue(tl) \cup add
    <3>0. PICK d \in Channels : \E i \in 1..Len(more[d]) : x = <<d, i>>
      BY <1>3, QueueMember, Zenon
    <3>1. PICK i \in 1..Len(more[d]) : x = <<d, i>>
      BY <3>0, Zenon
    <3>2. (d = c /\ i \in new) \/ i \in 1..Len(tl[d])
      BY <1>5, <1>8, <3>1
    <3>3. i \in 1..Len(tl[d]) => x \in Queue(tl)
      BY <3>1, QueueMember, Zenon
    <3> QED  BY <1>6, <3>1, <3>2, <3>3
  <2>2. ASSUME NEW x \in Queue(tl) PROVE x \in Queue(more)
    <3>0. PICK d \in Channels : \E i \in 1..Len(tl[d]) : x = <<d, i>>
      BY QueueMember, Zenon
    <3>1. PICK i \in 1..Len(tl[d]) : x = <<d, i>>
      BY <3>0, Zenon
    <3>2. i \in 1..Len(more[d])
      BY <1>5, <1>8, <3>1
    <3> QED  BY <1>3, <3>1, <3>2, QueueMember, Zenon
  <2>3. ASSUME NEW i \in new PROVE <<c, i>> \in Queue(more)
    <3>1. i \in 1..Len(more[c])
      BY <1>8
    <3> QED  BY <1>3, <3>1, QueueMember, Zenon
  <2>4. ASSUME NEW x \in add PROVE x \in Queue(more)
    <3>1. PICK i \in new : x = <<c, i>>
      BY <1>6
    <3> QED  BY <2>3, <3>1, Zenon
  <2> QED  BY <2>1, <2>2, <2>4, Zenon
<1>10. Queue(tl) \cap add = {}
  <2>1. \A i \in new : <<c, i>> \notin Queue(tl)
    BY <1>5, <1>7, QueueMember
  <2> QED  BY <1>6, <2>1
<1>11. IsFiniteSet(new) /\ Cardinality(new) = k
  <2>1. PICK a, b : a = n + 1 /\ b = n + k
    BY Zenon
  <2>2. a \in Int /\ b \in Int /\ k \in Nat /\ n \in Nat
    BY <1>1, <1>5, <2>1
  <2>3. IsFiniteSet(a..b) /\ Cardinality(a..b) = IF a > b THEN 0 ELSE b - a + 1
    BY <2>2, FS_Interval, Zenon
  <2>4. new = a..b
    BY <1>6, <2>1, Zenon
  <2>5. (IF a > b THEN 0 ELSE b - a + 1) = k
    BY <2>1, <2>2
  <2> QED  BY <2>3, <2>4, <2>5, Zenon
<1>12. IsFiniteSet(add) /\ Cardinality(add) = k
  <2>1. IsFiniteSet({c}) /\ Cardinality({c}) = 1
    BY FS_Singleton, Zenon
  <2>2. IsFiniteSet(add) /\ Cardinality(add) = Cardinality({c}) * Cardinality(new)
    BY <1>6, <1>11, <2>1, FS_Product, Zenon
  <2>3. Cardinality(add) = 1 * k /\ k \in Nat
    BY <1>1, <1>5, <1>11, <2>1, <2>2, Zenon
  <2>4. 1 * k = k
    BY <2>3
  <2> QED  BY <2>2, <2>3, <2>4, Zenon
<1>13. /\ IsFiniteSet(Queue(tl) \cup add)
       /\ Cardinality(Queue(tl) \cup add) =
             Cardinality(Queue(tl)) + Cardinality(add) - Cardinality({})
  BY <1>10, <1>12, FS_Union
<1>14. Cardinality({}) = 0 /\ Cardinality(Queue(tl)) \in Nat
  BY FS_EmptySet, FS_CardinalityType
<1>15. /\ IsFiniteSet(Queue(more))
       /\ Cardinality(Queue(more)) = Cardinality(Queue(tl)) + k - 0
  BY <1>9, <1>12, <1>13, <1>14, Zenon
<1>16. k \in Nat /\ k = Len(s)
  BY <1>1, <1>5
<1> QED  BY <1>3, <1>14, <1>15, <1>16

-----------------------------------------------------------------------------
(*                                Sending                                  *)

(* What holds when a packet of the queues tl may be sent ...               *)
SendReady(tl) ==
    /\ tl \in Lists /\ IsFiniteSet(Queue(tl))
    /\ currChannel \in Channels /\ tl[currChannel] # <<>>
    /\ inFlight \in SUBSET Packets /\ IsFiniteSet(inFlight)
    /\ numOutstandingRequests \in Nat
    /\ Cardinality(inFlight) <= numOutstandingRequests
    /\ numOutstandingRequests <= maxRequests

(* ... and after it was sent, refused, or left for later.                  *)
Sent(tl) ==
    /\ transmitList' \in Lists /\ IsFiniteSet(Queue(transmitList'))
    /\ currChannel' \in Channels
    /\ sendEvent' \in BOOLEAN /\ inRetry' \in BOOLEAN
    /\ inFlight' \in SUBSET Packets /\ IsFiniteSet(inFlight')
    /\ numOutstandingRequests' \in Nat
    /\ Cardinality(inFlight') <= numOutstandingRequests'
    /\ numOutstandingRequests' <= maxRequests
    /\ inRetry' => numOutstandingRequests' < maxRequests
    /\ Cardinality(Queue(transmitList')) + numOutstandingRequests'
         = Cardinality(Queue(tl)) + numOutstandingRequests
    /\ SenderWakeup'

(* The packet stays in the queue, with the send event or a retry due.      *)
LEMMA SentLater ==
    ASSUME NEW tl, SendReady(tl),
           transmitList' = tl, currChannel' = currChannel, inFlight' = inFlight,
           numOutstandingRequests' = numOutstandingRequests,
           sendEvent' \in BOOLEAN, inRetry' \in BOOLEAN, sendEvent' = ~inRetry',
           inRetry' => numOutstandingRequests < maxRequests
    PROVE  Sent(tl)
<1>1. SenderWakeup'
  BY Zenon DEF SendReady, SenderWakeup
<1> QED  BY <1>1, Zenon DEF SendReady, Sent

(* trySendTimingReq: one packet moves from the queues to the memory, or    *)
(* all stays and a retry is due.                                           *)
LEMMA TrySendSent ==
    ASSUME NEW tl, SendReady(tl), numOutstandingRequests < maxRequests,
           trySendTimingReq(tl)
    PROVE  Sent(tl)
<1>1. CASE TrySendAccepted(tl)
  <2>1. PICK rest : rest = [tl EXCEPT ![currChannel] = Tail(@)]
    BY Zenon
  <2>2. /\ inRetry' = FALSE /\ transmitList' = rest
        /\ inFlight' = inFlight \cup {Head(tl[currChannel])}
        /\ currChannel' = findNextNonEmptyChannel(rest)
        /\ numOutstandingRequests' = numOutstandingRequests + 1
        /\ sendEvent' = (rest[findNextNonEmptyChannel(rest)] # <<>>)
    BY <1>1, <2>1, Zenon DEF TrySendAccepted
  <2>3. /\ tl \in Lists /\ IsFiniteSet(Queue(tl))
        /\ currChannel \in Channels /\ tl[currChannel] # <<>>
    BY Zenon DEF SendReady
  <2>4. /\ rest \in Lists /\ IsFiniteSet(Queue(rest))
        /\ Cardinality(Queue(rest)) = Cardinality(Queue(tl)) - 1
    BY <2>1, <2>3, QueueTail, Zenon
  <2>5. /\ currChannel' \in Channels
        /\ (\E c \in Channels : rest[c] # <<>>) => rest[currChannel'] # <<>>
    BY <2>2, <2>3, NonEmptyChannel, Zenon
  <2>6. SenderWakeup'
    BY <2>2, <2>5, Zenon DEF SenderWakeup
  <2>7. Head(tl[currChannel]) \in Packets
    <3>1. tl[currChannel] \in Seq(Packets)
      BY <2>3 DEF Lists
    <3> QED  BY <2>3, <3>1
  <2>8. inFlight' \in SUBSET Packets /\ IsFiniteSet(inFlight)
    BY <2>2, <2>7 DEF SendReady
  <2>9. /\ IsFiniteSet(inFlight')
        /\ Cardinality(inFlight') <= Cardinality(inFlight) + 1
    <3>1. /\ IsFiniteSet(inFlight')
          /\ Cardinality(inFlight') = IF Head(tl[currChannel]) \in inFlight
                 THEN Cardinality(inFlight) ELSE Cardinality(inFlight) + 1
      BY <2>2, <2>8, FS_AddElement, Zenon
    <3>2. Cardinality(inFlight) \in Nat
      BY <2>8, FS_CardinalityType, Zenon
    <3> QED  BY <3>1, <3>2
  <2>10. Cardinality(Queue(tl)) \in Nat /\ Cardinality(inFlight) \in Nat
         /\ Cardinality(inFlight') \in Nat
    BY <2>3, <2>8, <2>9, FS_CardinalityType, Zenon
  <2>11. /\ numOutstandingRequests' \in Nat
         /\ Cardinality(inFlight') <= numOutstandingRequests'
         /\ numOutstandingRequests' <= maxRequests
    BY <2>2, <2>9, <2>10, DmaPortAssumption DEF SendReady
  <2>12. Cardinality(Queue(transmitList')) + numOutstandingRequests'
            = Cardinality(Queue(tl)) + numOutstandingRequests
    <3>1. Cardinality(Queue(transmitList')) = Cardinality(Queue(tl)) - 1
      BY <2>2, <2>4, Zenon
    <3>2. numOutstandingRequests \in Nat
      BY Zenon DEF SendReady
    <3> QED  BY <2>2, <2>10, <3>1, <3>2
  <2>13. /\ transmitList' \in Lists /\ IsFiniteSet(Queue(transmitList'))
         /\ sendEvent' \in BOOLEAN /\ inRetry' \in BOOLEAN /\ ~inRetry'
    BY <2>2, <2>4, Zenon
  <2> QED  BY <2>5, <2>6, <2>8, <2>9, <2>11, <2>12, <2>13, Zenon DEF Sent
<1>2. CASE TrySendRefused(tl)
  <2>1. /\ transmitList' = tl /\ currChannel' = currChannel /\ inFlight' = inFlight
        /\ numOutstandingRequests' = numOutstandingRequests
        /\ sendEvent' = FALSE /\ inRetry' = TRUE
    BY <1>2 DEF TrySendRefused
  <2> QED  BY <2>1, SentLater, Zenon
<1> QED  BY <1>1, <1>2, Zenon DEF trySendTimingReq

(* sendDma in timing mode.                                                 *)
LEMMA SendDmaSent ==
    ASSUME NEW tl, NEW ev \in BOOLEAN, SendReady(tl), inRetry \in BOOLEAN,
           ~(ev /\ inRetry), inRetry => numOutstandingRequests < maxRequests,
           SendDmaTiming(tl, ev)
    PROVE  Sent(tl)
<1>1. CASE ~(inRetry \/ ev) /\ ~TooManyOutstanding /\ trySendTimingReq(tl)
  <2>1. numOutstandingRequests < maxRequests
    BY <1>1, DmaPortAssumption DEF TooManyOutstanding, SendReady
  <2> QED  BY <1>1, <2>1, TrySendSent, Zenon
<1>2. CASE /\ inRetry \/ ev
           /\ transmitList' = tl /\ sendEvent' = ev
           /\ UNCHANGED <<currChannel, inRetry, inFlight, numOutstandingRequests>>
  BY <1>2, SentLater
<1>3. CASE /\ ~(inRetry \/ ev)
           /\ transmitList' = tl /\ sendEvent' = TRUE
           /\ UNCHANGED <<currChannel, inRetry, inFlight, numOutstandingRequests>>
  BY <1>3, SentLater, Zenon
<1> QED  BY <1>1, <1>2, <1>3, Zenon DEF SendDmaTiming

-----------------------------------------------------------------------------
(*                     The queues and their wake-ups                       *)

(* The invariant of the sending side, whatever writes are under way.       *)
Core ==
    /\ transmitList \in Lists /\ IsFiniteSet(Queue(transmitList))
    /\ currChannel \in Channels
    /\ sendEvent \in BOOLEAN /\ inRetry \in BOOLEAN
    /\ inFlight \in SUBSET Packets /\ IsFiniteSet(inFlight)
    /\ numOutstandingRequests \in Nat
    /\ Cardinality(inFlight) <= numOutstandingRequests
    /\ numOutstandingRequests <= maxRequests
    /\ inRetry => numOutstandingRequests < maxRequests
    /\ pendingCount = Cardinality(Queue(transmitList)) + numOutstandingRequests
    /\ SenderWakeup
    /\ timingMode \in BOOLEAN
    /\ ~timingMode => Queue(transmitList) = {} /\ inFlight = {}

Rest ==
    /\ outstandingRequests \in Seq(Actions) /\ invalidateEvent \in BOOLEAN
    /\ numBytes \in [States -> Nat]
    /\ completionDue \in SUBSET Actions /\ active \in SUBSET Actions
    /\ drainState \in {"Running", "Draining", "Drained"}
    /\ invalidateOnWrite \in BOOLEAN /\ assertFailed \in BOOLEAN

(* The types of the model follow.                                          *)
LEMMA CoreTypeOK == Core /\ Rest => TypeOK
<1> SUFFICES ASSUME Core, Rest PROVE TypeOK
  OBVIOUS
<1>1. pendingCount \in Nat
  <2>1. IsFiniteSet(Queue(transmitList)) /\ numOutstandingRequests \in Nat
        /\ pendingCount = Cardinality(Queue(transmitList)) + numOutstandingRequests
    BY Zenon DEF Core
  <2>2. Cardinality(Queue(transmitList)) \in Nat
    BY <2>1, FS_CardinalityType, Zenon
  <2> QED  BY <2>1, <2>2
<1> QED  BY <1>1 DEF Core, Rest, TypeOK, Lists

(* A step that sends in timing mode keeps the invariant.                   *)
LEMMA CoreSent ==
    ASSUME NEW tl, Sent(tl), timingMode' = TRUE,
           pendingCount' = Cardinality(Queue(tl)) + numOutstandingRequests
    PROVE  Core'
BY Zenon DEF Sent, Core

(* The packets of an action.                                               *)
LEMMA PacketsOfSeq ==
    ASSUME NEW a \in Actions, NEW phase \in Phases
    PROVE  /\ PacketsOf(a, phase) \in Seq(Packets) /\ Len(PacketsOf(a, phase)) = Chunks[a]
           /\ Chunks[a] \in Nat \ {0}
           /\ \A i \in 1..Chunks[a] : PacketsOf(a, phase)[i] = <<a, phase, i>>
           /\ Elements(PacketsOf(a, phase)) = {<<a, phase, i>> : i \in 1..Chunks[a]}
           /\ Distinct(PacketsOf(a, phase))
<1>1. Chunks[a] \in Nat \ {0}
  BY DmaPortAssumption
<1>2. \A i \in 1..Chunks[a] : <<a, phase, i>> \in Packets
  BY DEF Packets
<1>3. PICK s : s = PacketsOf(a, phase)
  BY Zenon
<1>4. s = [i \in 1..Chunks[a] |-> <<a, phase, i>>]
  BY <1>3, Zenon DEF PacketsOf
<1>5. s \in Seq(Packets) /\ Len(s) = Chunks[a] /\ DOMAIN s = 1..Chunks[a]
  BY <1>1, <1>2, <1>4
<1>6. \A i \in 1..Chunks[a] : s[i] = <<a, phase, i>>
  BY <1>4
<1>7. Elements(s) = {<<a, phase, i>> : i \in 1..Chunks[a]}
  BY <1>5, <1>6, Zenon DEF Elements
<1>8. Distinct(s)
  BY <1>5, <1>6 DEF Distinct
<1> QED  BY <1>1, <1>3, <1>5, <1>6, <1>7, <1>8, Zenon

(* queueDmaAction puts the packets on a channel, the current one when      *)
(* nothing waits to be sent.                                               *)
LEMMA QueuedReady ==
    ASSUME Core, NEW a \in Actions, NEW phase \in Phases
    PROVE  /\ SendReady(Queued(a, phase))
           /\ Cardinality(Queue(Queued(a, phase))) + numOutstandingRequests = PendingWith(a)
           /\ Cardinality(Queue(Queued(a, phase))) = Cardinality(Queue(transmitList)) + Chunks[a]
<1>1. PICK c, s : c = findNextEmptyChannel /\ s = PacketsOf(a, phase)
  BY Zenon
<1>2. PICK tl : tl = Queued(a, phase)
  BY Zenon
<1>3. currChannel \in Channels /\ transmitList \in Lists /\ IsFiniteSet(Queue(transmitList))
  BY Zenon DEF Core
<1>4. c \in Channels /\ (transmitList[currChannel] = <<>> => c = currChannel)
  BY <1>1, <1>3, EmptyChannel, Zenon
<1>5. s \in Seq(Packets) /\ Len(s) = Chunks[a] /\ Chunks[a] \in Nat \ {0}
  BY <1>1, PacketsOfSeq, Zenon
<1>6. tl = [transmitList EXCEPT ![c] = @ \o s]
  BY <1>1, <1>2, Zenon DEF Queued
<1>7. /\ tl \in Lists /\ IsFiniteSet(Queue(tl))
      /\ Cardinality(Queue(tl)) = Cardinality(Queue(transmitList)) + Len(s)
  BY <1>3, <1>4, <1>5, <1>6, QueueMore, Zenon
<1>8. tl[currChannel] # <<>>
  <2>1. transmitList[currChannel] \in Seq(Packets)
    BY <1>3 DEF Lists
  <2>2. CASE c = currChannel
    <3>1. tl[currChannel] = transmitList[currChannel] \o s
      BY <1>3, <1>6, <2>2 DEF Lists
    <3>2. Len(transmitList[currChannel] \o s) > 0
      BY <1>5, <2>1
    <3> QED  BY <3>1, <3>2
  <2>3. CASE c # currChannel
    BY <1>3, <1>4, <1>6, <2>3 DEF Lists
  <2> QED  BY <2>2, <2>3
<1>9. SendReady(tl)
  BY <1>7, <1>8, Zenon DEF SendReady, Core
<1>10. Cardinality(Queue(tl)) + numOutstandingRequests = PendingWith(a)
  <2>1. /\ pendingCount = Cardinality(Queue(transmitList)) + numOutstandingRequests
        /\ numOutstandingRequests \in Nat
    BY Zenon DEF Core
  <2>2. Cardinality(Queue(transmitList)) \in Nat
    BY <1>3, FS_CardinalityType, Zenon
  <2> QED  BY <1>5, <1>7, <2>1, <2>2 DEF PendingWith
<1> QED  BY <1>2, <1>5, <1>7, <1>9, <1>10, Zenon

(* The number of packets of a DmaReqState in the queues.                   *)
LEMMA CountInNat ==
    ASSUME NEW tl, IsFiniteSet(Queue(tl)), NEW s
    PROVE  CountIn(tl, s) \in Nat
<1>1. {q \in Queue(tl) : StateOf(tl[q[1]][q[2]]) = s} \in SUBSET Queue(tl)
  BY Zenon
<1>2. IsFiniteSet({q \in Queue(tl) : StateOf(tl[q[1]][q[2]]) = s})
  BY <1>1, FS_Subset, Zenon
<1> QED  BY <1>2, FS_CardinalityType, Zenon DEF CountIn

(* queueDmaAction and sendDma keep the invariant of the sending side.      *)
LEMMA QueueAndSendCore ==
    ASSUME Core, NEW a \in Actions, NEW phase \in Phases, NEW inv \in BOOLEAN,
           QueueAndSend(a, phase, inv), timingMode' = timingMode
    PROVE  Core'
<1>1. PICK tl : tl = Queued(a, phase)
  BY Zenon
<1>2. /\ SendReady(tl)
      /\ Cardinality(Queue(tl)) + numOutstandingRequests = PendingWith(a)
      /\ Cardinality(Queue(tl)) = Cardinality(Queue(transmitList)) + Chunks[a]
  BY <1>1, QueuedReady, Zenon
<1>3. CASE /\ timingMode /\ SendDmaTiming(Queued(a, phase), sendEvent)
           /\ pendingCount' = PendingWith(a)
  <2>1. /\ sendEvent \in BOOLEAN /\ inRetry \in BOOLEAN /\ ~(sendEvent /\ inRetry)
        /\ inRetry => numOutstandingRequests < maxRequests
    BY Zenon DEF Core, SenderWakeup
  <2>2. SendDmaTiming(tl, sendEvent)
    BY <1>1, <1>3, Zenon
  <2>3. Sent(tl)
    BY <1>2, <2>1, <2>2, SendDmaSent, Zenon
  <2>4. timingMode' = TRUE
    BY <1>3, Zenon DEF Core
  <2>5. pendingCount' = Cardinality(Queue(tl)) + numOutstandingRequests
    BY <1>2, <1>3, Zenon
  <2> QED  BY <2>3, <2>4, <2>5, CoreSent, Zenon
<1>4. CASE ~timingMode /\ SendDmaAtomic(Queued(a, phase), PendingWith(a), inv)
  <2>1. /\ transmitList' = [c \in Channels |-> <<>>]
        /\ pendingCount' = PendingWith(a) - Cardinality(Queue(tl))
        /\ currChannel' = currChannel /\ sendEvent' = sendEvent /\ inRetry' = inRetry
        /\ inFlight' = inFlight /\ numOutstandingRequests' = numOutstandingRequests
    BY <1>1, <1>4 DEF SendDmaAtomic
  <2>2. transmitList' \in Lists /\ \A c \in Channels : transmitList'[c] = <<>>
    BY <2>1 DEF Lists
  <2>3. Queue(transmitList') = {} /\ IsFiniteSet({}) /\ Cardinality({}) = 0
    BY <2>2, QueueNone, FS_EmptySet, Zenon
  <2>4. Queue(transmitList) = {} /\ transmitList \in Lists
    BY <1>4, Zenon DEF Core
  <2>5. \A c \in Channels : transmitList[c] = <<>>
    BY <2>4, QueueNone, Zenon
  <2>6. ~sendEvent /\ ~inRetry
    BY <2>5, Zenon DEF Core, SenderWakeup
  <2>7. SenderWakeup'
    BY <2>1, <2>2, <2>6, Zenon DEF SenderWakeup
  <2>8. pendingCount' = Cardinality(Queue(transmitList')) + numOutstandingRequests'
    <3>1. Cardinality(Queue(tl)) \in Nat /\ numOutstandingRequests \in Nat
      BY <1>2, FS_CardinalityType, Zenon DEF SendReady
    <3>2. Cardinality(Queue(transmitList')) = 0
      BY <2>3, Zenon
    <3> QED  BY <1>2, <2>1, <3>1, <3>2
  <2>9. IsFiniteSet(Queue(transmitList')) /\ inFlight = {}
    BY <1>4, <2>3, Zenon DEF Core
  <2> QED  BY <2>1, <2>2, <2>3, <2>7, <2>8, <2>9, Zenon DEF Core
<1> QED  BY <1>3, <1>4, Zenon DEF QueueAndSend

(* The types of the rest.                                                  *)
LEMMA QueueAndSendRest ==
    ASSUME Core, Rest, NEW a \in Actions, NEW phase \in Phases, NEW inv \in BOOLEAN,
           QueueAndSend(a, phase, inv), invalidateOnWrite' = invalidateOnWrite,
           outstandingRequests' \in Seq(Actions), active' \in SUBSET Actions
    PROVE  Rest'
<1>1. CASE /\ invalidateEvent' = inv
           /\ UNCHANGED <<numBytes, completionDue, drainState, assertFailed>>
  BY <1>1 DEF Rest
<1>2. CASE ~timingMode /\ SendDmaAtomic(Queued(a, phase), PendingWith(a), inv)
  <2>1. PICK tl, left : tl = Queued(a, phase) /\ left = PendingWith(a) - Cardinality(Queue(tl))
    BY Zenon
  <2>2. PICK done : /\ done \in SUBSET States
                    /\ numBytes' = [s \in States |-> IF s \in done THEN 0
                                                 ELSE numBytes[s] + CountIn(tl, s)]
                    /\ ScheduleCompletion(done, inv) /\ signalDrainDone(left)
    BY <1>2, <2>1 DEF SendDmaAtomic
  <2>3. IsFiniteSet(Queue(tl))
    BY <2>1, QueuedReady, Zenon DEF SendReady
  <2>4. \A s : CountIn(tl, s) \in Nat
    BY <2>3, CountInNat, Zenon
  <2>5. numBytes' \in [States -> Nat]
    BY <2>2, <2>4 DEF Rest
  <2>6. completionDue' \in SUBSET Actions
    BY <2>2 DEF Rest, ScheduleCompletion, States
  <2>7. invalidateEvent' \in BOOLEAN /\ assertFailed' \in BOOLEAN
    BY <2>2 DEF Rest, ScheduleCompletion, InvalidationDone
  <2>8. drainState' \in {"Running", "Draining", "Drained"}
    BY <2>2 DEF Rest, signalDrainDone
  <2>9. invalidateOnWrite' \in BOOLEAN
    BY Zenon DEF Rest
  <2> QED  BY <2>5, <2>6, <2>7, <2>8, <2>9, Zenon DEF Rest
<1> QED  BY <1>1, <1>2, Zenon DEF QueueAndSend

(* SendEvent and recvReqRetry: only the sending side moves.                *)
LEMMA SendStepCore ==
    ASSUME Core, SendEvent \/ recvReqRetry
    PROVE  Core'
<1>1. \E c \in Channels : transmitList[c] # <<>>
  BY Zenon DEF Core, SenderWakeup, SendEvent, recvReqRetry
<1>2. timingMode
  <2>1. transmitList \in Lists /\ (~timingMode => Queue(transmitList) = {})
    BY Zenon DEF Core
  <2> QED  BY <1>1, <2>1, QueueNone, Zenon
<1>3. SendReady(transmitList)
  BY Zenon DEF Core, SendReady, SenderWakeup, SendEvent, recvReqRetry
<1>4. Sent(transmitList)
  <2>1. CASE SendEvent
    <3>1. SendDmaTiming(transmitList, FALSE) /\ ~inRetry /\ inRetry \in BOOLEAN
      BY <2>1, Zenon DEF SendEvent, Core, SenderWakeup
    <3> QED  BY <1>3, <3>1, SendDmaSent, Zenon
  <2>2. CASE recvReqRetry
    <3>1. trySendTimingReq(transmitList) /\ numOutstandingRequests < maxRequests
      BY <2>2, Zenon DEF recvReqRetry, Core
    <3> QED  BY <1>3, <3>1, TrySendSent, Zenon
  <2> QED  BY <2>1, <2>2, Zenon
<1>5. pendingCount' = pendingCount /\ timingMode' = timingMode
  BY Zenon DEF SendEvent, recvReqRetry, SendUnchanged, mode
<1>6. timingMode' = TRUE
  BY <1>2, <1>5, Zenon DEF Core
<1>7. pendingCount' = Cardinality(Queue(transmitList)) + numOutstandingRequests
  BY <1>5, Zenon DEF Core
<1> QED  BY <1>4, <1>6, <1>7, CoreSent, Zenon

(* A response: one packet less is outstanding.                             *)
LEMMA RespCore ==
    ASSUME Core, NEW pkt \in inFlight, recvTimingResp(pkt)
    PROVE  Core'
<1>1. /\ inFlight' = inFlight \ {pkt}
      /\ numOutstandingRequests' = numOutstandingRequests - 1
      /\ pendingCount' = pendingCount - 1
      /\ transmitList' = transmitList /\ currChannel' = currChannel
      /\ sendEvent' = sendEvent /\ inRetry' = inRetry /\ timingMode' = timingMode
  BY DEF recvTimingResp, handleResp, mode
<1>2. IsFiniteSet(inFlight)
  BY Zenon DEF Core
<1>3. IsFiniteSet(inFlight') /\ Cardinality(inFlight') = Cardinality(inFlight) - 1
  BY <1>1, <1>2, FS_RemoveElement, Zenon
<1>4. Cardinality(inFlight) \in Nat /\ Cardinality(inFlight') \in Nat
  BY <1>2, <1>3, FS_CardinalityType, Zenon
<1>5. /\ numOutstandingRequests \in Nat
      /\ Cardinality(inFlight) <= numOutstandingRequests
      /\ numOutstandingRequests <= maxRequests
      /\ pendingCount = Cardinality(Queue(transmitList)) + numOutstandingRequests
      /\ IsFiniteSet(Queue(transmitList))
  BY Zenon DEF Core
<1>6. Cardinality(Queue(transmitList)) \in Nat
  BY <1>5, FS_CardinalityType, Zenon
<1>7. /\ numOutstandingRequests' \in Nat
      /\ Cardinality(inFlight') <= numOutstandingRequests'
      /\ numOutstandingRequests' <= maxRequests
      /\ numOutstandingRequests' < maxRequests
      /\ pendingCount' = Cardinality(Queue(transmitList)) + numOutstandingRequests'
  BY <1>1, <1>3, <1>4, <1>5, <1>6, DmaPortAssumption
<1>8. inFlight' \in SUBSET Packets /\ (inFlight = {} => inFlight' = {})
  BY <1>1 DEF Core
<1>9. SenderWakeup'
  BY <1>1 DEF Core, SenderWakeup
<1>10. Queue(transmitList') = Queue(transmitList)
  BY <1>1, Zenon
<1> QED  BY <1>1, <1>3, <1>7, <1>8, <1>9, <1>10, Zenon DEF Core

(* The other steps leave the sending side alone; the memory mode is        *)
(* switched only when nothing is pending.                                  *)
LEMMA OtherCore ==
    ASSUME Core, UNCHANGED sendVars, pendingCount' = pendingCount,
           timingMode' \in BOOLEAN, timingMode' # timingMode => pendingCount = 0
    PROVE  Core'
<1>1. /\ transmitList' = transmitList /\ currChannel' = currChannel
      /\ sendEvent' = sendEvent /\ inRetry' = inRetry /\ inFlight' = inFlight
      /\ numOutstandingRequests' = numOutstandingRequests
  BY DEF sendVars
<1>2. pendingCount = 0 => Queue(transmitList) = {} /\ inFlight = {}
  <2>1. /\ numOutstandingRequests \in Nat
        /\ Cardinality(inFlight) <= numOutstandingRequests
        /\ pendingCount = Cardinality(Queue(transmitList)) + numOutstandingRequests
        /\ IsFiniteSet(Queue(transmitList)) /\ IsFiniteSet(inFlight)
    BY Zenon DEF Core
  <2>2. Cardinality(Queue(transmitList)) \in Nat /\ Cardinality(inFlight) \in Nat
    BY <2>1, FS_CardinalityType, Zenon
  <2>3. pendingCount = 0 => Cardinality(Queue(transmitList)) = 0 /\ Cardinality(inFlight) = 0
    BY <2>1, <2>2
  <2> QED  BY <2>1, <2>3, FS_EmptySet, Zenon
<1>3. ~timingMode' => Queue(transmitList) = {} /\ inFlight = {}
  BY <1>2, Zenon DEF Core
<1>4. SenderWakeup'
  BY <1>1 DEF Core, SenderWakeup
<1>5. Queue(transmitList') = Queue(transmitList)
  BY <1>1, Zenon
<1> QED  BY <1>1, <1>3, <1>4, <1>5, Zenon DEF Core

(* dmaAction and sendDataAfterInvalidate queue the packets of an action.   *)
LEMMA QueueStep ==
    ASSUME Rest
    PROVE  /\ \A a \in Actions : dmaAction(a) =>
                \E phase \in Phases : QueueAndSend(a, phase, invalidateEvent)
           /\ sendDataAfterInvalidate =>
                /\ Head(outstandingRequests) \in Actions
                /\ QueueAndSend(Head(outstandingRequests), "data", FALSE)
<1>1. ASSUME NEW a \in Actions, dmaAction(a)
      PROVE  \E phase \in Phases : QueueAndSend(a, phase, invalidateEvent)
  <2>1. (IF Delays(a) THEN "inv" ELSE "data") \in Phases
    BY DEF Phases
  <2> QED  BY <1>1, <2>1, Zenon DEF dmaAction
<1>2. ASSUME sendDataAfterInvalidate
      PROVE  /\ Head(outstandingRequests) \in Actions
             /\ QueueAndSend(Head(outstandingRequests), "data", FALSE)
  <2>1. outstandingRequests # <<>> /\ outstandingRequests \in Seq(Actions)
    BY <1>2, Zenon DEF sendDataAfterInvalidate, Rest
  <2>2. Head(outstandingRequests) \in Actions
    BY <2>1
  <2> QED  BY <1>2, <2>2, Zenon DEF sendDataAfterInvalidate
<1> QED  BY <1>1, <1>2, Zenon

(* Starting a transfer keeps the invariant of the sending side.            *)
LEMMA DmaActionCore ==
    ASSUME Core, Rest, NEW a \in Actions, dmaAction(a)
    PROVE  Core' /\ Rest'
<1>1. PICK phase \in Phases : QueueAndSend(a, phase, invalidateEvent)
  BY QueueStep, Zenon
<1>2. /\ timingMode' = timingMode /\ invalidateOnWrite' = invalidateOnWrite
      /\ active' = active \cup {a}
      /\ outstandingRequests' = IF Delays(a) THEN Append(outstandingRequests, a)
                                             ELSE outstandingRequests
  BY DEF dmaAction, mode
<1>3. invalidateEvent \in BOOLEAN
  BY Zenon DEF Rest
<1>4. outstandingRequests' \in Seq(Actions) /\ active' \in SUBSET Actions
  <2>1. outstandingRequests \in Seq(Actions) /\ active \in SUBSET Actions
    BY Zenon DEF Rest
  <2>2. Append(outstandingRequests, a) \in Seq(Actions)
    BY <2>1
  <2> QED  BY <1>2, <2>1, <2>2
<1>5. Core'
  BY <1>1, <1>2, <1>3, QueueAndSendCore, Zenon
<1>6. Rest'
  BY <1>1, <1>2, <1>3, <1>4, QueueAndSendRest, Zenon
<1> QED  BY <1>5, <1>6

(* So does sending a delayed write.                                        *)
LEMMA DelayedCore ==
    ASSUME Core, Rest, sendDataAfterInvalidate
    PROVE  Core' /\ Rest'
<1>1. PICK a \in Actions : QueueAndSend(a, "data", FALSE)
  BY QueueStep, Zenon
<1>2. /\ timingMode' = timingMode /\ invalidateOnWrite' = invalidateOnWrite
      /\ active' = active /\ outstandingRequests' = Tail(outstandingRequests)
      /\ outstandingRequests # <<>>
  BY DEF sendDataAfterInvalidate, mode
<1>3. outstandingRequests' \in Seq(Actions) /\ active' \in SUBSET Actions
  <2>1. outstandingRequests \in Seq(Actions) /\ active \in SUBSET Actions
    BY Zenon DEF Rest
  <2>2. Tail(outstandingRequests) \in Seq(Actions)
    BY <1>2, <2>1
  <2> QED  BY <1>2, <2>1, <2>2, Zenon
<1>4. "data" \in Phases /\ FALSE \in BOOLEAN
  BY DEF Phases
<1>5. Core'
  BY <1>1, <1>2, <1>4, QueueAndSendCore, Zenon
<1>6. Rest'
  BY <1>1, <1>2, <1>3, <1>4, QueueAndSendRest, Zenon
<1> QED  BY <1>5, <1>6

(* The remaining steps keep the types of the rest.                         *)
LEMMA OtherRest ==
    ASSUME Core, Rest,
           \/ SendEvent \/ recvReqRetry
           \/ \E pkt \in inFlight : recvTimingResp(pkt)
           \/ \E a \in Actions : CompletionEvent(a)
           \/ drain \/ Resume \/ setMemoryMode
    PROVE  Rest'
<1>1. CASE SendEvent \/ recvReqRetry
  BY <1>1, Zenon DEF SendEvent, recvReqRetry, SendUnchanged, mode, Rest
<1>2. ASSUME NEW pkt \in inFlight, recvTimingResp(pkt) PROVE Rest'
  <2>1. StateOf(pkt) \in States
    <3>1. pkt \in Packets
      BY Zenon DEF Core
    <3> QED  BY <3>1 DEF Packets, StateOf, States
  <2>2. PICK s, done : /\ s = StateOf(pkt) /\ done \in BOOLEAN
                       /\ numBytes' = [numBytes EXCEPT ![s] = IF done THEN 0 ELSE @ + 1]
                       /\ ScheduleCompletion(IF done THEN {s} ELSE {}, invalidateEvent)
                       /\ signalDrainDone(pendingCount')
    BY <1>2, Zenon DEF recvTimingResp, handleResp
  <2>3. numBytes' \in [States -> Nat]
    BY <2>1, <2>2 DEF Rest
  <2>4. completionDue' \in SUBSET Actions
    BY <2>1, <2>2 DEF Rest, ScheduleCompletion, States
  <2>5. invalidateEvent' \in BOOLEAN /\ assertFailed' \in BOOLEAN
    BY <2>2 DEF Rest, ScheduleCompletion, InvalidationDone
  <2>6. drainState' \in {"Running", "Draining", "Drained"}
    BY <2>2 DEF Rest, signalDrainDone
  <2>7. /\ outstandingRequests' = outstandingRequests /\ active' = active
        /\ invalidateOnWrite' = invalidateOnWrite
    BY <1>2 DEF recvTimingResp, mode
  <2> QED  BY <2>3, <2>4, <2>5, <2>6, <2>7, Zenon DEF Rest
<1>3. ASSUME NEW a \in Actions, CompletionEvent(a) PROVE Rest'
  BY <1>3 DEF CompletionEvent, mode, Rest
<1>4. CASE drain \/ Resume \/ setMemoryMode
  BY <1>4 DEF drain, Resume, setMemoryMode, DrainUnchanged, mode, Rest
<1> QED  BY <1>1, <1>2, <1>3, <1>4, Zenon

(* Every step keeps the invariant of the sending side.                     *)
LEMMA CoreNext == Core /\ Rest /\ [Next]_vars => Core' /\ Rest'
<1> SUFFICES ASSUME Core, Rest, [Next]_vars PROVE Core' /\ Rest'
  OBVIOUS
<1>1. ASSUME NEW a \in Actions, dmaAction(a) PROVE Core' /\ Rest'
  BY <1>1, DmaActionCore, Zenon
<1>2. CASE sendDataAfterInvalidate
  BY <1>2, DelayedCore, Zenon
<1>3. CASE SendEvent \/ recvReqRetry
  BY <1>3, SendStepCore, OtherRest, Zenon
<1>4. ASSUME NEW pkt \in inFlight, recvTimingResp(pkt) PROVE Core' /\ Rest'
  BY <1>4, RespCore, OtherRest, Zenon
<1>5. ASSUME NEW a \in Actions, CompletionEvent(a) PROVE Core' /\ Rest'
  <2>1. UNCHANGED sendVars /\ pendingCount' = pendingCount /\ timingMode' = timingMode
    BY <1>5 DEF CompletionEvent, mode
  <2>2. timingMode' \in BOOLEAN
    BY <2>1, Zenon DEF Core
  <2> QED  BY <1>5, <2>1, <2>2, OtherCore, OtherRest, Zenon
<1>6. CASE drain \/ Resume \/ setMemoryMode
  <2>1. UNCHANGED sendVars /\ pendingCount' = pendingCount
    BY <1>6 DEF drain, Resume, setMemoryMode, DrainUnchanged
  <2>2. timingMode' # timingMode => pendingCount = 0
    BY <1>6 DEF drain, Resume, setMemoryMode, AllDrained, mode
  <2>3. timingMode' \in BOOLEAN
    BY <1>6, Zenon DEF drain, Resume, setMemoryMode, mode, Core
  <2> QED  BY <1>6, <2>1, <2>2, <2>3, OtherCore, OtherRest, Zenon
<1>7. CASE UNCHANGED vars
  <2>1. UNCHANGED sendVars /\ pendingCount' = pendingCount /\ timingMode' = timingMode
    BY <1>7 DEF vars, sendVars
  <2>2. timingMode' \in BOOLEAN
    BY <2>1, Zenon DEF Core
  <2>3. Rest'
    BY <1>7 DEF vars, Rest
  <2> QED  BY <2>1, <2>2, <2>3, OtherCore, Zenon
<1> QED  BY <1>1, <1>2, <1>3, <1>4, <1>5, <1>6, <1>7, Zenon DEF Next

(* The port starts with empty queues.                                      *)
LEMMA CoreInit == Init => Core /\ Rest
<1> SUFFICES ASSUME Init PROVE Core /\ Rest
  OBVIOUS
<1>1. transmitList \in Lists /\ \A c \in Channels : transmitList[c] = <<>>
  BY DEF Init, Lists
<1>2. Queue(transmitList) = {} /\ IsFiniteSet({}) /\ Cardinality({}) = 0
  BY <1>1, QueueNone, FS_EmptySet, Zenon
<1>3. inFlight = {} /\ pendingCount = 0 /\ numOutstandingRequests = 0
  BY DEF Init
<1>4. currChannel \in Channels
  BY DmaPortAssumption DEF Init, Channels
<1>5. SenderWakeup
  BY <1>1 DEF Init, SenderWakeup
<1>6. /\ Cardinality(inFlight) <= numOutstandingRequests
      /\ numOutstandingRequests <= maxRequests
      /\ numOutstandingRequests < maxRequests
      /\ pendingCount = Cardinality(Queue(transmitList)) + numOutstandingRequests
      /\ numOutstandingRequests \in Nat
  <2>1. Cardinality(inFlight) = 0 /\ Cardinality(Queue(transmitList)) = 0
    BY <1>2, <1>3, Zenon
  <2> QED  BY <1>3, <2>1, DmaPortAssumption
<1>7. inFlight \in SUBSET Packets /\ IsFiniteSet(inFlight) /\ IsFiniteSet(Queue(transmitList))
  BY <1>2, <1>3
<1>8. sendEvent \in BOOLEAN /\ inRetry \in BOOLEAN /\ timingMode \in BOOLEAN
  BY Zenon DEF Init
<1>9. Core
  BY <1>1, <1>2, <1>3, <1>4, <1>5, <1>6, <1>7, <1>8, Zenon DEF Core
<1>10. Rest
  <2>1. outstandingRequests \in Seq(Actions)
    BY DEF Init
  <2>2. numBytes \in [States -> Nat]
    BY DEF Init
  <2>3. invalidateOnWrite \in BOOLEAN
    BY DmaPortAssumption DEF Init
  <2> QED  BY <2>1, <2>2, <2>3, Zenon DEF Init, Rest
<1> QED  BY <1>9, <1>10

(* The invariant of the sending side holds in every reachable state.       *)
LEMMA SpecCore == Spec => [](Core /\ Rest)
BY CoreInit, CoreNext, PTL DEF Spec

(* The port never sleeps on a packet: while a channel holds one, the send  *)
(* event or a retry is due, not both, and will find a packet on the        *)
(* channel it sends from, whatever transfers the device starts.            *)
THEOREM DmaSenderWakeup == Spec => []SenderWakeup
<1>1. Core /\ Rest => SenderWakeup
  BY Zenon DEF Core
<1> QED  BY <1>1, SpecCore, PTL

(* The variables keep their types; in particular the unsigned counters     *)
(* pendingCount and numOutstandingRequests never wrap below zero, whatever *)
(* transfers the device starts.                                            *)
THEOREM DmaCountersNeverWrap == Spec => []TypeOK
BY CoreTypeOK, SpecCore, PTL

-----------------------------------------------------------------------------
(*                      Every packet in one place                          *)

QueuedIn(tl) == UNION {Elements(tl[c]) : c \in Channels}

(* No packet is twice in the queues tl, nor both there and in flight.      *)
Apart(tl, flight) ==
    /\ \A c \in Channels : Distinct(tl[c])
    /\ \A c, d \in Channels : c # d => Elements(tl[c]) \cap Elements(tl[d]) = {}
    /\ \A c \in Channels : Elements(tl[c]) \cap flight = {}

(* The elements of two queues put one after the other.                     *)
LEMMA QueueConcat ==
    ASSUME NEW S, NEW s \in Seq(S), NEW t \in Seq(S)
    PROVE  /\ Elements(s \o t) = Elements(s) \cup Elements(t)
           /\ Distinct(s) /\ Distinct(t) /\ Elements(s) \cap Elements(t) = {}
                => Distinct(s \o t)
<1>1. PICK u, m, n : u = s \o t /\ m = Len(s) /\ n = Len(t)
  BY Zenon
<1>2. /\ m \in Nat /\ n \in Nat /\ DOMAIN s = 1..m /\ DOMAIN t = 1..n
      /\ DOMAIN u = 1..(m + n)
      /\ \A i \in 1..m : u[i] = s[i]
      /\ \A i \in 1..n : u[m + i] = t[i]
  BY <1>1
<1>3. \A i \in 1..(m + n) : i \in 1..m \/ (i - m \in 1..n /\ i = m + (i - m))
  BY <1>2
<1>4. \A i \in 1..(m + n) : \/ i \in 1..m /\ u[i] = s[i]
                            \/ i - m \in 1..n /\ u[i] = t[i - m]
  BY <1>2, <1>3
<1>5. Elements(u) = Elements(s) \cup Elements(t)
  <2>1. ASSUME NEW x \in Elements(u) PROVE x \in Elements(s) \cup Elements(t)
    BY <1>2, <1>4 DEF Elements
  <2>2. ASSUME NEW x \in Elements(s) PROVE x \in Elements(u)
    <3>1. PICK i \in 1..m : x = s[i]
      BY <1>2 DEF Elements
    <3>2. i \in DOMAIN u /\ x = u[i]
      BY <1>2, <3>1
    <3> QED  BY <3>2, Zenon DEF Elements
  <2>3. ASSUME NEW x \in Elements(t) PROVE x \in Elements(u)
    <3>1. PICK i \in 1..n : x = t[i]
      BY <1>2 DEF Elements
    <3>2. m + i \in DOMAIN u /\ x = u[m + i]
      BY <1>2, <3>1
    <3> QED  BY <3>2, Zenon DEF Elements
  <2> QED  BY <2>1, <2>2, <2>3
<1>6. ASSUME Distinct(s), Distinct(t), Elements(s) \cap Elements(t) = {}
      PROVE  Distinct(u)
  <2> SUFFICES ASSUME NEW i \in 1..(m + n), NEW j \in 1..(m + n), u[i] = u[j]
               PROVE  i = j
    BY <1>2 DEF Distinct
  <2>1. \A k \in 1..m, l \in 1..n : s[k] # t[l]
    BY <1>2, <1>6, Zenon DEF Elements
  <2>2. CASE i \in 1..m /\ j \in 1..m
    BY <1>2, <1>6, <2>2 DEF Distinct
  <2>3. CASE i \notin 1..m /\ j \notin 1..m
    <3>1. i - m \in 1..n /\ j - m \in 1..n /\ t[i - m] = t[j - m]
      BY <1>4, <2>3
    <3>2. i - m = j - m
      BY <1>2, <1>6, <3>1, Zenon DEF Distinct
    <3> QED  BY <1>2, <3>2
  <2>4. CASE (i \in 1..m /\ j \notin 1..m) \/ (i \notin 1..m /\ j \in 1..m)
    BY <1>2, <1>4, <2>1, <2>4
  <2> QED  BY <2>2, <2>3, <2>4
<1> QED  BY <1>1, <1>5, <1>6, Zenon

(* The queues `more` are the queues tl with new packets s.                 *)
More(tl, more, flight, s) ==
    Apart(more, flight) /\ QueuedIn(more) = QueuedIn(tl) \cup Elements(s)

(* New packets on a channel.                                               *)
LEMMA ApartMore ==
    ASSUME NEW tl \in Lists, NEW c \in Channels, NEW s \in Seq(Packets), Distinct(s),
           NEW flight, Apart(tl, flight), Elements(s) \cap (QueuedIn(tl) \cup flight) = {},
           NEW more, more = [tl EXCEPT ![c] = @ \o s]
    PROVE  More(tl, more, flight, s)
<1>1. tl[c] \in Seq(Packets)
  BY DEF Lists
<1>2. \A d \in Channels : more[d] = IF d = c THEN tl[c] \o s ELSE tl[d]
  BY DEF Lists
<1>3. \A d \in Channels : Elements(tl[d]) \cap Elements(s) = {}
  BY DEF QueuedIn
<1>4. /\ \A d \in Channels : Distinct(tl[d])
      /\ \A d, e \in Channels : d # e => Elements(tl[d]) \cap Elements(tl[e]) = {}
      /\ \A d \in Channels : Elements(tl[d]) \cap flight = {}
  BY Zenon DEF Apart
<1>5. Elements(more[c]) = Elements(tl[c]) \cup Elements(s) /\ Distinct(more[c])
  <2>1. Elements(tl[c] \o s) = Elements(tl[c]) \cup Elements(s) /\ Distinct(tl[c] \o s)
    <3>1. PICK q : q = tl[c]
      BY Zenon
    <3>2. q \in Seq(Packets) /\ Distinct(q) /\ Elements(q) \cap Elements(s) = {}
      BY <1>1, <1>3, <1>4, <3>1, Zenon
    <3>3. \A t \in Seq(Packets) :
            /\ Elements(t \o s) = Elements(t) \cup Elements(s)
            /\ Distinct(t) /\ Distinct(s) /\ Elements(t) \cap Elements(s) = {}
                 => Distinct(t \o s)
      BY QueueConcat, Zenon
    <3> QED  BY <3>1, <3>2, <3>3, Zenon
  <2>2. more[c] = tl[c] \o s
    BY <1>2, Zenon
  <2> QED  BY <2>1, <2>2, Zenon
<1>6. \A d \in Channels : d # c => more[d] = tl[d]
  BY <1>2
<1>7. \A d \in Channels : Distinct(more[d])
  BY <1>4, <1>5, <1>6, Zenon
<1>8. \A d \in Channels : d # c => Elements(more[d]) = Elements(tl[d])
  BY <1>6, Zenon
<1>9. ASSUME NEW d \in Channels, NEW e \in Channels, d # e
      PROVE  Elements(more[d]) \cap Elements(more[e]) = {}
  <2>1. CASE d = c
    BY <1>3, <1>4, <1>5, <1>8, <1>9, <2>1
  <2>2. CASE e = c
    BY <1>3, <1>4, <1>5, <1>8, <1>9, <2>2
  <2>3. CASE d # c /\ e # c
    BY <1>4, <1>8, <1>9, <2>3, Zenon
  <2> QED  BY <2>1, <2>2, <2>3
<1>10. ASSUME NEW d \in Channels PROVE Elements(more[d]) \cap flight = {}
  <2>1. Elements(s) \cap flight = {}
    OBVIOUS
  <2>2. CASE d = c
    BY <1>4, <1>5, <2>1, <2>2
  <2>3. CASE d # c
    BY <1>4, <1>8, <2>3, Zenon
  <2> QED  BY <2>2, <2>3
<1>11. QueuedIn(more) = QueuedIn(tl) \cup Elements(s)
  BY <1>5, <1>8 DEF QueuedIn
<1> QED  BY <1>7, <1>9, <1>10, <1>11, Zenon DEF Apart, More

(* The packet pkt, taken from the queues tl, is in flight.                 *)
Moved(tl, rest, flight, pkt) ==
    /\ Apart(rest, flight \cup {pkt}) /\ pkt \notin flight
    /\ QueuedIn(rest) \cup (flight \cup {pkt}) = QueuedIn(tl) \cup flight

(* The first packet of a channel is sent.                                  *)
LEMMA ApartSend ==
    ASSUME NEW tl \in Lists, NEW c \in Channels, tl[c] # <<>>,
           NEW flight, Apart(tl, flight), NEW pkt, pkt = Head(tl[c]),
           NEW rest, rest = [tl EXCEPT ![c] = Tail(@)]
    PROVE  Moved(tl, rest, flight, pkt)
<1>1. tl[c] \in Seq(Packets)
  BY DEF Lists
<1>2. /\ \A d \in Channels : Distinct(tl[d])
      /\ \A d, e \in Channels : d # e => Elements(tl[d]) \cap Elements(tl[e]) = {}
      /\ \A d \in Channels : Elements(tl[d]) \cap flight = {}
  BY Zenon DEF Apart
<1>3. \A d \in Channels : rest[d] = IF d = c THEN Tail(tl[c]) ELSE tl[d]
  BY DEF Lists
<1>4. /\ pkt \in Elements(tl[c]) /\ Distinct(Tail(tl[c]))
      /\ Elements(Tail(tl[c])) = Elements(tl[c]) \ {pkt}
  BY <1>1, <1>2, QueuePop, Zenon
<1>5. \A d \in Channels : d # c => rest[d] = tl[d]
  BY <1>3
<1>6. rest[c] = Tail(tl[c])
  BY <1>3
<1>7. \A d \in Channels : Distinct(rest[d])
  BY <1>2, <1>4, <1>5, <1>6, Zenon
<1>8. /\ Elements(rest[c]) = Elements(tl[c]) \ {pkt}
      /\ \A d \in Channels : d # c => Elements(rest[d]) = Elements(tl[d])
  BY <1>4, <1>5, <1>6, Zenon
<1>9. ASSUME NEW d \in Channels, NEW e \in Channels, d # e
      PROVE  Elements(rest[d]) \cap Elements(rest[e]) = {}
  <2>1. Elements(rest[d]) \subseteq Elements(tl[d])
    BY <1>8
  <2>2. Elements(rest[e]) \subseteq Elements(tl[e])
    BY <1>8
  <2> QED  BY <1>2, <1>9, <2>1, <2>2
<1>10. ASSUME NEW d \in Channels PROVE Elements(rest[d]) \cap (flight \cup {pkt}) = {}
  <2>1. Elements(rest[d]) \subseteq Elements(tl[d])
    BY <1>8
  <2>2. pkt \notin Elements(rest[d])
    BY <1>2, <1>4, <1>8, Zenon
  <2> QED  BY <1>2, <2>1, <2>2
<1>11. pkt \notin flight
  BY <1>2, <1>4
<1>12. QueuedIn(rest) \cup {pkt} = QueuedIn(tl)
  BY <1>4, <1>8 DEF QueuedIn
<1>13. QueuedIn(rest) \cup (flight \cup {pkt}) = QueuedIn(tl) \cup flight
  BY <1>12, Zenon
<1>14. Apart(rest, flight \cup {pkt})
  BY <1>7, <1>9, <1>10, Zenon DEF Apart
<1> QED  BY <1>11, <1>13, <1>14, Zenon DEF Moved

(* Every packet is in one place, and those sent are counted.               *)
Placed ==
    /\ Apart(transmitList, inFlight)
    /\ numOutstandingRequests = Cardinality(inFlight)

(* Sending moves a packet and loses none.                                  *)
LEMMA TrySendPlaced ==
    ASSUME NEW tl, SendReady(tl), Apart(tl, inFlight),
           numOutstandingRequests = Cardinality(inFlight), trySendTimingReq(tl)
    PROVE  Placed' /\ Pending' = QueuedIn(tl) \cup inFlight
<1>1. Pending' = QueuedIn(transmitList') \cup inFlight'
  BY Zenon DEF Pending, QueuedPackets, QueuedIn
<1>2. CASE TrySendAccepted(tl)
  <2>1. PICK rest, pkt, c : /\ c = currChannel /\ pkt = Head(tl[c])
                            /\ rest = [tl EXCEPT ![c] = Tail(@)]
    BY Zenon
  <2>2. /\ transmitList' = rest /\ inFlight' = inFlight \cup {pkt}
        /\ numOutstandingRequests' = numOutstandingRequests + 1
    BY <1>2, <2>1, Zenon DEF TrySendAccepted
  <2>3. tl \in Lists /\ c \in Channels /\ tl[c] # <<>> /\ IsFiniteSet(inFlight)
    BY <2>1, Zenon DEF SendReady
  <2>4. /\ Apart(rest, inFlight \cup {pkt}) /\ pkt \notin inFlight
        /\ QueuedIn(rest) \cup (inFlight \cup {pkt}) = QueuedIn(tl) \cup inFlight
    <3>1. Moved(tl, rest, inFlight, pkt)
      BY <2>1, <2>3, ApartSend, Zenon
    <3> QED  BY <3>1, Zenon DEF Moved
  <2>5. Cardinality(inFlight \cup {pkt}) = Cardinality(inFlight) + 1
    BY <2>3, <2>4, FS_AddElement, Zenon
  <2> QED  BY <1>1, <2>2, <2>4, <2>5, Zenon DEF Placed
<1>3. CASE TrySendRefused(tl)
  <2>1. /\ transmitList' = tl /\ inFlight' = inFlight
        /\ numOutstandingRequests' = numOutstandingRequests
    BY <1>3 DEF TrySendRefused
  <2> QED  BY <1>1, <2>1, Zenon DEF Placed
<1> QED  BY <1>2, <1>3, Zenon DEF trySendTimingReq

(* Sending moves places from the queue to the port.                        *)
LEMMA SendDmaPlaced ==
    ASSUME NEW tl, NEW ev, SendReady(tl), Apart(tl, inFlight),
           numOutstandingRequests = Cardinality(inFlight), SendDmaTiming(tl, ev)
    PROVE  Placed' /\ Pending' = QueuedIn(tl) \cup inFlight
<1>1. Pending' = QueuedIn(transmitList') \cup inFlight'
  BY Zenon DEF Pending, QueuedPackets, QueuedIn
<1>2. CASE trySendTimingReq(tl)
  BY <1>2, TrySendPlaced, Zenon
<1>3. CASE /\ transmitList' = tl
           /\ UNCHANGED <<currChannel, inRetry, inFlight, numOutstandingRequests>>
  BY <1>1, <1>3, Zenon DEF Placed
<1> QED  BY <1>2, <1>3, Zenon DEF SendDmaTiming

-----------------------------------------------------------------------------
(*                     The bytes of a DmaReqState                          *)

Unanswered(s) == {pkt \in Pending : StateOf(pkt) = s}

(* The DmaReqStates with packets queued or sent.                           *)
Busy == {s \in States : Unanswered(s) # {}}

(* numBytes counts the packets of a DmaReqState that were answered.        *)
Counted ==
    \A s \in States :
        /\ IsFiniteSet(Unanswered(s))
        /\ numBytes[s] + Cardinality(Unanswered(s)) = IF s \in Busy THEN Chunks[s[1]] ELSE 0

(* The packets of one DmaReqState.                                         *)
LEMMA PacketsOfState ==
    ASSUME NEW a \in Actions, NEW phase \in Phases, NEW new,
           new = Elements(PacketsOf(a, phase))
    PROVE  /\ \A pkt \in new : StateOf(pkt) = <<a, phase>>
           /\ IsFiniteSet(new) /\ Cardinality(new) = Chunks[a] /\ new # {}
           /\ new \in SUBSET Packets
<1>1. PICK s, n : s = PacketsOf(a, phase) /\ n = Chunks[a]
  BY Zenon
<1>2. /\ s \in Seq(Packets) /\ Len(s) = n /\ n \in Nat \ {0}
      /\ \A i \in 1..n : s[i] = <<a, phase, i>>
      /\ Distinct(s) /\ new = Elements(s)
  BY <1>1, PacketsOfSeq, Zenon
<1>3. DOMAIN s = 1..n /\ s \in [1..n -> Packets]
  BY <1>2
<1>4. new = {s[i] : i \in 1..n}
  BY <1>2, <1>3, Zenon DEF Elements
<1>5. \A pkt \in new : StateOf(pkt) = <<a, phase>>
  BY <1>2, <1>4 DEF StateOf
<1>6. s \in Surjection(1..n, new)
  BY <1>3, <1>4 DEF Surjection
<1>7. s \in Injection(1..n, new)
  <2>1. \A i, j \in 1..n : s[i] = s[j] => i = j
    BY <1>2, <1>3, Zenon DEF Distinct
  <2>2. s \in [1..n -> new]
    BY <1>6, Zenon DEF Surjection
  <2> QED  BY <1>3, <2>1, <2>2, Zenon DEF Injection, IsInjective
<1>8. IsFiniteSet(1..n) /\ Cardinality(1..n) = n
  <2>1. 1 \in Int /\ n \in Int
    BY <1>2
  <2>2. IsFiniteSet(1..n) /\ Cardinality(1..n) = IF 1 > n THEN 0 ELSE n-1+1
    BY <2>1, FS_Interval, Zenon
  <2> QED  BY <1>2, <2>2
<1>9. PICK dom : dom = 1..n
  BY Zenon
<1>10. IsFiniteSet(new) /\ Cardinality(new) = n
  <2>1. /\ IsFiniteSet(dom) /\ Cardinality(dom) = n
        /\ s \in Surjection(dom, new) /\ s \in Injection(dom, new)
    BY <1>6, <1>7, <1>8, <1>9, Zenon
  <2>2. IsFiniteSet(new) /\ Cardinality(new) = Cardinality(dom)
    BY <2>1, FS_Surjection, Zenon
  <2> QED  BY <2>1, <2>2, Zenon
<1>11. new # {} /\ new \in SUBSET Packets
  BY <1>2, <1>3, <1>4
<1> QED  BY <1>1, <1>5, <1>10, <1>11, Zenon

(* The packets of a DmaReqState that had none are queued.                  *)
LEMMA CountedQueue ==
    ASSUME Counted, Rest, NEW a \in Actions, NEW phase \in Phases, <<a, phase>> \notin Busy,
           Pending' = Pending \cup Elements(PacketsOf(a, phase)), numBytes' = numBytes
    PROVE  Counted' /\ Busy' = Busy \cup {<<a, phase>>}
<1>1. PICK t, new : t = <<a, phase>> /\ new = Elements(PacketsOf(a, phase))
  BY Zenon
<1>2. /\ \A pkt \in new : StateOf(pkt) = t
      /\ IsFiniteSet(new) /\ Cardinality(new) = Chunks[a] /\ new # {}
  BY <1>1, PacketsOfState, Zenon
<1>3. t \in States /\ t[1] = a
  BY <1>1 DEF States
<1>4. Unanswered(t) = {}
  BY <1>1, <1>3, Zenon DEF Busy
<1>5. Unanswered(t)' = new
  <2>1. \A pkt \in Pending : StateOf(pkt) # t
    BY <1>4 DEF Unanswered
  <2>2. Unanswered(t)' = {pkt \in Pending \cup new : StateOf(pkt) = t}
    BY <1>1, Zenon DEF Unanswered, StateOf
  <2> QED  BY <1>2, <2>1, <2>2
<1>6. ASSUME NEW s \in States, s # t PROVE Unanswered(s)' = Unanswered(s)
  <2>1. Unanswered(s)' = {pkt \in Pending \cup new : StateOf(pkt) = s}
    BY <1>1, Zenon DEF Unanswered, StateOf
  <2> QED  BY <1>2, <1>6, <2>1 DEF Unanswered
<1>7. Busy' = Busy \cup {t}
  BY <1>2, <1>3, <1>5, <1>6, Zenon DEF Busy
<1>8. ASSUME NEW s \in States, s # t
      PROVE  /\ IsFiniteSet(Unanswered(s)')
             /\ numBytes'[s] + Cardinality(Unanswered(s)')
                  = IF s \in Busy' THEN Chunks[s[1]] ELSE 0
  <2>1. s \in Busy' <=> s \in Busy
    BY <1>7, <1>8
  <2>2. Unanswered(s)' = Unanswered(s)
    BY <1>6, <1>8, Zenon
  <2> QED  BY <2>1, <2>2, Zenon DEF Counted
<1>9. /\ IsFiniteSet(Unanswered(t)')
      /\ numBytes'[t] + Cardinality(Unanswered(t)') = Chunks[t[1]]
  <2>1. numBytes[t] + Cardinality({}) = 0
    BY <1>1, <1>3, <1>4, Zenon DEF Counted
  <2>2. Cardinality({}) = 0
    BY FS_EmptySet, Zenon
  <2>3. numBytes[t] + 0 = 0 /\ numBytes[t] \in Nat /\ Chunks[a] \in Nat
    BY <1>3, <2>1, <2>2, DmaPortAssumption DEF Rest
  <2>4. numBytes[t] + Chunks[a] = Chunks[a]
    BY <2>3
  <2> QED  BY <1>2, <1>3, <1>5, <2>4, Zenon
<1> QED  BY <1>1, <1>7, <1>8, <1>9, Zenon DEF Counted

(* A packet is answered; it was the last one exactly when the bytes of its *)
(* DmaReqState are complete.                                               *)
LEMMA CountedResp ==
    ASSUME Counted, Rest, NEW pkt \in Pending, NEW s \in States, s = StateOf(pkt),
           Pending' = Pending \ {pkt}, NEW done, done = (numBytes[s] + 1 = Chunks[s[1]]),
           numBytes' = [numBytes EXCEPT ![s] = IF done THEN 0 ELSE @ + 1]
    PROVE  /\ Counted' /\ s \in Busy
           /\ Busy' = IF done THEN Busy \ {s} ELSE Busy
<1>1. pkt \in Unanswered(s) /\ s \in Busy
  BY DEF Unanswered, Busy
<1>2. Unanswered(s)' = Unanswered(s) \ {pkt}
  <2>1. Unanswered(s)' = {p \in Pending \ {pkt} : StateOf(p) = s}
    BY Zenon DEF Unanswered, StateOf
  <2> QED  BY <2>1 DEF Unanswered
<1>3. ASSUME NEW t \in States, t # s PROVE Unanswered(t)' = Unanswered(t)
  <2>1. Unanswered(t)' = {p \in Pending \ {pkt} : StateOf(p) = t}
    BY Zenon DEF Unanswered, StateOf
  <2> QED  BY <1>3, <2>1 DEF Unanswered
<1>4. PICK m, n, k, l : /\ m = Cardinality(Unanswered(s)) /\ n = numBytes[s]
                        /\ k = Chunks[s[1]] /\ l = Cardinality(Unanswered(s)')
  BY Zenon
<1>5. IsFiniteSet(Unanswered(s)) /\ n + m = k
  BY <1>1, <1>4, Zenon DEF Counted
<1>6. IsFiniteSet(Unanswered(s)') /\ l = m - 1
  BY <1>1, <1>2, <1>4, <1>5, FS_RemoveElement, Zenon
<1>7. m \in Nat /\ l \in Nat
  BY <1>4, <1>5, <1>6, FS_CardinalityType, Zenon
<1>8. n \in Nat /\ k \in Nat \ {0}
  BY <1>4, DmaPortAssumption DEF Rest, States
<1>9. done <=> l = 0
  <2>1. done <=> n + 1 = k
    BY <1>4, Zenon
  <2>2. n + 1 = k <=> l = 0
    BY <1>5, <1>6, <1>7, <1>8
  <2> QED  BY <2>1, <2>2, Zenon
<1>10. l = 0 <=> Unanswered(s)' = {}
  BY <1>4, <1>6, FS_EmptySet, Zenon
<1>11. done <=> s \notin Busy'
  BY <1>9, <1>10, Zenon DEF Busy
<1>12. \A t \in States : t # s => (t \in Busy' <=> t \in Busy)
  BY <1>3, Zenon DEF Busy
<1>13. Busy' \in SUBSET States /\ Busy \in SUBSET States
  BY Zenon DEF Busy
<1>14. Busy' = IF done THEN Busy \ {s} ELSE Busy
  <2>1. CASE done
    BY <1>1, <1>11, <1>12, <1>13, <2>1
  <2>2. CASE ~done
    BY <1>1, <1>11, <1>12, <1>13, <2>2
  <2> QED  BY <2>1, <2>2
<1>15. numBytes'[s] + l = IF s \in Busy' THEN k ELSE 0
  <2>1. numBytes'[s] = IF done THEN 0 ELSE n + 1
    BY <1>4 DEF Rest
  <2> QED  BY <1>5, <1>6, <1>7, <1>8, <1>9, <1>11, <2>1
<1>16. ASSUME NEW t \in States, t # s
       PROVE  /\ IsFiniteSet(Unanswered(t)')
              /\ numBytes'[t] + Cardinality(Unanswered(t)')
                   = IF t \in Busy' THEN Chunks[t[1]] ELSE 0
  <2>1. numBytes'[t] = numBytes[t]
    BY <1>16 DEF Rest
  <2> QED  BY <1>3, <1>12, <1>16, <2>1, Zenon DEF Counted
<1> QED  BY <1>1, <1>4, <1>6, <1>14, <1>15, <1>16, Zenon DEF Counted

(* Nothing is pending: no DmaReqState is busy, and its bytes are 0.        *)
LEMMA CountedNone ==
    Pending = {} /\ Rest =>
        Busy = {} /\ (Counted <=> \A s \in States : numBytes[s] = 0)
<1> SUFFICES ASSUME Pending = {}, Rest
             PROVE  Busy = {} /\ (Counted <=> \A s \in States : numBytes[s] = 0)
  OBVIOUS
<1>1. \A s : Unanswered(s) = {}
  BY DEF Unanswered
<1>2. Busy = {}
  BY <1>1 DEF Busy
<1>3. IsFiniteSet({}) /\ Cardinality({}) = 0
  BY FS_EmptySet, Zenon
<1>4. Counted <=> \A s \in States : numBytes[s] + 0 = 0
  <2>1. \A s \in States : s \notin Busy
    BY <1>2
  <2> QED  BY <1>1, <1>3, <2>1, Zenon DEF Counted
<1>5. ASSUME NEW s \in States PROVE numBytes[s] + 0 = 0 <=> numBytes[s] = 0
  BY DEF Rest
<1> QED  BY <1>2, <1>4, <1>5, Zenon

(* In atomic mode the queues hold the packets of one DmaReqState.          *)
LEMMA AtomicCount ==
    ASSUME Core, \A c \in Channels : transmitList[c] = <<>>,
           NEW a \in Actions, NEW phase \in Phases
    PROVE  \A s : CountIn(Queued(a, phase), s) = IF s = <<a, phase>> THEN Chunks[a] ELSE 0
<1>1. PICK c, new, tl : /\ c = findNextEmptyChannel /\ new = PacketsOf(a, phase)
                        /\ tl = Queued(a, phase)
  BY Zenon
<1>2. currChannel \in Channels /\ transmitList \in Lists
  BY Zenon DEF Core
<1>3. c \in Channels
  BY <1>1, <1>2, EmptyChannel, Zenon
<1>4. /\ new \in Seq(Packets) /\ Len(new) = Chunks[a] /\ Chunks[a] \in Nat \ {0}
      /\ \A i \in 1..Chunks[a] : new[i] = <<a, phase, i>>
  BY <1>1, PacketsOfSeq, Zenon
<1>5. tl = [transmitList EXCEPT ![c] = @ \o new]
  BY <1>1, Zenon DEF Queued
<1>6. tl[c] = new /\ \A d \in Channels : d # c => tl[d] = <<>>
  BY <1>2, <1>3, <1>4, <1>5 DEF Lists
<1>7. tl \in Lists
  BY <1>1, QueuedReady, Zenon DEF SendReady
<1>8. ASSUME NEW q \in Queue(tl) PROVE StateOf(tl[q[1]][q[2]]) = <<a, phase>>
  <2>0. \A x : x \in Queue(tl) <=>
              \E d \in Channels : \E i \in 1..Len(tl[d]) : x = <<d, i>>
    BY <1>7, QueueMember, Zenon
  <2>1. PICK d \in Channels : \E i \in 1..Len(tl[d]) : q = <<d, i>>
    BY <2>0
  <2>2. PICK i \in 1..Len(tl[d]) : q = <<d, i>>
    BY <2>1
  <2>3. d = c
    BY <1>6, <2>2
  <2>4. tl[q[1]][q[2]] = <<a, phase, i>>
    BY <1>4, <1>6, <2>2, <2>3
  <2> QED  BY <2>4 DEF StateOf
<1>9. Cardinality(Queue(tl)) = Chunks[a]
  <2>1. Queue(transmitList) = {} /\ Cardinality({}) = 0
    BY <1>2, QueueNone, FS_EmptySet, Zenon
  <2>2. Cardinality(Queue(tl)) = 0 + Chunks[a]
    BY <1>1, <2>1, QueuedReady, Zenon
  <2> QED  BY <1>4, <2>2
<1>10. ASSUME NEW s, s = <<a, phase>> PROVE CountIn(tl, s) = Chunks[a]
  <2>1. {q \in Queue(tl) : StateOf(tl[q[1]][q[2]]) = s} = Queue(tl)
    BY <1>8, <1>10, Zenon
  <2> QED  BY <1>9, <2>1, Zenon DEF CountIn
<1>11. ASSUME NEW s, s # <<a, phase>> PROVE CountIn(tl, s) = 0
  <2>1. {q \in Queue(tl) : StateOf(tl[q[1]][q[2]]) = s} = {}
    BY <1>8, <1>11, Zenon
  <2> QED  BY <2>1, FS_EmptySet, Zenon DEF CountIn
<1> QED  BY <1>1, <1>10, <1>11, Zenon

(* What queueDmaAction and sendDma do to the DmaReqStates: in timing mode  *)
(* the packets are pending; in atomic mode they were answered.             *)
QueuedEffect(a, phase, inv) ==
    /\ Busy' = Busy \cup {<<a, phase>>} /\ completionDue' = completionDue
    /\ invalidateEvent' = inv /\ assertFailed' = assertFailed

AtomicEffect(a, phase, inv) ==
    /\ Busy = {} /\ Busy' = {}
    /\ completionDue' = IF phase = "data" THEN completionDue \cup {a} ELSE completionDue
    /\ invalidateEvent' = (inv \/ phase = "inv")
    /\ assertFailed' = (inv /\ phase = "inv")

(* In timing mode.                                                         *)
LEMMA TimingEffect ==
    ASSUME Core, Rest, Placed, Counted, NEW a \in Actions, NEW phase \in Phases,
           <<a, phase>> \notin Busy, NEW ev, SendDmaTiming(Queued(a, phase), ev),
           numBytes' = numBytes
    PROVE  Placed' /\ Counted' /\ Busy' = Busy \cup {<<a, phase>>}
<1>1. PICK c, s, tl, t : /\ c = findNextEmptyChannel /\ s = PacketsOf(a, phase)
                         /\ tl = Queued(a, phase) /\ t = <<a, phase>>
  BY Zenon
<1>2. /\ transmitList \in Lists /\ currChannel \in Channels
      /\ Apart(transmitList, inFlight) /\ numOutstandingRequests = Cardinality(inFlight)
  BY Zenon DEF Core, Placed
<1>3. c \in Channels
  BY <1>1, <1>2, EmptyChannel, Zenon
<1>4. s \in Seq(Packets) /\ Distinct(s)
  BY <1>1, PacketsOfSeq, Zenon
<1>5. Pending = QueuedIn(transmitList) \cup inFlight
  BY Zenon DEF Pending, QueuedPackets, QueuedIn
<1>6. Elements(s) \cap Pending = {}
  <2>1. \A pkt \in Elements(s) : StateOf(pkt) = t
    BY <1>1, PacketsOfState, Zenon
  <2>2. t \in States
    BY <1>1 DEF States
  <2>3. Unanswered(t) = {}
    BY <1>1, <2>2, Zenon DEF Busy
  <2> QED  BY <2>1, <2>3 DEF Unanswered
<1>7. tl = [transmitList EXCEPT ![c] = @ \o s]
  BY <1>1, Zenon DEF Queued
<1>8. Apart(tl, inFlight) /\ QueuedIn(tl) = QueuedIn(transmitList) \cup Elements(s)
  <2>1. PICK flight : flight = inFlight
    BY Zenon
  <2>2. Apart(transmitList, flight) /\ Elements(s) \cap (QueuedIn(transmitList) \cup flight) = {}
    BY <1>2, <1>5, <1>6, <2>1, Zenon
  <2>3. PICK old : old = transmitList
    BY Zenon
  <2>4. old \in Lists /\ tl = [old EXCEPT ![c] = @ \o s] /\ Apart(old, flight)
        /\ Elements(s) \cap (QueuedIn(old) \cup flight) = {}
    BY <1>2, <1>7, <2>2, <2>3, Zenon
  <2>5. More(old, tl, flight, s)
    BY <1>3, <1>4, <2>4, ApartMore, Zenon
  <2> QED  BY <2>1, <2>3, <2>5, Zenon DEF More
<1>9. SendReady(tl)
  BY <1>1, QueuedReady, Zenon
<1>10. SendDmaTiming(tl, ev)
  BY <1>1, Zenon
<1>11. Placed' /\ Pending' = QueuedIn(tl) \cup inFlight
  BY <1>2, <1>8, <1>9, <1>10, SendDmaPlaced, Zenon
<1>12. Pending' = Pending \cup Elements(PacketsOf(a, phase))
  <2>1. Pending' = Pending \cup Elements(s)
    BY <1>5, <1>8, <1>11
  <2> QED  BY <1>1, <2>1, Zenon
<1>13. Counted' /\ Busy' = Busy \cup {<<a, phase>>}
  BY <1>12, CountedQueue, Zenon
<1> QED  BY <1>11, <1>13, Zenon

(* In atomic mode.                                                         *)
LEMMA AtomicEffects ==
    ASSUME Core, Rest, Rest', Placed, Counted, NEW a \in Actions, NEW phase \in Phases,
           NEW inv \in BOOLEAN, ~timingMode,
           SendDmaAtomic(Queued(a, phase), PendingWith(a), inv)
    PROVE  Placed' /\ Counted' /\ AtomicEffect(a, phase, inv)
<1>1. transmitList \in Lists /\ Queue(transmitList) = {} /\ inFlight = {}
  BY Zenon DEF Core
<1>2. \A c \in Channels : transmitList[c] = <<>>
  BY <1>1, QueueNone, Zenon
<1>3. /\ transmitList' = [c \in Channels |-> <<>>] /\ inFlight' = {}
      /\ numOutstandingRequests' = numOutstandingRequests
  BY <1>1 DEF SendDmaAtomic
<1>4. \A c \in Channels : transmitList'[c] = <<>>
  BY <1>3
<1>5. Elements(<<>>) = {} /\ Distinct(<<>>)
  BY DEF Elements, Distinct
<1>6. Pending = {} /\ Pending' = {}
  BY <1>1, <1>2, <1>3, <1>4, <1>5, Zenon DEF Pending, QueuedPackets
<1>7. Placed'
  <2>1. Apart(transmitList', inFlight')
    BY <1>3, <1>4, <1>5, Zenon DEF Apart
  <2>2. numOutstandingRequests' = Cardinality(inFlight')
    BY <1>1, <1>3, Zenon DEF Placed
  <2> QED  BY <2>1, <2>2, Zenon DEF Placed
<1>8. Busy = {} /\ \A s \in States : numBytes[s] = 0
  BY <1>6, CountedNone, Zenon
<1>9. Busy' = {} /\ (Counted' <=> \A s \in States : numBytes'[s] = 0)
  <2>1. (Pending = {} /\ Rest =>
            Busy = {} /\ (Counted <=> \A s \in States : numBytes[s] = 0))'
    BY CountedNone, PTL
  <2> QED  BY <1>6, <2>1, Zenon
<1>10. PICK tl, t : tl = Queued(a, phase) /\ t = <<a, phase>>
  BY Zenon
<1>11. \A s : CountIn(tl, s) = IF s = t THEN Chunks[a] ELSE 0
  BY <1>2, <1>10, AtomicCount, Zenon
<1>12. PICK done : /\ done = {s \in States : CountIn(tl, s) > 0
                                  /\ numBytes[s] + CountIn(tl, s) = Chunks[s[1]]}
                   /\ numBytes' = [s \in States |-> IF s \in done THEN 0
                                                ELSE numBytes[s] + CountIn(tl, s)]
                   /\ ScheduleCompletion(done, inv)
  BY <1>10 DEF SendDmaAtomic
<1>13. t \in States /\ t[1] = a /\ t[2] = phase /\ Chunks[a] \in Nat \ {0}
  BY <1>10, DmaPortAssumption DEF States
<1>14. done = {t}
  BY <1>8, <1>11, <1>12, <1>13
<1>15. \A s \in States : numBytes'[s] = 0
  BY <1>8, <1>11, <1>12, <1>14
<1>16. /\ completionDue' = IF phase = "data" THEN completionDue \cup {a} ELSE completionDue
       /\ InvalidationDone(done) <=> phase = "inv"
  BY <1>12, <1>13, <1>14 DEF ScheduleCompletion, InvalidationDone
<1>17. /\ invalidateEvent' = (inv \/ InvalidationDone(done))
       /\ assertFailed' = (inv /\ InvalidationDone(done))
       /\ InvalidationDone(done) \in BOOLEAN
  BY <1>12, Zenon DEF ScheduleCompletion, InvalidationDone
<1>18. /\ invalidateEvent' = (inv \/ phase = "inv")
       /\ assertFailed' = (inv /\ phase = "inv")
  BY <1>16, <1>17, Zenon
<1> QED  BY <1>7, <1>8, <1>9, <1>15, <1>16, <1>18, Zenon DEF AtomicEffect

(* What queueDma and the send it may trigger leave behind.                 *)
LEMMA QueueAndSendEffect ==
    ASSUME Core, Rest, Rest', Placed, Counted, NEW a \in Actions, NEW phase \in Phases,
           NEW inv \in BOOLEAN, <<a, phase>> \notin Busy, QueueAndSend(a, phase, inv)
    PROVE  /\ Placed' /\ Counted'
           /\ QueuedEffect(a, phase, inv) \/ AtomicEffect(a, phase, inv)
<1>1. CASE /\ SendDmaTiming(Queued(a, phase), sendEvent) /\ invalidateEvent' = inv
           /\ UNCHANGED <<numBytes, completionDue, drainState, assertFailed>>
  <2>1. /\ numBytes' = numBytes /\ completionDue' = completionDue
        /\ assertFailed' = assertFailed
    BY <1>1
  <2>2. Placed' /\ Counted' /\ Busy' = Busy \cup {<<a, phase>>}
    BY <1>1, <2>1, TimingEffect, Zenon
  <2> QED  BY <1>1, <2>1, <2>2, Zenon DEF QueuedEffect
<1>2. CASE ~timingMode /\ SendDmaAtomic(Queued(a, phase), PendingWith(a), inv)
  BY <1>2, AtomicEffects, Zenon
<1> QED  BY <1>1, <1>2, Zenon DEF QueueAndSend

-----------------------------------------------------------------------------
(*                     One invalidating write at a time                    *)

Delayed == Elements(outstandingRequests)

(* Where a transfer is: not started or about to complete, nothing of it is *)
(* left; delayed, its invalidation is under way or its event is due.       *)
Phase(a) ==
    /\ a \notin active \/ a \in completionDue =>
          <<a, "inv">> \notin Busy /\ <<a, "data">> \notin Busy /\ a \notin Delayed
    /\ a \in Delayed => /\ a \in Writes /\ <<a, "data">> \notin Busy
                        /\ <<a, "inv">> \in Busy <=> ~invalidateEvent
    /\ <<a, "inv">> \in Busy => a \in Delayed

Stage ==
    /\ \A a \in Actions : Phase(a)
    /\ completionDue \subseteq active
    /\ outstandingRequests = <<>> \/ \E a \in Actions : outstandingRequests = <<a>>
    /\ invalidateEvent => outstandingRequests # <<>>
    /\ ~assertFailed

Serial == Placed /\ Counted /\ Stage

(* The delayed write, if there is one.                                     *)
LEMMA DelayedOne ==
    /\ Elements(<<>>) = {}
    /\ \A a \in Actions : /\ Elements(<<a>>) = {a} /\ Append(<<>>, a) = <<a>>
                          /\ Head(<<a>>) = a /\ Tail(<<a>>) = <<>> /\ <<a>> # <<>>
<1>1. Elements(<<>>) = {}
  BY DEF Elements
<1>2. ASSUME NEW a \in Actions
      PROVE  /\ Elements(<<a>>) = {a} /\ Append(<<>>, a) = <<a>>
             /\ Head(<<a>>) = a /\ Tail(<<a>>) = <<>> /\ <<a>> # <<>>
  <2>1. Elements(<<a>>) = {a}
    BY DEF Elements
  <2>2. Append(<<>>, a) = <<a>> /\ Head(<<a>>) = a /\ <<a>> # <<>>
    OBVIOUS
  <2>3. Tail(<<a>>) = <<>>
    OBVIOUS
  <2> QED  BY <2>1, <2>2, <2>3
<1> QED  BY <1>1, <1>2

(* A transfer is started.                                                  *)
LEMMA DmaActionStage ==
    ASSUME SerialWrites, Core, Rest, Rest', Serial, NEW a \in Actions, dmaAction(a)
    PROVE  Serial'
<1>1. PICK phase : phase = IF Delays(a) THEN "inv" ELSE "data"
  BY Zenon
<1>2. phase \in Phases /\ (phase = "inv" <=> Delays(a)) /\ (phase = "data" <=> ~Delays(a))
  BY <1>1 DEF Phases
<1>3. /\ a \notin active /\ active' = active \cup {a}
      /\ Delays(a) => active \cap Writes = {}
      /\ outstandingRequests' = IF Delays(a) THEN Append(outstandingRequests, a)
                                             ELSE outstandingRequests
      /\ QueueAndSend(a, phase, invalidateEvent)
  BY <1>1 DEF dmaAction
<1>4. Stage /\ Placed /\ Counted /\ \A b \in Actions : Phase(b)
  BY Zenon DEF Serial, Stage
<1>5. /\ <<a, "inv">> \notin Busy /\ <<a, "data">> \notin Busy /\ a \notin Delayed
      /\ a \notin completionDue
  BY <1>3, <1>4 DEF Phase, Stage
<1>6. <<a, phase>> \notin Busy
  BY <1>1, <1>5
<1>7. invalidateEvent \in BOOLEAN /\ assertFailed \in BOOLEAN
  BY Zenon DEF Rest
<1>8. /\ Placed' /\ Counted'
      /\ QueuedEffect(a, phase, invalidateEvent) \/ AtomicEffect(a, phase, invalidateEvent)
  BY <1>2, <1>3, <1>4, <1>6, <1>7, QueueAndSendEffect, Zenon
<1>9. Delays(a) => outstandingRequests = <<>> /\ ~invalidateEvent /\ a \in Writes
  <2>1. ASSUME Delays(a), NEW b \in Actions, outstandingRequests = <<b>> PROVE FALSE
    <3>1. b \in Delayed
      BY <2>1, DelayedOne DEF Delayed
    <3>2. b \in Writes /\ b \in active
      BY <1>4, <3>1, Zenon DEF Phase
    <3> QED  BY <1>3, <2>1, <3>2
  <2> QED  BY <1>4, <2>1 DEF Stage, Delays
<1>10. /\ Delays(a) => outstandingRequests' = <<a>> /\ Delayed' = {a} /\ Delayed = {}
       /\ ~Delays(a) => outstandingRequests' = outstandingRequests /\ Delayed' = Delayed
  BY <1>3, <1>9, DelayedOne, Zenon DEF Delayed
<1>11. Stage'
  <2>1. CASE Delays(a) /\ QueuedEffect(a, phase, invalidateEvent)
    <3>1. /\ Busy' = Busy \cup {<<a, "inv">>} /\ completionDue' = completionDue
          /\ ~invalidateEvent' /\ assertFailed' = assertFailed
      BY <1>2, <1>9, <2>1, Zenon DEF QueuedEffect
    <3>2. ASSUME NEW b \in Actions PROVE Phase(b)'
      <4>1. Phase(b)
        BY <1>4
      <4>2. CASE b = a
        <5>1. /\ a \in active' /\ a \notin completionDue' /\ a \in Delayed'
              /\ a \in Writes /\ <<a, "data">> \notin Busy' /\ <<a, "inv">> \in Busy'
          BY <1>3, <1>5, <1>9, <1>10, <2>1, <3>1
        <5> QED  BY <3>1, <4>2, <5>1, Zenon DEF Phase
      <4>3. CASE b # a
        <5>1. /\ b \in active' <=> b \in active
              /\ b \notin Delayed' /\ b \notin Delayed
              /\ <<b, "data">> \in Busy' <=> <<b, "data">> \in Busy
              /\ <<b, "inv">> \in Busy' <=> <<b, "inv">> \in Busy
          BY <1>3, <1>10, <2>1, <3>1, <4>3
        <5> QED  BY <3>1, <4>1, <5>1, Zenon DEF Phase
      <4> QED  BY <4>2, <4>3
    <3> QED  BY <1>3, <1>4, <1>10, <2>1, <3>1, <3>2 DEF Stage
  <2>2. CASE Delays(a) /\ AtomicEffect(a, phase, invalidateEvent)
    <3>1. /\ Busy = {} /\ Busy' = {} /\ completionDue' = completionDue
          /\ invalidateEvent' /\ ~assertFailed'
      BY <1>2, <1>9, <2>2, ZenonT(30) DEF AtomicEffect
    <3>2. \A b \in Actions : Phase(b)'
      BY <1>3, <1>4, <1>5, <1>9, <1>10, <2>2, <3>1 DEF Phase
    <3> QED  BY <1>3, <1>4, <1>10, <2>2, <3>1, <3>2, DelayedOne DEF Stage
  <2>3. CASE ~Delays(a) /\ QueuedEffect(a, phase, invalidateEvent)
    <3>1. /\ Busy' = Busy \cup {<<a, "data">>} /\ completionDue' = completionDue
          /\ invalidateEvent' = invalidateEvent /\ assertFailed' = assertFailed
      BY <1>2, <2>3, Zenon DEF QueuedEffect
    <3>2. \A b \in Actions : Phase(b)'
      BY <1>3, <1>4, <1>5, <1>10, <2>3, <3>1, Zenon DEF Phase
    <3> QED  BY <1>3, <1>4, <1>10, <2>3, <3>1, <3>2 DEF Stage
  <2>4. CASE ~Delays(a) /\ AtomicEffect(a, phase, invalidateEvent)
    <3>1. /\ Busy = {} /\ Busy' = {} /\ completionDue' = completionDue \cup {a}
          /\ invalidateEvent' = invalidateEvent /\ ~assertFailed'
      BY <1>2, <1>7, <2>4, Zenon DEF AtomicEffect
    <3>2. \A b \in Actions : Phase(b)'
      BY <1>3, <1>4, <1>5, <1>10, <2>4, <3>1 DEF Phase
    <3> QED  BY <1>3, <1>4, <1>10, <2>4, <3>1, <3>2 DEF Stage
  <2> QED  BY <1>8, <2>1, <2>2, <2>3, <2>4, Zenon
<1> QED  BY <1>8, <1>11, Zenon DEF Serial

(* The delayed write is sent.                                              *)
LEMMA DelayedStage ==
    ASSUME Core, Rest, Rest', Serial, sendDataAfterInvalidate
    PROVE  Serial'
<1>1. Stage /\ Placed /\ Counted /\ \A b \in Actions : Phase(b)
  BY Zenon DEF Serial, Stage
<1>2. invalidateEvent /\ outstandingRequests # <<>>
  BY Zenon DEF sendDataAfterInvalidate
<1>3. PICK a \in Actions : outstandingRequests = <<a>>
  BY <1>1, <1>2, Zenon DEF Stage
<1>4. /\ outstandingRequests' = <<>> /\ active' = active
      /\ QueueAndSend(a, "data", FALSE)
  <2>1. Head(outstandingRequests) = a /\ Tail(outstandingRequests) = <<>>
    BY <1>3, DelayedOne, Zenon
  <2>2. /\ outstandingRequests' = Tail(outstandingRequests) /\ active' = active
        /\ QueueAndSend(Head(outstandingRequests), "data", FALSE)
    BY Zenon DEF sendDataAfterInvalidate
  <2> QED  BY <2>1, <2>2, Zenon
<1>5. Delayed = {a} /\ Delayed' = {}
  BY <1>3, <1>4, DelayedOne, Zenon DEF Delayed
<1>6. /\ a \in active /\ a \notin completionDue
      /\ <<a, "inv">> \notin Busy /\ <<a, "data">> \notin Busy
  BY <1>1, <1>2, <1>5 DEF Phase
<1>7. "data" \in Phases /\ FALSE \in BOOLEAN /\ assertFailed \in BOOLEAN
  BY DEF Phases, Rest
<1>8. /\ Placed' /\ Counted'
      /\ QueuedEffect(a, "data", FALSE) \/ AtomicEffect(a, "data", FALSE)
  BY <1>1, <1>4, <1>6, <1>7, QueueAndSendEffect, Zenon
<1>9. /\ ~invalidateEvent' /\ ~assertFailed' /\ completionDue' \in SUBSET (completionDue \cup {a})
      /\ \A b \in Actions : <<b, "inv">> \notin Busy'
      /\ \A b \in Actions : b # a => (<<b, "data">> \in Busy' <=> <<b, "data">> \in Busy)
      /\ a \in completionDue' => <<a, "data">> \notin Busy'
  <2>1. \A b \in Actions : <<b, "inv">> \notin Busy
    BY <1>1, <1>5, <1>6, Zenon DEF Phase
  <2>2. CASE QueuedEffect(a, "data", FALSE)
    BY <1>1, <1>6, <2>1, <2>2 DEF QueuedEffect, Stage
  <2>3. CASE AtomicEffect(a, "data", FALSE)
    BY <1>6, <2>1, <2>3, Zenon DEF AtomicEffect
  <2> QED  BY <1>8, <2>2, <2>3, Zenon
<1>10. ASSUME NEW b \in Actions PROVE Phase(b)'
  <2>1. Phase(b)
    BY <1>1
  <2>2. CASE b = a
    BY <1>4, <1>5, <1>6, <1>9, <2>2 DEF Phase
  <2>3. CASE b # a
    BY <1>4, <1>5, <1>9, <2>1, <2>3 DEF Phase
  <2> QED  BY <2>2, <2>3
<1>11. completionDue' \subseteq active'
  BY <1>1, <1>4, <1>6, <1>9 DEF Stage
<1> QED  BY <1>4, <1>8, <1>9, <1>10, <1>11, Zenon DEF Stage, Serial

(* The completion of one DmaReqState.                                      *)
LEMMA ScheduleOne ==
    ASSUME NEW a, NEW phase \in Phases, NEW inv, ScheduleCompletion({<<a, phase>>}, inv)
    PROVE  /\ completionDue' = IF phase = "data" THEN completionDue \cup {a} ELSE completionDue
           /\ invalidateEvent' = (inv \/ phase = "inv")
           /\ assertFailed' = (inv /\ phase = "inv")
<1>1. PICK done, t : done = {t} /\ t = <<a, phase>>
  BY Zenon
<1>2. ScheduleCompletion(done, inv) /\ t[1] = a /\ t[2] = phase
  BY <1>1
<1>3. completionDue' = IF phase = "data" THEN completionDue \cup {a} ELSE completionDue
  BY <1>1, <1>2 DEF ScheduleCompletion
<1>4. InvalidationDone(done) <=> phase = "inv"
  BY <1>1 DEF InvalidationDone
<1>5. /\ invalidateEvent' = (inv \/ InvalidationDone(done))
      /\ assertFailed' = (inv /\ InvalidationDone(done))
      /\ InvalidationDone(done) \in BOOLEAN
  BY <1>2, Zenon DEF ScheduleCompletion, InvalidationDone
<1> QED  BY <1>3, <1>4, <1>5, Zenon

(* A packet is answered.                                                   *)
LEMMA RespStage ==
    ASSUME Core, Rest, Serial, NEW pkt \in inFlight, recvTimingResp(pkt)
    PROVE  Serial'
<1>1. Stage /\ Placed /\ Counted /\ \A b \in Actions : Phase(b)
  BY Zenon DEF Serial, Stage
<1>2. PICK s, a, phase : s = StateOf(pkt) /\ a = pkt[1] /\ phase = pkt[2]
  BY Zenon
<1>3. s = <<a, phase>> /\ a \in Actions /\ phase \in Phases /\ s \in States /\ s[1] = a
  <2>1. pkt \in Packets
    BY Zenon DEF Core
  <2> QED  BY <1>2, <2>1 DEF Packets, StateOf, States
<1>4. PICK done : done = (numBytes[s] + 1 = Chunks[s[1]])
  BY Zenon
<1>5. /\ inFlight' = inFlight \ {pkt} /\ transmitList' = transmitList
      /\ numOutstandingRequests' = numOutstandingRequests - 1
      /\ numBytes' = [numBytes EXCEPT ![s] = IF done THEN 0 ELSE @ + 1]
      /\ ScheduleCompletion(IF done THEN {s} ELSE {}, invalidateEvent)
      /\ outstandingRequests' = outstandingRequests /\ active' = active
  BY <1>2, <1>3, <1>4, Zenon DEF recvTimingResp, handleResp
<1>6. \A c \in Channels : Elements(transmitList[c]) \cap inFlight = {}
  BY <1>1, Zenon DEF Placed, Apart
<1>7. pkt \in Pending /\ Pending' = Pending \ {pkt}
  <2>1. Pending' = QueuedPackets \cup (inFlight \ {pkt})
    BY <1>5, Zenon DEF Pending, QueuedPackets
  <2>2. pkt \notin QueuedPackets
    BY <1>6 DEF QueuedPackets
  <2> QED  BY <2>1, <2>2 DEF Pending
<1>8. Counted' /\ s \in Busy /\ Busy' = IF done THEN Busy \ {s} ELSE Busy
  BY <1>1, <1>2, <1>3, <1>4, <1>5, <1>7, CountedResp, Zenon
<1>9. Placed'
  <2>1. Apart(transmitList', inFlight')
    BY <1>1, <1>5 DEF Placed, Apart
  <2>2. IsFiniteSet(inFlight) /\ numOutstandingRequests = Cardinality(inFlight)
    BY <1>1, Zenon DEF Core, Placed
  <2>3. Cardinality(inFlight \ {pkt}) = Cardinality(inFlight) - 1
    BY <2>2, FS_RemoveElement, Zenon
  <2> QED  BY <1>5, <2>1, <2>2, <2>3, Zenon DEF Placed
<1>10. a \in active /\ a \notin completionDue
  BY <1>1, <1>3, <1>8, ZenonT(30) DEF Phase, Phases
<1>11. Delayed' = Delayed /\ \A b, c \in Delayed : b = c
  <2>1. CASE outstandingRequests = <<>>
    BY <1>5, <2>1, DelayedOne DEF Delayed
  <2>2. ASSUME NEW b \in Actions, outstandingRequests = <<b>>
        PROVE  Delayed' = Delayed /\ \A d, c \in Delayed : d = c
    BY <1>5, <2>2, DelayedOne DEF Delayed
  <2> QED  BY <1>1, <2>1, <2>2, Zenon DEF Stage
<1>12. invalidateEvent \in BOOLEAN /\ assertFailed \in BOOLEAN
  BY Zenon DEF Rest
<1>13. CASE done /\ phase = "data"
  <2>0. ScheduleCompletion({<<a, phase>>}, invalidateEvent)
    BY <1>3, <1>5, <1>13, Zenon
  <2>1. /\ Busy' = Busy \ {<<a, "data">>} /\ completionDue' = completionDue \cup {a}
        /\ invalidateEvent' = invalidateEvent /\ ~assertFailed'
    <3>1. /\ completionDue' = completionDue \cup {a}
          /\ invalidateEvent' = (invalidateEvent \/ phase = "inv")
          /\ assertFailed' = (invalidateEvent /\ phase = "inv")
      <4>1. /\ completionDue' = IF phase = "data" THEN completionDue \cup {a} ELSE completionDue
            /\ invalidateEvent' = (invalidateEvent \/ phase = "inv")
            /\ assertFailed' = (invalidateEvent /\ phase = "inv")
        BY <1>3, <2>0, ScheduleOne, Zenon
      <4> QED  BY <1>13, <4>1, Zenon
    <3>2. phase # "inv"
      BY <1>13
    <3>3. Busy' = Busy \ {<<a, "data">>}
      BY <1>3, <1>8, <1>13, Zenon
    <3> QED  BY <1>12, <3>1, <3>2, <3>3, Zenon
  <2>2. a \notin Delayed /\ <<a, "inv">> \notin Busy
    BY <1>1, <1>3, <1>8, <1>13 DEF Phase
  <2>3. ASSUME NEW b \in Actions PROVE Phase(b)'
    <3>1. Phase(b)
      BY <1>1
    <3> QED  BY <1>5, <1>11, <2>1, <2>2, <3>1 DEF Phase
  <2>4. Stage'
    BY <1>1, <1>5, <1>10, <2>1, <2>3 DEF Stage
  <2> QED  BY <1>8, <1>9, <2>4, Zenon DEF Serial
<1>14. CASE done /\ phase = "inv"
  <2>1. a \in Delayed /\ ~invalidateEvent
    BY <1>1, <1>3, <1>8, <1>14, Zenon DEF Phase
  <2>2. /\ Busy' = Busy \ {<<a, "inv">>} /\ completionDue' = completionDue
        /\ invalidateEvent' /\ ~assertFailed'
    <3>1. ScheduleCompletion({<<a, phase>>}, invalidateEvent)
      BY <1>3, <1>5, <1>14, Zenon
    <3>2. phase # "data"
      BY <1>14
    <3>3. /\ completionDue' = completionDue
          /\ invalidateEvent' = (invalidateEvent \/ phase = "inv")
          /\ assertFailed' = (invalidateEvent /\ phase = "inv")
      BY <1>3, <3>1, <3>2, ScheduleOne, Zenon
    <3>4. Busy' = Busy \ {<<a, "inv">>}
      BY <1>3, <1>8, <1>14, Zenon
    <3> QED  BY <1>14, <2>1, <3>3, <3>4, Zenon
  <2>3. ASSUME NEW b \in Actions PROVE Phase(b)'
    <3>1. Phase(b) /\ (b \in Delayed => b = a)
      BY <1>1, <1>11, <2>1
    <3> QED  BY <1>5, <1>11, <2>1, <2>2, <3>1 DEF Phase
  <2>4. outstandingRequests # <<>>
    BY <2>1, DelayedOne DEF Delayed
  <2>5. Stage'
    BY <1>1, <1>5, <2>2, <2>3, <2>4 DEF Stage
  <2> QED  BY <1>8, <1>9, <2>5, Zenon DEF Serial
<1>15. CASE ~done
  <2>1. /\ Busy' = Busy /\ completionDue' = completionDue
        /\ invalidateEvent' = invalidateEvent /\ ~assertFailed'
    BY <1>5, <1>8, <1>12, <1>15, Zenon DEF ScheduleCompletion, InvalidationDone
  <2>2. ASSUME NEW b \in Actions PROVE Phase(b)'
    <3>1. Phase(b)
      BY <1>1
    <3> QED  BY <1>5, <1>11, <2>1, <3>1, Zenon DEF Phase
  <2>3. Stage'
    BY <1>1, <1>5, <2>1, <2>2, Zenon DEF Stage
  <2> QED  BY <1>8, <1>9, <2>3, Zenon DEF Serial
<1>16. done \in BOOLEAN
  BY <1>4, Zenon
<1> QED  BY <1>3, <1>13, <1>14, <1>15, <1>16 DEF Phases

(* The same packets pending, the same bytes.                               *)
LEMMA CountedSame ==
    ASSUME Counted, Pending' = Pending, numBytes' = numBytes
    PROVE  Counted' /\ Busy' = Busy
<1>1. \A s : Unanswered(s)' = Unanswered(s)
  BY Zenon DEF Unanswered, StateOf
<1>2. Busy' = Busy
  BY <1>1, Zenon DEF Busy
<1> QED  BY <1>1, <1>2, Zenon DEF Counted

(* SendEvent and recvReqRetry.                                             *)
LEMMA SendStepStage ==
    ASSUME Core, Serial, SendEvent \/ recvReqRetry
    PROVE  Serial'
<1>1. Stage /\ Placed /\ Counted
  BY Zenon DEF Serial
<1>2. SendReady(transmitList)
  BY Zenon DEF Core, SendReady, SenderWakeup, SendEvent, recvReqRetry
<1>3. Apart(transmitList, inFlight) /\ numOutstandingRequests = Cardinality(inFlight)
  BY <1>1, Zenon DEF Placed
<1>4. Placed' /\ Pending' = QueuedIn(transmitList) \cup inFlight
  <2>1. CASE SendEvent
    <3>1. SendDmaTiming(transmitList, FALSE)
      BY <2>1, Zenon DEF SendEvent
    <3> QED  BY <1>2, <1>3, <3>1, SendDmaPlaced, Zenon
  <2>2. CASE recvReqRetry
    <3>1. trySendTimingReq(transmitList)
      BY <2>2, Zenon DEF recvReqRetry
    <3> QED  BY <1>2, <1>3, <3>1, TrySendPlaced, Zenon
  <2> QED  BY <2>1, <2>2, Zenon
<1>5. Pending' = Pending
  BY <1>4, Zenon DEF Pending, QueuedPackets, QueuedIn
<1>6. /\ numBytes' = numBytes /\ outstandingRequests' = outstandingRequests
      /\ invalidateEvent' = invalidateEvent /\ completionDue' = completionDue
      /\ active' = active /\ assertFailed' = assertFailed
  BY Zenon DEF SendEvent, recvReqRetry, SendUnchanged
<1>7. Counted' /\ Busy' = Busy
  BY <1>1, <1>5, <1>6, CountedSame, Zenon
<1>8. Stage'
  BY <1>1, <1>6, <1>7, Zenon DEF Stage, Phase, Delayed
<1> QED  BY <1>4, <1>7, <1>8, Zenon DEF Serial

(* The packets and the delayed write stay; at most a transfer completes.   *)
LEMMA OtherStage ==
    ASSUME Serial, UNCHANGED sendVars,
           UNCHANGED <<outstandingRequests, invalidateEvent, numBytes, assertFailed>>,
           \/ UNCHANGED <<completionDue, active>>
           \/ \E a \in completionDue : /\ completionDue' = completionDue \ {a}
                                       /\ active' = active \ {a}
    PROVE  Serial'
<1>1. Stage /\ Placed /\ Counted
  BY Zenon DEF Serial
<1>2. /\ transmitList' = transmitList /\ inFlight' = inFlight /\ numBytes' = numBytes
      /\ numOutstandingRequests' = numOutstandingRequests
      /\ outstandingRequests' = outstandingRequests /\ assertFailed' = assertFailed
      /\ invalidateEvent' = invalidateEvent
  BY DEF sendVars
<1>3. Placed' /\ Pending' = Pending
  BY <1>1, <1>2, Zenon DEF Placed, Pending, QueuedPackets
<1>4. Counted' /\ Busy' = Busy
  BY <1>1, <1>2, <1>3, CountedSame, Zenon
<1>5. Delayed' = Delayed
  BY <1>2, Zenon DEF Delayed
<1>6. CASE UNCHANGED <<completionDue, active>>
  <2>1. completionDue' = completionDue /\ active' = active
    BY <1>6
  <2>2. Stage'
    BY <1>1, <1>2, <1>4, <1>5, <2>1 DEF Stage, Phase
  <2> QED  BY <1>3, <1>4, <2>2, Zenon DEF Serial
<1>7. ASSUME NEW a \in completionDue, completionDue' = completionDue \ {a},
             active' = active \ {a}
      PROVE  Serial'
  <2>1. ASSUME NEW b \in Actions PROVE Phase(b)'
    <3>1. Phase(b)
      BY <1>1, Zenon DEF Stage
    <3> QED  BY <1>2, <1>4, <1>5, <1>7, <3>1 DEF Phase
  <2>2. completionDue' \subseteq active'
    BY <1>1, <1>7 DEF Stage
  <2>3. Stage'
    <3>1. /\ \/ outstandingRequests' = <<>>
             \/ \E b \in Actions : outstandingRequests' = <<b>>
          /\ invalidateEvent' => outstandingRequests' # <<>>
          /\ ~assertFailed'
      BY <1>1, <1>2 DEF Stage
    <3> QED  BY <2>1, <2>2, <3>1, Zenon DEF Stage
  <2> QED  BY <1>3, <1>4, <2>3, Zenon DEF Serial
<1> QED  BY <1>6, <1>7, Zenon

(* Every step keeps the invariant when the device has one invalidating     *)
(* write at a time.                                                        *)
LEMMA SerialNext ==
    SerialWrites /\ Core /\ Rest /\ Rest' /\ Serial /\ [Next]_vars => Serial'
<1> SUFFICES ASSUME SerialWrites, Core, Rest, Rest', Serial, [Next]_vars PROVE Serial'
  OBVIOUS
<1>1. ASSUME NEW a \in Actions, dmaAction(a) PROVE Serial'
  BY <1>1, DmaActionStage, Zenon
<1>2. CASE sendDataAfterInvalidate
  BY <1>2, DelayedStage, Zenon
<1>3. CASE SendEvent \/ recvReqRetry
  BY <1>3, SendStepStage, Zenon
<1>4. ASSUME NEW pkt \in inFlight, recvTimingResp(pkt) PROVE Serial'
  BY <1>4, RespStage, Zenon
<1>5. ASSUME NEW a \in Actions, CompletionEvent(a) PROVE Serial'
  <2>1. /\ UNCHANGED sendVars
        /\ UNCHANGED <<outstandingRequests, invalidateEvent, numBytes, assertFailed>>
        /\ \E b \in completionDue : /\ completionDue' = completionDue \ {b}
                                    /\ active' = active \ {b}
    BY <1>5 DEF CompletionEvent
  <2> QED  BY <2>1, OtherStage, Zenon
<1>6. CASE drain \/ Resume \/ setMemoryMode \/ UNCHANGED vars
  <2>1. /\ UNCHANGED sendVars
        /\ UNCHANGED <<outstandingRequests, invalidateEvent, numBytes, assertFailed>>
        /\ UNCHANGED <<completionDue, active>>
    BY <1>6 DEF drain, Resume, setMemoryMode, DrainUnchanged, vars, sendVars
  <2> QED  BY <2>1, OtherStage, Zenon
<1> QED  BY <1>1, <1>2, <1>3, <1>4, <1>5, <1>6, Zenon DEF Next

(* It holds when the port starts.                                          *)
LEMMA SerialInit == Init => Serial
<1> SUFFICES ASSUME Init PROVE Serial
  OBVIOUS
<1>1. Rest
  BY CoreInit, Zenon
<1>2. /\ \A c \in Channels : transmitList[c] = <<>>
      /\ inFlight = {} /\ numOutstandingRequests = 0 /\ \A s \in States : numBytes[s] = 0
      /\ outstandingRequests = <<>> /\ ~invalidateEvent /\ ~assertFailed
      /\ completionDue = {} /\ active = {}
  BY DEF Init
<1>3. Elements(<<>>) = {} /\ Distinct(<<>>)
  BY DEF Elements, Distinct
<1>4. Pending = {} /\ Delayed = {}
  BY <1>2, <1>3, Zenon DEF Pending, QueuedPackets, Delayed
<1>5. Counted /\ Busy = {}
  BY <1>1, <1>2, <1>4, CountedNone, Zenon
<1>6. Placed
  BY <1>2, <1>3, FS_EmptySet, Zenon DEF Placed, Apart
<1>7. Stage
  BY <1>2, <1>4, <1>5, Zenon DEF Stage, Phase
<1> QED  BY <1>5, <1>6, <1>7, Zenon DEF Serial

(* With one invalidating write at a time, all the invariants hold.         *)
LEMMA SpecSerial == ASSUME SerialWrites PROVE Spec => [](Core /\ Rest /\ Serial)
<1>1. Core /\ Rest /\ Core' /\ Rest' /\ Serial /\ [Next]_vars => Serial'
  BY SerialNext, Zenon
<1> QED  BY <1>1, SerialInit, SpecCore, PTL DEF Spec

(* A packet that is queued or sent makes its DmaReqState busy.             *)
LEMMA PendingBusy ==
    ASSUME Core, NEW pkt \in Pending
    PROVE  pkt[1] \in Actions /\ pkt[2] \in Phases /\ <<pkt[1], pkt[2]>> \in Busy
<1>1. pkt \in Packets
  <2>1. inFlight \in SUBSET Packets /\ transmitList \in Lists
    BY Zenon DEF Core
  <2>2. ASSUME NEW c \in Channels, pkt \in Elements(transmitList[c]) PROVE pkt \in Packets
    <3>1. transmitList[c] \in Seq(Packets)
      BY <2>1 DEF Lists
    <3> QED  BY <2>2, <3>1 DEF Elements
  <2> QED  BY <2>1, <2>2 DEF Pending, QueuedPackets
<1>2. pkt[1] \in Actions /\ pkt[2] \in Phases /\ StateOf(pkt) \in States
  BY <1>1 DEF Packets, StateOf, States
<1>3. pkt \in Unanswered(StateOf(pkt))
  BY Zenon DEF Unanswered
<1>4. StateOf(pkt) \in Busy
  BY <1>2, <1>3, Zenon DEF Busy
<1> QED  BY <1>2, <1>4, Zenon DEF StateOf

(* pendingCount, on which drain decides, is exact and the packets sent     *)
(* stay within maxRequests, for a device that has one invalidating write   *)
(* at a time.                                                              *)
THEOREM DmaPendingAccounted == ASSUME SerialWrites PROVE Spec => []PendingAccounted
<1>1. Core /\ Rest /\ Serial => PendingAccounted
  BY Zenon DEF Core, Serial, Placed, PendingAccounted
<1> QED  BY <1>1, SpecSerial, PTL

(* For such a device a completion event finds no packet of its transfer    *)
(* queued, sent or delayed, and is never scheduled twice.                  *)
THEOREM DmaCompletionMeansDone == ASSUME SerialWrites PROVE Spec => []CompletionMeansDone
<1>1. Core /\ Rest /\ Serial => CompletionMeansDone
  <2> SUFFICES ASSUME Core, Rest, Serial PROVE CompletionMeansDone
    OBVIOUS
  <2>1. ASSUME NEW a \in completionDue
        PROVE  /\ <<a, "inv">> \notin Busy /\ <<a, "data">> \notin Busy /\ a \notin Delayed
    BY Zenon DEF Serial, Stage, Phase, Rest
  <2>2. ASSUME NEW a \in completionDue, NEW pkt \in Pending, pkt[1] = a PROVE FALSE
    <3>1. pkt[2] \in Phases /\ <<pkt[1], pkt[2]>> \in Busy
      BY PendingBusy, Zenon
    <3> QED  BY <2>1, <2>2, <3>1, Zenon DEF Phases
  <2> QED  BY <2>1, <2>2, Zenon DEF CompletionMeansDone, Delayed, Serial, Stage
<1> QED  BY <1>1, SpecSerial, PTL

(* For such a device the data of a write is sent only when all the         *)
(* responses to its invalidation have been received.                       *)
THEOREM DmaDataAfterInvalidation == ASSUME SerialWrites PROVE Spec => []DataAfterInvalidation
<1>1. Core /\ Rest /\ Serial => DataAfterInvalidation
  <2> SUFFICES ASSUME Core, Serial, NEW pkt \in Pending, pkt[2] = "data",
                      NEW inv \in Pending, inv[1] = pkt[1], inv[2] = "inv"
               PROVE  FALSE
    BY Zenon DEF DataAfterInvalidation
  <2>1. pkt[1] \in Actions /\ <<pkt[1], "data">> \in Busy
    BY PendingBusy, Zenon
  <2>2. <<pkt[1], "inv">> \in Busy
    <3>1. <<inv[1], inv[2]>> \in Busy
      BY PendingBusy, Zenon
    <3> QED  BY <3>1, Zenon
  <2>3. Phase(pkt[1])
    BY <2>1, Zenon DEF Serial, Stage
  <2> QED  BY <2>1, <2>2, <2>3, Zenon DEF Phase
<1> QED  BY <1>1, SpecSerial, PTL
=============================================================================
