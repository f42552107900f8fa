----------------------------- MODULE PacketQueue ----------------------------
(***************************************************************************)
(* PacketQueue (src/src/mem/packet_queue.{hh,cc}): packets wait for their  *)
(* time and are then sent through a port whose peer may refuse them.       *)
(*                                                                         *)
(* Times are kept relative to curTick() and never below it: the code only  *)
(* compares them with curTick() and with times that are not before it.     *)
(*                                                                         *)
(* A peer that accepts a packet may queue further ones inside the call, as *)
(* the comment of sendDeferredPacket says; a peer that refuses does not.   *)
(***************************************************************************)
EXTENDS Integers, Queues

CONSTANTS
    Packets, Addrs,
    Addr,               \* [Packets -> Addrs]
    MaxDelay            \* how far ahead packets are queued (a bound)

ASSUME QueueAssumption ==
    /\ Addr \in [Packets -> Addrs]
    /\ MaxDelay \in Nat \ {0}

VARIABLES
    forceOrder,         \* set by the constructor
    transmitList,       \* of [pkt, tick]
    sendEvent,          \* when it is scheduled, or NotScheduled
    waitingOnRetry,
    inSend,             \* inside a call of sendTiming that will succeed
    drainState

vars == <<forceOrder, transmitList, sendEvent, waitingOnRetry, inSend, drainState>>

NotScheduled == -1

Init ==
    /\ forceOrder \in BOOLEAN
    /\ transmitList = <<>> /\ sendEvent = NotScheduled
    /\ waitingOnRetry = FALSE /\ inSend = FALSE /\ drainState = "Running"

Queued == {transmitList[i].pkt : i \in DOMAIN transmitList}

-----------------------------------------------------------------------------
(*                                Queueing                                 *)

(* Never in the current tick.                                              *)
SendAt(when) == IF when < 1 THEN 1 ELSE when

Mut_EventAt(when) == IF sendEvent = NotScheduled THEN SendAt(when) ELSE sendEvent

(* schedSendEvent for a time: the event is scheduled, or moved forward.    *)
EventAt(when) ==
    IF sendEvent = NotScheduled \/ SendAt(when) < sendEvent THEN SendAt(when)
                                                            ELSE sendEvent

Mut_StaysBehind(p, when, e) == e.tick <= when

Mut_StaysBehindLess(p, when, e) == (forceOrder /\ Addr[e.pkt] = Addr[p]) \/ e.tick < when

(* A packet for `when` goes somewhere behind e.                            *)
StaysBehind(p, when, e) == (forceOrder /\ Addr[e.pkt] = Addr[p]) \/ e.tick <= when

Mut_AtFront(k) == TRUE

AtFront(k) == k = 0

schedSendTiming(p, when) ==
    /\ p \notin Queued
    /\ \E k \in 0 .. Len(transmitList) :    \* right behind the last such entry
         /\ k # 0 => StaysBehind(p, when, transmitList[k])
         /\ \A i \in k + 1 .. Len(transmitList) : ~StaysBehind(p, when, transmitList[i])
         /\ transmitList' = SubSeq(transmitList, 1, k) \o <<[pkt |-> p, tick |-> when]>>
                               \o SubSeq(transmitList, k + 1, Len(transmitList))
         /\ sendEvent' = IF AtFront(k) /\ ~waitingOnRetry THEN EventAt(when) ELSE sendEvent
    /\ UNCHANGED <<forceOrder, waitingOnRetry, inSend, drainState>>

-----------------------------------------------------------------------------
(*                                Sending                                  *)

(* The peer accepts the packet; what follows its call is SendReturns.      *)
SendAccepted ==
    /\ transmitList' = Tail(transmitList)
    /\ waitingOnRetry' = FALSE /\ inSend' = TRUE

(* The packet is put back at the front.                                    *)
SendRefused ==
    /\ waitingOnRetry' = TRUE
    /\ UNCHANGED <<transmitList, inSend>>

processSendEvent ==
    /\ sendEvent = 0 /\ ~inSend /\ transmitList # <<>>
    /\ sendEvent' = NotScheduled
    /\ SendAccepted \/ SendRefused
    /\ UNCHANGED <<forceOrder, drainState>>

(* The peer sends the retry that it owes.                                  *)
retry ==
    /\ waitingOnRetry /\ ~inSend /\ transmitList # <<>>
    /\ SendAccepted \/ SendRefused
    /\ UNCHANGED <<forceOrder, sendEvent, drainState>>

Mut_signalDrainDone == UNCHANGED drainState

(* schedSendEvent with nothing left to send.                               *)
signalDrainDone ==
    drainState' = IF drainState = "Draining" /\ sendEvent = NotScheduled
                  THEN "Drained" ELSE drainState

SendReturns ==
    /\ inSend /\ inSend' = FALSE
    /\ \/ /\ transmitList # <<>>
          /\ sendEvent' = EventAt(Head(transmitList).tick)
          /\ UNCHANGED drainState
       \/ /\ transmitList = <<>>
          /\ signalDrainDone
          /\ UNCHANGED sendEvent
    /\ UNCHANGED <<forceOrder, transmitList, waitingOnRetry>>

Earlier(t) == IF t <= 0 THEN t ELSE t - 1

(* The next tick; no event is left in this one.                            *)
Tick ==
    /\ sendEvent # 0 /\ ~inSend
    /\ transmitList' = [i \in DOMAIN transmitList |->
                          [pkt |-> transmitList[i].pkt, tick |-> Earlier(transmitList[i].tick)]]
    /\ sendEvent' = Earlier(sendEvent)
    /\ UNCHANGED <<forceOrder, waitingOnRetry, inSend, drainState>>

-----------------------------------------------------------------------------
(*                                Draining                                 *)

(* DrainManager asks a queue again only after it has signalled.            *)
drain ==
    /\ drainState # "Draining" /\ ~inSend
    /\ drainState' = IF transmitList = <<>> THEN "Drained" ELSE "Draining"
    /\ UNCHANGED <<forceOrder, transmitList, sendEvent, waitingOnRetry, inSend>>

drainResume ==
    /\ drainState = "Drained" /\ ~inSend
    /\ drainState' = "Running"
    /\ UNCHANGED <<forceOrder, transmitList, sendEvent, waitingOnRetry, inSend>>

Next ==
    \/ \E p \in Packets : \E when \in 0 .. MaxDelay : schedSendTiming(p, when)
    \/ processSendEvent \/ retry \/ SendReturns \/ Tick \/ drain \/ drainResume

Spec == Init /\ [][Next]_vars

(* Time passes, events happen at their time, calls return, a peer retries  *)
(* what it refused and does not refuse a packet for ever.                  *)
Fairness ==
    /\ WF_vars(Tick) /\ WF_vars(SendReturns)
    /\ WF_vars(processSendEvent) /\ WF_vars(retry)
    /\ SF_vars((processSendEvent \/ retry) /\ inSend')

FairSpec == Spec /\ Fairness

-----------------------------------------------------------------------------
(*                              Properties                                 *)

(* The types; the event is never further ahead than any packet may be.     *)
TypeOK ==
    /\ transmitList \in Seq([pkt : Packets, tick : 0 .. MaxDelay])
    /\ sendEvent \in {NotScheduled} \cup 0 .. MaxDelay
    /\ forceOrder \in BOOLEAN
    /\ waitingOnRetry \in BOOLEAN /\ inSend \in BOOLEAN
    /\ drainState \in {"Running", "Draining", "Drained"}

(* Whenever sendDeferredPacket is called, by the event or by a retry, the  *)
(* packet at the front is due (its assertion deferredPacketReady), and no  *)
(* event is scheduled while the queue waits for a retry (the assertions of *)
(* schedSendEvent and processSendEvent).                                   *)
SendsOnlyWhenDue ==
    /\ sendEvent = 0 \/ waitingOnRetry =>
         transmitList # <<>> /\ Head(transmitList).tick = 0
    /\ waitingOnRetry => sendEvent = NotScheduled

(* A queue that holds packets and need not wait for a retry sends the      *)
(* first one when it is due, or in the next tick if that has passed.       *)
SendsInTime ==
    transmitList # <<>> /\ ~waitingOnRetry /\ ~inSend =>
        sendEvent # NotScheduled /\ sendEvent <= SendAt(Head(transmitList).tick)

(* A refused packet is the next one offered to the peer, whatever is       *)
(* queued before the retry: it was due, so what is queued later has no     *)
(* earlier time.  The comment on retry() in packet_queue.hh says otherwise *)
(* ("not necessarily the same packet if something has been added with an   *)
(* earlier time stamp"); no caller can add such a packet.                  *)
RefusedStaysFirst ==
    [][waitingOnRetry /\ waitingOnRetry' =>
         Head(transmitList').pkt = Head(transmitList).pkt]_vars

(* A queue that owes the drain manager a signal still has a packet to send *)
(* or is about to look: every path to an empty queue passes the signal.    *)
DrainNotForgotten ==
    drainState = "Draining" => transmitList # <<>> \/ inSend

(* The packets for an address that wait in a queue with forced order, in   *)
(* the order in which they will be sent; other queues show no channel.     *)
For(a) == Joined([i \in DOMAIN transmitList |->
                    IF forceOrder /\ Addr[transmitList[i].pkt] = a
                    THEN <<transmitList[i].pkt>> ELSE <<>>])
chanBar == [a \in Addrs |-> For(a)]

Channel == INSTANCE OrderedChannel WITH chan <- chanBar

(* PacketQueue with forced order implements OrderedChannel, its liveness   *)
(* included: for every address an ordered channel that delivers.           *)
ImplementsChannel == Channel!Spec
=============================================================================
