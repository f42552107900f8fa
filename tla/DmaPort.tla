------------------------------ MODULE DmaPort -------------------------------
(***************************************************************************)
(* The multi-channel DMA port (src/src/dev/dma_device.{hh,cc}), as changed *)
(* for Aladdin: packets wait in one queue per channel, channels are served *)
(* round robin, at most maxRequests are outstanding, and a write may be    *)
(* preceded by an invalidation of the lines it touches.                    *)
(*                                                                         *)
(* An action (a call of dmaAction) is split into Chunks[a] packets, one    *)
(* per cache line; byte counts are kept in chunks.  A packet is            *)
(* <<action, phase, chunk>>, phase "inv" or "data"; <<action, phase>>      *)
(* names its DmaReqState.  A scheduled event may fire at any later step.   *)
(* The memory accepts or refuses a request and answers in any order; the   *)
(* device calls dmaAction again for an action once its event has fired.    *)
(***************************************************************************)
EXTENDS Queues, Integers, FiniteSets

CONSTANTS
    Actions,            \* the DMA transfers of the device
    Writes,             \* those that are writes
    Chunks,             \* [Actions -> Nat \ {0}]: cache lines they touch
    numChannels,
    maxRequests,
    InvalidateOnWrite,  \* the values of invalidateOnWrite to consider
    SerialWrites        \* the device has one invalidating write at a time

ASSUME DmaPortAssumption ==
    /\ IsFiniteSet(Actions) /\ Writes \subseteq Actions
    /\ Chunks \in [Actions -> Nat \ {0}]
    /\ numChannels \in Nat \ {0} /\ maxRequests \in Nat \ {0}
    /\ InvalidateOnWrite \subseteq BOOLEAN /\ SerialWrites \in BOOLEAN

VARIABLES
    transmitList,        \* one queue of packets per channel
    currChannel,
    sendEvent,           \* sendEvent.scheduled()
    inRetry,
    pendingCount,
    numOutstandingRequests,
    outstandingRequests, \* writes delayed until their invalidation is done
    invalidateEvent,     \* sendDataAfterInvalidateEvent.scheduled()
    numBytes,            \* DmaReqState::numBytes, in chunks
    completionDue,       \* actions whose completion event is scheduled
    inFlight,            \* packets the memory has yet to answer
    active,              \* actions the device has started
    drainState,
    timingMode,          \* sys->isTimingMode(), else atomic
    invalidateOnWrite,   \* set by the constructor
    assertFailed         \* EventQueue::schedule asserted; the simulator aborts

sendVars == <<transmitList, currChannel, sendEvent, inRetry, inFlight,
              numOutstandingRequests>>
vars == <<transmitList, currChannel, sendEvent, inRetry, inFlight,
          numOutstandingRequests, pendingCount, outstandingRequests,
          invalidateEvent, numBytes, completionDue, active, drainState,
          timingMode, invalidateOnWrite, assertFailed>>
mode == <<timingMode, invalidateOnWrite>>

Channels == 0..(numChannels - 1)
Phases == {"inv", "data"}
States == Actions \X Phases
Packets == UNION {{a} \X Phases \X (1..Chunks[a]) : a \in Actions}
StateOf(pkt) == <<pkt[1], pkt[2]>>

Init ==
    /\ transmitList = [c \in Channels |-> <<>>]
    /\ currChannel = 0
    /\ sendEvent = FALSE /\ inRetry = FALSE
    /\ pendingCount = 0 /\ numOutstandingRequests = 0
    /\ outstandingRequests = <<>> /\ invalidateEvent = FALSE
    /\ numBytes = [s \in States |-> 0]
    /\ completionDue = {} /\ inFlight = {} /\ active = {}
    /\ drainState = "Running"
    /\ timingMode \in BOOLEAN /\ invalidateOnWrite \in InvalidateOnWrite
    /\ assertFailed = FALSE

-----------------------------------------------------------------------------
(*                        Channels and queueing                            *)

Ahead(k) == (currChannel + k) % numChannels

(* The first empty channel from currChannel on, else currChannel.          *)
findNextEmptyChannel ==
    LET Empty(k) == transmitList[Ahead(k)] = <<>>
        steps == {k \in Channels : Empty(k) /\ \A j \in 0..(k - 1) : ~Empty(j)}
    IN  IF steps = {} THEN currChannel ELSE Ahead(CHOOSE k \in steps : TRUE)

Mut_findNextNonEmptyChannel(tl) ==
    IF tl[currChannel] # <<>> THEN currChannel ELSE 0

Mut_NoRoundRobin(tl) ==
    LET steps == {k \in Channels : /\ tl[Ahead(k)] # <<>>
                                   /\ \A j \in 0..(k - 1) : tl[Ahead(j)] = <<>>}
    IN  IF steps = {} THEN 0 ELSE Ahead(CHOOSE k \in steps : TRUE)

(* The first non-empty channel after currChannel, currChannel last, else 0.*)
findNextNonEmptyChannel(tl) ==
    LET steps == {k \in 1..numChannels :
                     /\ tl[Ahead(k)] # <<>>
                     /\ \A j \in 1..(k - 1) : tl[Ahead(j)] = <<>>}
    IN  IF steps = {} THEN 0 ELSE Ahead(CHOOSE k \in steps : TRUE)

PacketsOf(a, phase) == [i \in 1..Chunks[a] |-> <<a, phase, i>>]

(* queueDma counts every packet it queues.                                 *)
PendingWith(a) == pendingCount + Chunks[a]

(* queueDmaAction: all the packets of the action go to one channel.        *)
Queued(a, phase) ==
    [transmitList EXCEPT ![findNextEmptyChannel] = @ \o PacketsOf(a, phase)]

-----------------------------------------------------------------------------
(*                               Sending                                   *)

(* trySendTimingReq on the queues tl: the memory takes the packet ...      *)
TrySendAccepted(tl) ==
    LET rest == [tl EXCEPT ![currChannel] = Tail(@)]
        next == findNextNonEmptyChannel(rest)
    IN  /\ tl[currChannel] # <<>>
        /\ inRetry' = FALSE
        /\ inFlight' = inFlight \cup {Head(tl[currChannel])}
        /\ transmitList' = rest
        /\ currChannel' = next
        /\ numOutstandingRequests' = numOutstandingRequests + 1
        /\ sendEvent' = (rest[next] # <<>>)

(* ... or refuses it and owes a retry.                                     *)
TrySendRefused(tl) ==
    /\ tl[currChannel] # <<>>
    /\ inRetry' = TRUE
    /\ transmitList' = tl
    /\ sendEvent' = FALSE
    /\ UNCHANGED <<currChannel, inFlight, numOutstandingRequests>>

trySendTimingReq(tl) == TrySendAccepted(tl) \/ TrySendRefused(tl)

Mut_TooManyOutstanding == numOutstandingRequests > maxRequests

TooManyOutstanding == numOutstandingRequests >= maxRequests

(* sendDma in timing mode; ev: whether sendEvent is scheduled at the call. *)
SendDmaTiming(tl, ev) ==
    \/ /\ inRetry \/ ev
       /\ transmitList' = tl /\ sendEvent' = ev
       /\ UNCHANGED <<currChannel, inRetry, inFlight, numOutstandingRequests>>
    \/ /\ ~(inRetry \/ ev)
       /\ TooManyOutstanding
       /\ transmitList' = tl /\ sendEvent' = TRUE
       /\ UNCHANGED <<currChannel, inRetry, inFlight, numOutstandingRequests>>
    \/ /\ ~(inRetry \/ ev)
       /\ ~TooManyOutstanding
       /\ trySendTimingReq(tl)

Queue(tl) == UNION {{c} \X DOMAIN tl[c] : c \in Channels}
CountIn(tl, s) == Cardinality({q \in Queue(tl) : StateOf(tl[q[1]][q[2]]) = s})

(* The end of handleResp.                                                  *)
signalDrainDone(pending) ==
    drainState' = IF pending = 0 /\ drainState = "Draining" THEN "Drained"
                                                            ELSE drainState

InvalidationDone(done) == \E s \in done : s[2] = "inv"

(* The DmaReqStates in `done` have all their bytes: their completion event *)
(* is scheduled, which for an invalidation is the one event of the port.   *)
(* inv: whether that event is already scheduled.                           *)
ScheduleCompletion(done, inv) ==
    LET invDone == InvalidationDone(done)
    IN  /\ completionDue' = completionDue \cup {s[1] : s \in {d \in done : d[2] = "data"}}
        /\ invalidateEvent' = (inv \/ invDone)
        /\ assertFailed' = (inv /\ invDone)

(* sendDma in atomic mode: every packet is sent and answered at once.      *)
SendDmaAtomic(tl, pending, inv) ==
    LET total(s) == numBytes[s] + CountIn(tl, s)
        done == {s \in States : CountIn(tl, s) > 0 /\ total(s) = Chunks[s[1]]}
        left == pending - Cardinality(Queue(tl))
    IN  /\ transmitList' = [c \in Channels |-> <<>>]
        /\ numBytes' = [s \in States |-> IF s \in done THEN 0 ELSE total(s)]
        /\ pendingCount' = left
        /\ ScheduleCompletion(done, inv)
        /\ signalDrainDone(left)
        /\ UNCHANGED <<currChannel, sendEvent, inRetry, inFlight,
                       numOutstandingRequests>>

(* queueDmaAction followed by sendDma.                                     *)
QueueAndSend(a, phase, inv) ==
    \/ /\ timingMode
       /\ SendDmaTiming(Queued(a, phase), sendEvent)
       /\ pendingCount' = PendingWith(a)
       /\ invalidateEvent' = inv
       /\ UNCHANGED <<numBytes, completionDue, drainState, assertFailed>>
    \/ /\ ~timingMode
       /\ SendDmaAtomic(Queued(a, phase), PendingWith(a), inv)

-----------------------------------------------------------------------------
(*                         Calls and events                                *)

Delays(a) == invalidateOnWrite /\ a \in Writes

(* The device starts a transfer; a delayed write only sends invalidations. *)
dmaAction(a) ==
    /\ a \notin active
    /\ drainState # "Drained"
    /\ SerialWrites /\ Delays(a) => active \cap Writes = {}
    /\ active' = active \cup {a}
    /\ outstandingRequests' = IF Delays(a) THEN Append(outstandingRequests, a)
                                           ELSE outstandingRequests
    /\ QueueAndSend(a, IF Delays(a) THEN "inv" ELSE "data", invalidateEvent)
    /\ UNCHANGED mode

(* The write at the front is sent, whichever invalidation completed.       *)
sendDataAfterInvalidate ==
    /\ invalidateEvent
    /\ outstandingRequests # <<>>
    /\ outstandingRequests' = Tail(outstandingRequests)
    /\ QueueAndSend(Head(outstandingRequests), "data", FALSE)
    /\ UNCHANGED <<active, mode>>

SendUnchanged == UNCHANGED <<pendingCount, outstandingRequests, invalidateEvent,
                             numBytes, completionDue, active, drainState, mode,
                             assertFailed>>

SendEvent ==
    /\ sendEvent /\ timingMode
    /\ SendDmaTiming(transmitList, FALSE)
    /\ SendUnchanged

recvReqRetry ==
    /\ inRetry
    /\ trySendTimingReq(transmitList)
    /\ SendUnchanged

Mut_handleResp(pkt) ==
    LET s == StateOf(pkt)
    IN  /\ numOutstandingRequests' = numOutstandingRequests - 1
        /\ pendingCount' = pendingCount - 1
        /\ numBytes' = [numBytes EXCEPT ![s] = 0]
        /\ ScheduleCompletion({s}, invalidateEvent)
        /\ signalDrainDone(pendingCount')

handleResp(pkt) ==
    LET s == StateOf(pkt)
        done == numBytes[s] + 1 = Chunks[pkt[1]]
    IN  /\ numOutstandingRequests' = numOutstandingRequests - 1
        /\ pendingCount' = pendingCount - 1
        /\ numBytes' = [numBytes EXCEPT ![s] = IF done THEN 0 ELSE @ + 1]
        /\ ScheduleCompletion(IF done THEN {s} ELSE {}, invalidateEvent)
        /\ signalDrainDone(pendingCount')

recvTimingResp(pkt) ==
    /\ pkt \in inFlight
    /\ inFlight' = inFlight \ {pkt}
    /\ handleResp(pkt)
    /\ UNCHANGED <<transmitList, currChannel, sendEvent, inRetry,
                   outstandingRequests, active, mode>>

(* The completion event of a transfer fires; the device may reuse it.      *)
CompletionEvent(a) ==
    /\ a \in completionDue
    /\ completionDue' = completionDue \ {a}
    /\ active' = active \ {a}
    /\ UNCHANGED sendVars
    /\ UNCHANGED <<pendingCount, outstandingRequests, invalidateEvent, numBytes,
                   drainState, mode, assertFailed>>

-----------------------------------------------------------------------------
DrainUnchanged ==
    /\ UNCHANGED sendVars
    /\ UNCHANGED <<pendingCount, outstandingRequests, invalidateEvent, numBytes,
                   completionDue, active, assertFailed>>

(* DrainManager::tryDrain, repeated until every object is drained; a port  *)
(* is asked again only after it has signalled.                             *)
drain ==
    /\ drainState # "Draining"
    /\ drainState' = IF pendingCount = 0 THEN "Drained" ELSE "Draining"
    /\ UNCHANGED mode
    /\ DrainUnchanged

(* The simulation stops, and the memory mode may be switched, only when    *)
(* drain() has just returned Drained in a round where every object did.    *)
AllDrained == drainState = "Drained" /\ pendingCount = 0

Resume ==
    /\ AllDrained
    /\ drainState' = "Running"
    /\ UNCHANGED mode
    /\ DrainUnchanged

setMemoryMode ==
    /\ AllDrained
    /\ timingMode' = ~timingMode
    /\ UNCHANGED <<drainState, invalidateOnWrite>>
    /\ DrainUnchanged

Next ==
    /\ ~assertFailed
    /\ \/ \E a \in Actions : dmaAction(a)
       \/ sendDataAfterInvalidate
       \/ SendEvent
       \/ recvReqRetry
       \/ \E pkt \in inFlight : recvTimingResp(pkt)
       \/ \E a \in Actions : CompletionEvent(a)
       \/ drain
       \/ Resume
       \/ setMemoryMode

Spec == Init /\ [][Next]_vars

SendSucceeds ==
    /\ ~assertFailed
    /\ \/ inRetry
       \/ sendEvent /\ timingMode /\ ~TooManyOutstanding
    /\ TrySendAccepted(transmitList)
    /\ SendUnchanged

(* A scheduled event fires; the memory does not refuse for ever and        *)
(* answers every request.                                                  *)
Fairness ==
    /\ WF_vars(SendSucceeds)
    /\ WF_vars(~assertFailed /\ sendDataAfterInvalidate)
    /\ \A pkt \in Packets : WF_vars(~assertFailed /\ recvTimingResp(pkt))
    /\ \A a \in Actions : WF_vars(~assertFailed /\ CompletionEvent(a))

FairSpec == Spec /\ Fairness

-----------------------------------------------------------------------------
(*                              Properties                                 *)

QueuedPackets == UNION {Elements(transmitList[c]) : c \in Channels}
Pending == QueuedPackets \cup inFlight

(* Type invariant; the two unsigned counters never wrap below zero.        *)
TypeOK ==
    /\ transmitList \in [Channels -> Seq(Packets)]
    /\ currChannel \in Channels
    /\ sendEvent \in BOOLEAN /\ inRetry \in BOOLEAN
    /\ pendingCount \in Nat /\ numOutstandingRequests \in Nat
    /\ outstandingRequests \in Seq(Actions)
    /\ invalidateEvent \in BOOLEAN
    /\ numBytes \in [States -> Nat]
    /\ completionDue \subseteq Actions /\ active \subseteq Actions
    /\ inFlight \subseteq Packets
    /\ drainState \in {"Running", "Draining", "Drained"}
    /\ timingMode \in BOOLEAN /\ invalidateOnWrite \in BOOLEAN
    /\ assertFailed \in BOOLEAN

(* pendingCount, which decides when the port is drained, is the number of  *)
(* packets queued or sent and not answered; those sent stay within         *)
(* maxRequests although a retry sends without looking at the limit.        *)
PendingAccounted ==
    /\ pendingCount = Cardinality(Queue(transmitList)) + Cardinality(inFlight)
    /\ numOutstandingRequests = Cardinality(inFlight)
    /\ numOutstandingRequests <= maxRequests

(* As long as a channel holds a packet, the send event or a retry is due,  *)
(* not both, and the channel it will send from is not an empty one (the    *)
(* assertion of trySendTimingReq), although channels fill and empty in any *)
(* order.                                                                  *)
SenderWakeup ==
    /\ (sendEvent \/ inRetry) <=> \E c \in Channels : transmitList[c] # <<>>
    /\ ~(sendEvent /\ inRetry)
    /\ sendEvent \/ inRetry => transmitList[currChannel] # <<>>

(* When the completion event of a transfer is scheduled, no packet of it   *)
(* is left and it is not among the delayed writes; and no event that is    *)
(* already scheduled is scheduled as a completion event.                   *)
CompletionMeansDone ==
    /\ \A a \in completionDue :
        /\ \A pkt \in Pending : pkt[1] # a
        /\ a \notin Elements(outstandingRequests)
    /\ ~assertFailed

(* The comment in dmaAction: "Delay the dmaAction until all invalidation   *)
(* responses are received."                                                *)
DataAfterInvalidation ==
    \A pkt \in Pending : pkt[2] = "data" =>
        \A inv \in Pending : inv[1] = pkt[1] => inv[2] # "inv"

(* Every transfer completes, whatever other transfers the device keeps     *)
(* starting: no channel starves.                                           *)
TransfersComplete == \A a \in Actions : a \in active ~> a \notin active
=============================================================================
