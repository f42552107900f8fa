------------------------------- MODULE Bridge -------------------------------
(***************************************************************************)
(* The memory-mapped bridge (src/src/mem/bridge.{hh,cc}).                  *)
(*                                                                         *)
(* A bridge joins two crossbars.  Its slave port receives requests from    *)
(* the upstream master and sends it responses; its master port forwards    *)
(* requests to the downstream slave and receives responses.  Buffer space  *)
(* for the response is reserved when the request is accepted; a request    *)
(* that finds no space is refused, and the bridge then owes its sender a   *)
(* retry.                                                                  *)
(*                                                                         *)
(* The delay of a deferred packet is abstracted: a scheduled sendEvent may *)
(* fire at any later step.  The two peers are external; they follow the    *)
(* timing protocol of port.hh: who refuses a packet owes a retry.          *)
(***************************************************************************)
EXTENDS Queues, FiniteSets

CONSTANTS
    Packets,         \* the packets (request and its response are one object)
    NeedsResponse,   \* the packets whose request expects a response
    ReqQueueLimit,   \* reqQueueLimit, Param req_size
    RespQueueLimit   \* respQueueLimit, Param resp_size

ASSUME BridgeAssumption ==
    /\ IsFiniteSet(Packets)
    /\ NeedsResponse \subseteq Packets
    /\ ReqQueueLimit \in Nat \ {0}
    /\ RespQueueLimit \in Nat \ {0}

VARIABLES
    reqList,         \* BridgeMasterPort::transmitList
    respList,        \* BridgeSlavePort::transmitList
    outstandingResponses,
    retryReq,        \* a request was refused and its sender is owed a retry
    reqSendEvent,    \* BridgeMasterPort::sendEvent.scheduled()
    respSendEvent,   \* BridgeSlavePort::sendEvent.scheduled()
    masterWaiting,   \* upstream master: refused, waits for recvReqRetry
    respRefused,     \* upstream master: refused our response, owes a retry
    reqRefused,      \* downstream slave: refused our request, owes a retry
    atSlave          \* requests the downstream slave has yet to answer

peerVars == <<masterWaiting, respRefused, reqRefused, atSlave>>
vars == <<reqList, respList, outstandingResponses, retryReq, reqSendEvent,
          respSendEvent, masterWaiting, respRefused, reqRefused, atSlave>>

(* A packet the upstream master may (re)issue: it is neither in the bridge *)
(* nor at the slave.                                                       *)
Idle == Packets \ (Elements(reqList) \cup Elements(respList) \cup atSlave)

Init ==
    /\ reqList = <<>> /\ respList = <<>>
    /\ outstandingResponses = 0
    /\ retryReq = FALSE
    /\ reqSendEvent = FALSE /\ respSendEvent = FALSE
    /\ masterWaiting = FALSE /\ respRefused = FALSE
    /\ reqRefused = FALSE /\ atSlave = {}

-----------------------------------------------------------------------------
(*                     Receiving requests and responses                    *)

reqQueueFull == Len(reqList) = ReqQueueLimit

Mut_respQueueFull == Len(respList) = RespQueueLimit

respQueueFull == outstandingResponses = RespQueueLimit

(* recvTimingReq returns true: no retry is owed yet and there is space for *)
(* the request and, if it expects one, for the response.                   *)
Accepts(p) ==
    /\ ~retryReq
    /\ ~reqQueueFull
    /\ p \in NeedsResponse => ~respQueueFull

Reserved(p) == IF p \in NeedsResponse THEN 1 ELSE 0

(* schedTimingReq: a packet put at the head gets an event to send it.      *)
schedTimingReq(p) ==
    /\ reqList' = Append(reqList, p)
    /\ reqSendEvent' = (reqSendEvent \/ reqList = <<>>)

schedTimingResp(p) ==
    /\ respList' = Append(respList, p)
    /\ respSendEvent' = (respSendEvent \/ respList = <<>>)

(* The upstream master sends a request and the bridge takes it.            *)
RecvTimingReqAccept(p) ==
    /\ p \in Idle
    /\ Accepts(p)
    /\ outstandingResponses' = outstandingResponses + Reserved(p)
    /\ schedTimingReq(p)
    /\ UNCHANGED <<respList, retryReq, respSendEvent>>
    /\ UNCHANGED peerVars

(* The bridge is full, or already owes a retry (a CPU may send again while *)
(* it waits): it refuses and remembers that it owes a retry.               *)
RecvTimingReqRefuse(p) ==
    /\ p \in Idle
    /\ ~Accepts(p)
    /\ retryReq' = TRUE
    /\ masterWaiting' = TRUE
    /\ UNCHANGED <<reqList, respList, outstandingResponses, reqSendEvent,
                   respSendEvent, respRefused, reqRefused, atSlave>>

(* The downstream slave answers a request, in any order; recvTimingResp    *)
(* never refuses.                                                          *)
RecvTimingResp(p) ==
    /\ p \in atSlave
    /\ atSlave' = atSlave \ {p}
    /\ schedTimingResp(p)
    /\ UNCHANGED <<reqList, outstandingResponses, retryReq, reqSendEvent,
                   masterWaiting, respRefused, reqRefused>>

-----------------------------------------------------------------------------
(* BridgeMasterPort::trySendTiming, run as the sendEvent and from          *)
(* recvReqRetry when the slave honours the retry it owes.                  *)

Mut_retryStalledReq ==
    /\ retryReq' = FALSE
    /\ UNCHANGED masterWaiting

(* The retry that is owed, if any, is sent.                                *)
retryStalledReq ==
    /\ retryReq' = FALSE
    /\ masterWaiting' = (masterWaiting /\ ~retryReq)

Mut_moreToSend(list) == FALSE

(* After a pop: another packet is queued, so its event is scheduled.       *)
moreToSend(list) == Len(list) > 1

popFront(list) == Tail(list)

(* The slave takes the head request.                                       *)
MasterTrySendTiming ==
    /\ reqSendEvent \/ reqRefused
    /\ reqList' = popFront(reqList)
    /\ atSlave' = atSlave \cup ({Head(reqList)} \cap NeedsResponse)
    /\ reqSendEvent' = moreToSend(reqList)
    /\ reqRefused' = FALSE
    /\ retryStalledReq
    /\ UNCHANGED <<respList, outstandingResponses, respSendEvent, respRefused>>

(* The slave refuses it: the bridge waits for the slave's retry.           *)
MasterTrySendTimingRefused ==
    /\ reqSendEvent \/ reqRefused
    /\ reqSendEvent' = FALSE
    /\ reqRefused' = TRUE
    /\ UNCHANGED <<reqList, respList, outstandingResponses, retryReq,
                   respSendEvent, masterWaiting, respRefused, atSlave>>

-----------------------------------------------------------------------------
(* BridgeSlavePort::trySendTiming, run as the sendEvent and from           *)
(* recvRespRetry.                                                          *)

Mut_SpaceForRetry == TRUE

Mut_NoSpaceForRetry == FALSE

(* !masterPort.reqQueueFull(), asked once the response is gone.            *)
SpaceForRetry == Len(reqList') # ReqQueueLimit

(* The master took the head response; `stalled`: it also sent a request    *)
(* from inside its recvTimingResp and the bridge refused that one.         *)
RespSent(stalled) ==
    LET retry == (retryReq \/ stalled) /\ SpaceForRetry
    IN  /\ respSendEvent \/ respRefused
        /\ respList' = popFront(respList)
        /\ respSendEvent' = moreToSend(respList)
        /\ retryReq' = ((retryReq \/ stalled) /\ ~retry)
        /\ masterWaiting' = ((masterWaiting \/ stalled) /\ ~retry)
        /\ respRefused' = FALSE
        /\ UNCHANGED <<reqRefused, atSlave>>

SlaveTrySendTiming ==
    /\ UNCHANGED <<reqList, reqSendEvent>>
    /\ outstandingResponses' = outstandingResponses - 1
    /\ RespSent(FALSE)

(* From inside its recvTimingResp the master sends a new request.  That    *)
(* recvTimingReq runs before the response is popped and its reservation    *)
(* released, and is decided on the state it finds.                         *)
SlaveTrySendTimingNestedAccept(p) ==
    /\ p \in Idle
    /\ Accepts(p)
    /\ schedTimingReq(p)
    /\ outstandingResponses' = (outstandingResponses + Reserved(p)) - 1
    /\ RespSent(FALSE)

SlaveTrySendTimingNestedRefuse(p) ==
    /\ p \in Idle
    /\ ~Accepts(p)
    /\ UNCHANGED <<reqList, reqSendEvent>>
    /\ outstandingResponses' = outstandingResponses - 1
    /\ RespSent(TRUE)

(* The master refuses the response.                                        *)
SlaveTrySendTimingRefused ==
    /\ respSendEvent \/ respRefused
    /\ respSendEvent' = FALSE
    /\ respRefused' = TRUE
    /\ UNCHANGED <<reqList, respList, outstandingResponses, retryReq,
                   reqSendEvent, masterWaiting, reqRefused, atSlave>>

-----------------------------------------------------------------------------
RespDelivered ==
    \/ SlaveTrySendTiming
    \/ \E p \in Packets : SlaveTrySendTimingNestedAccept(p)
    \/ \E p \in Packets : SlaveTrySendTimingNestedRefuse(p)

Next ==
    \/ \E p \in Packets : RecvTimingReqAccept(p)
    \/ \E p \in Packets : RecvTimingReqRefuse(p)
    \/ \E p \in Packets : RecvTimingResp(p)
    \/ MasterTrySendTiming
    \/ MasterTrySendTimingRefused
    \/ RespDelivered
    \/ SlaveTrySendTimingRefused

Spec == Init /\ [][Next]_vars

(* A scheduled event fires; a peer that refused honours the retry it owes  *)
(* and does not refuse the same packet for ever; the slave answers.        *)
Fairness ==
    /\ WF_vars(MasterTrySendTiming)
    /\ WF_vars(RespDelivered)
    /\ \A p \in Packets : WF_vars(RecvTimingResp(p))

FairSpec == Spec /\ Fairness

-----------------------------------------------------------------------------
(*                               Properties                                *)

(* Type invariant of the bridge and its two peers; outstandingResponses is *)
(* unsigned in the code, so it must never be decremented at zero           *)
(* (the assert in BridgeSlavePort::trySendTiming).                         *)
TypeOK ==
    /\ reqList \in Seq(Packets)
    /\ respList \in Seq(Packets)
    /\ outstandingResponses \in Nat
    /\ retryReq \in BOOLEAN
    /\ reqSendEvent \in BOOLEAN
    /\ respSendEvent \in BOOLEAN
    /\ masterWaiting \in BOOLEAN
    /\ respRefused \in BOOLEAN
    /\ reqRefused \in BOOLEAN
    /\ atSlave \subseteq NeedsResponse

(* The packets the bridge owes a response slot.                            *)
InFlight ==
    (Elements(reqList) \cap NeedsResponse) \cup atSlave \cup Elements(respList)

(* A packet is in one place only: a send pops what it sent, a refused send *)
(* keeps it, and the response of a request is queued once.                 *)
PacketsOnce ==
    /\ Distinct(reqList)
    /\ Distinct(respList)
    /\ Elements(respList) \subseteq NeedsResponse
    /\ Elements(reqList) \cap Elements(respList) = {}
    /\ Elements(reqList) \cap atSlave = {}
    /\ Elements(respList) \cap atSlave = {}

(* outstandingResponses counts exactly the requests accepted and not yet   *)
(* answered, and stays within the limit: recvTimingResp, which never       *)
(* refuses, always finds the space it says it is guaranteed, and the       *)
(* request queue stays within its own limit.                               *)
ResponseSpaceReserved ==
    /\ outstandingResponses = Cardinality(InFlight)
    /\ outstandingResponses <= RespQueueLimit
    /\ Len(respList) <= outstandingResponses
    /\ Len(reqList) <= ReqQueueLimit

(* A queue is non-empty exactly when one, and only one, wake-up is due for *)
(* its head: its sendEvent, or the peer's retry.  None: the queue is       *)
(* stuck.  Both: recvReqRetry/recvRespRetry would schedule a scheduled     *)
(* event.  One for an empty queue: trySendTiming's assert fails.           *)
HeadHasOneWakeup ==
    /\ reqSendEvent \/ reqRefused <=> reqList # <<>>
    /\ respSendEvent \/ respRefused <=> respList # <<>>
    /\ ~(reqSendEvent /\ reqRefused)
    /\ ~(respSendEvent /\ respRefused)

(* A master that was refused is always on record in retryReq, and some     *)
(* packet is still in the bridge whose sending will trigger its retry.     *)
NoLostRetry ==
    /\ masterWaiting <=> retryReq
    /\ retryReq => reqList # <<>> \/ InFlight # {}

(* The comment in BridgeSlavePort::trySendTiming: when sending a response  *)
(* releases a stalled master, its request "will definitely be possible to  *)
(* accept", whichever request it is.                                       *)
RetryAfterResponseSucceeds ==
    [][(masterWaiting /\ ~masterWaiting' /\ Len(respList') < Len(respList))
       => \A p \in Packets : Accepts(p)']_vars

(* A stalled master is eventually told to retry, and every request the     *)
(* bridge took is eventually forwarded and, if it expects a response,      *)
(* answered.                                                               *)
RequestsComplete ==
    /\ masterWaiting ~> ~masterWaiting
    /\ \A p \in Packets : p \in Elements(reqList) ~> p \in Idle
=============================================================================
