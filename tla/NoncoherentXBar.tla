--------------------------- MODULE NoncoherentXBar --------------------------
(***************************************************************************)
(* The non-coherent crossbar (src/src/mem/noncoherent_xbar.cc) on the      *)
(* layers of BaseXBar (src/src/mem/xbar.{hh,cc}).  There is a layer per    *)
(* destination port: requests of the masters meet in the layer of a memory *)
(* and responses of the memories in the layer of a master, so a layer is   *)
(* named by its destination.                                               *)
(*                                                                         *)
(* A port that was refused sends nothing until it gets a retry.  When it   *)
(* gets one it may at once send to the same layer; sending elsewhere, or   *)
(* later, is a step of its own.  A memory holds up to MemCapacity packets, *)
(* refuses more and then owes a retry.  The crossbar's slave ports queue   *)
(* responses without limit.                                                *)
(***************************************************************************)
EXTENDS Queues, FiniteSets

CONSTANTS
    Masters, Memories,  \* the peers of the slave and of the master ports
    Packets,
    Src, Dst,           \* [Packets -> Masters], [Packets -> Memories]
    NeedsResponse,      \* the packets that expect a response
    MemCapacity,
    DrainedLayers       \* the layers that are asked to drain (a bound)

ASSUME XBarAssumption ==
    /\ IsFiniteSet(Packets) /\ Masters \cap Memories = {}
    /\ Src \in [Packets -> Masters] /\ Dst \in [Packets -> Memories]
    /\ NeedsResponse \subseteq Packets
    /\ MemCapacity \in Nat \ {0} /\ DrainedLayers \subseteq Masters \cup Memories

VARIABLES
    state,              \* of each layer: IDLE or BUSY; RETRY only lasts
                        \* inside retryWaiting
    waitingForLayer,    \* of each layer: ports to retry, in order
    waitingForPeer,     \* of each layer: {} or {port refused by the peer}
    releaseEvent,       \* of each layer: releaseEvent.scheduled()
    drainState,         \* of each layer
    routeTo,            \* where the responses under way go
    inMemory,           \* packets held by each memory
    refused,            \* ports that wait for a retry
    owesRetry           \* memories that have refused a packet

layerVars == <<state, waitingForLayer, waitingForPeer, releaseEvent>>
vars == <<state, waitingForLayer, waitingForPeer, releaseEvent, drainState,
          routeTo, inMemory, refused, owesRetry>>

Ports == Masters \cup Memories
Layers == Ports

Init ==
    /\ state = [l \in Layers |-> "IDLE"]
    /\ waitingForLayer = [l \in Layers |-> <<>>]
    /\ waitingForPeer = [l \in Layers |-> {}]
    /\ releaseEvent = [l \in Layers |-> FALSE]
    /\ drainState = [l \in Layers |-> "Running"]
    /\ routeTo = <<>>
    /\ inMemory = [s \in Memories |-> {}]
    /\ refused = {} /\ owesRetry = {}

-----------------------------------------------------------------------------
(*                         Sending through a layer                         *)

InFlight == UNION {inMemory[s] : s \in Memories}

(* What a port has to send, and the layer it goes through.                 *)
ToSend(p) == IF p \in Masters THEN {x \in Packets \ InFlight : Src[x] = p}
                              ELSE inMemory[p] \cap NeedsResponse
LayerOf(p, x) == IF p \in Masters THEN Dst[x] ELSE routeTo[x]

HasRoom(s) == Cardinality(inMemory[s]) < MemCapacity

(* occupyLayer: the layer is busy until its release event.                 *)
occupyLayer(l) ==
    /\ state' = [state EXCEPT ![l] = "BUSY"]
    /\ releaseEvent' = [releaseEvent EXCEPT ![l] = TRUE]

(* recvTimingReq once the layer is taken: the memory accepts the packet    *)
(* (succeededTiming) ...                                                   *)
RequestAccepted(m, x, ref, owe) ==
    /\ m \in Masters /\ HasRoom(Dst[x])
    /\ inMemory' = [inMemory EXCEPT ![Dst[x]] = @ \cup {x}]
    /\ routeTo' = IF x \in NeedsResponse
                  THEN [y \in DOMAIN routeTo \cup {x} |->
                          IF y = x THEN m ELSE routeTo[y]]
                  ELSE routeTo
    /\ waitingForPeer' = [waitingForPeer EXCEPT ![Dst[x]] = {}]
    /\ refused' = ref /\ owesRetry' = owe

(* ... or refuses it (failedTiming).                                       *)
RequestRefused(m, x, ref, owe) ==
    /\ m \in Masters /\ ~HasRoom(Dst[x])
    /\ waitingForPeer' = [waitingForPeer EXCEPT ![Dst[x]] = {m}]
    /\ refused' = ref \cup {m}
    /\ owesRetry' = owe \cup {Dst[x]}
    /\ UNCHANGED <<inMemory, routeTo>>

(* recvTimingResp once the layer is taken: the response is queued for the  *)
(* master and the route forgotten.                                         *)
ResponseAccepted(s, x, ref, owe) ==
    /\ s \in Memories
    /\ inMemory' = [inMemory EXCEPT ![s] = @ \ {x}]
    /\ routeTo' = [y \in DOMAIN routeTo \ {x} |-> routeTo[y]]
    /\ waitingForPeer' = [waitingForPeer EXCEPT ![routeTo[x]] = {}]
    /\ refused' = ref /\ owesRetry' = owe

(* ref and owe are the refused ports and the memories that owe a retry,    *)
(* without those of a retry that is being handled.  Nobody waits for the   *)
(* peer of a layer that is taken.                                          *)
Forward(p, x, ref, owe) ==
    /\ occupyLayer(LayerOf(p, x))
    /\ \/ RequestAccepted(p, x, ref, owe)
       \/ RequestRefused(p, x, ref, owe)
       \/ ResponseAccepted(p, x, ref, owe)

Mut_Occupied(l) == state[l] = "BUSY"

(* tryTiming: the layer is busy, or waits for its peer.                    *)
Occupied(l) == state[l] = "BUSY" \/ waitingForPeer[l] # {}

(* recvTimingReq or recvTimingResp: the port is queued ...                 *)
SendRefused(p, x) ==
    LET l == LayerOf(p, x)
    IN  /\ p \notin refused /\ x \in ToSend(p)
        /\ Occupied(l)
        /\ waitingForLayer' = [waitingForLayer EXCEPT ![l] = Append(@, p)]
        /\ refused' = refused \cup {p}
        /\ UNCHANGED <<state, waitingForPeer, releaseEvent, drainState, routeTo,
                       inMemory, owesRetry>>

(* ... or takes the layer.                                                 *)
Send(p, x) ==
    /\ p \notin refused /\ x \in ToSend(p)
    /\ ~Occupied(LayerOf(p, x))
    /\ Forward(p, x, refused, owesRetry)
    /\ UNCHANGED <<waitingForLayer, drainState>>

-----------------------------------------------------------------------------
(*                          Retries and events                             *)

PopFront(queue) == Tail(queue)

(* retryWaiting on the ports in `queue`: the first is told to retry and    *)
(* sends in zero time, or the layer stays busy for a cycle.  A memory uses *)
(* its retry (SimpleMemory::recvRespRetry, PacketQueue::retry); a master   *)
(* may not ("the cache does this when a writeback is squashed").           *)
retryWaiting(l, queue, owe) ==
    LET p == Head(queue)
    IN  /\ waitingForLayer' = [waitingForLayer EXCEPT ![l] = PopFront(queue)]
        /\ \/ \E x \in ToSend(p) :
                /\ LayerOf(p, x) = l
                /\ Forward(p, x, refused \ {p}, owe)
           \/ /\ p \in Masters /\ occupyLayer(l)
              /\ waitingForPeer' = [waitingForPeer EXCEPT ![l] = {}]
              /\ refused' = refused \ {p} /\ owesRetry' = owe
              /\ UNCHANGED <<routeTo, inMemory>>

Mut_MayRetry(l) == Len(waitingForLayer[l]) > 1 /\ waitingForPeer[l] = {}

(* No port is retried while one waits for the peer.                        *)
MayRetry(l) == waitingForLayer[l] # <<>> /\ waitingForPeer[l] = {}

Mut_signalDrainDone(l) == UNCHANGED drainState

(* The layer signals only when it is free and nobody waits.                *)
signalDrainDone(l) ==
    drainState' = [drainState EXCEPT ![l] =
        IF @ = "Draining" /\ waitingForLayer[l] = <<>> /\ waitingForPeer[l] = {}
        THEN "Drained" ELSE @]

releaseLayer(l) ==
    /\ releaseEvent[l]
    /\ \/ /\ MayRetry(l)
          /\ retryWaiting(l, waitingForLayer[l], owesRetry)
          /\ UNCHANGED drainState
       \/ /\ ~MayRetry(l)
          /\ state' = [state EXCEPT ![l] = "IDLE"]
          /\ releaseEvent' = [releaseEvent EXCEPT ![l] = FALSE]
          /\ signalDrainDone(l)
          /\ UNCHANGED <<waitingForLayer, waitingForPeer, routeTo, inMemory,
                         refused, owesRetry>>

Mut_WithPeer(s) == waitingForLayer[s] \o <<CHOOSE p \in waitingForPeer[s] : TRUE>>

(* The port the memory refused goes before all others.                     *)
WithPeer(s) == <<CHOOSE p \in waitingForPeer[s] : TRUE>> \o waitingForLayer[s]

(* A memory with room again sends its retry.                               *)
recvReqRetry(s) ==
    /\ s \in owesRetry /\ HasRoom(s)
    /\ waitingForPeer[s] # {}
    /\ \/ /\ state[s] = "IDLE"
          /\ retryWaiting(s, WithPeer(s), owesRetry \ {s})
       \/ /\ state[s] = "BUSY"
          /\ waitingForLayer' = [waitingForLayer EXCEPT ![s] = WithPeer(s)]
          /\ waitingForPeer' = [waitingForPeer EXCEPT ![s] = {}]
          /\ owesRetry' = owesRetry \ {s}
          /\ UNCHANGED <<state, releaseEvent, routeTo, inMemory, refused>>
    /\ UNCHANGED drainState

(* A memory is done with a packet that has no response.                    *)
Absorb(s, x) ==
    /\ x \in inMemory[s] \ NeedsResponse
    /\ inMemory' = [inMemory EXCEPT ![s] = @ \ {x}]
    /\ UNCHANGED layerVars
    /\ UNCHANGED <<drainState, routeTo, refused, owesRetry>>

(* DrainManager asks a layer again only after it has signalled.            *)
drain(l) ==
    /\ drainState[l] # "Draining"
    /\ drainState' = [drainState EXCEPT ![l] = IF state[l] # "IDLE" THEN "Draining"
                                                                    ELSE "Drained"]
    /\ UNCHANGED layerVars
    /\ UNCHANGED <<routeTo, inMemory, refused, owesRetry>>

(* dmDrainResume, which asserts that the layer has drained.                *)
Resume(l) ==
    /\ drainState[l] = "Drained"
    /\ drainState' = [drainState EXCEPT ![l] = "Running"]
    /\ UNCHANGED layerVars
    /\ UNCHANGED <<routeTo, inMemory, refused, owesRetry>>

Next ==
    \/ \E p \in Ports : \E x \in Packets : SendRefused(p, x) \/ Send(p, x)
    \/ \E l \in Layers : releaseLayer(l)
    \/ \E l \in DrainedLayers : drain(l) \/ Resume(l)
    \/ \E s \in Memories : recvReqRetry(s)
    \/ \E s \in Memories : \E x \in inMemory[s] : Absorb(s, x)

Spec == Init /\ [][Next]_vars

(* Scheduled events happen; a memory answers what it holds, and retries    *)
(* what it refused when it has room.  Masters need not send anything, not  *)
(* even when they are retried.                                             *)
Fairness ==
    /\ \A l \in Layers : WF_vars(releaseLayer(l))
    /\ \A s \in Memories :
         /\ WF_vars(recvReqRetry(s))
         /\ WF_vars(\E x \in Packets : SendRefused(s, x) \/ Send(s, x))
         /\ WF_vars(\E x \in inMemory[s] : Absorb(s, x))

FairSpec == Spec /\ Fairness

-----------------------------------------------------------------------------
(*                              Properties                                 *)

Waiting(l) == Elements(waitingForLayer[l]) \cup waitingForPeer[l]

(* The types.  Masters wait in the layers of memories, memories in those   *)
(* of masters, no more of them than there are, and nobody waits for a      *)
(* master: "responses never block on forwarding them" (recvReqRetry).      *)
(* The routes kept are those of the responses under way (the assertions of *)
(* recvTimingReq and recvTimingResp).                                      *)
TypeOK ==
    /\ state \in [Layers -> {"IDLE", "BUSY"}]
    /\ waitingForLayer \in [Layers -> Seq(Ports)]
    /\ waitingForPeer \in [Layers -> SUBSET Ports]
    /\ releaseEvent \in [Layers -> BOOLEAN]
    /\ drainState \in [Layers -> {"Running", "Draining", "Drained"}]
    /\ inMemory \in [Memories -> SUBSET Packets]
    /\ routeTo \in [InFlight \cap NeedsResponse -> Masters]
    /\ refused \subseteq Ports /\ owesRetry \subseteq Memories
    /\ \A s \in Memories : Waiting(s) \subseteq Masters
    /\ \A m \in Masters : Waiting(m) \subseteq Memories /\ waitingForPeer[m] = {}
    /\ \A l \in Layers : Len(waitingForLayer[l]) <= Cardinality(Ports)

(* A port that was refused waits in exactly one place of exactly one       *)
(* layer, which will retry it, and a port that may send waits nowhere: the *)
(* assertion of tryTiming, "the port should not be waiting already", and   *)
(* the one of failedTiming.                                                *)
RefusedWaitOnce ==
    /\ \A l \in Layers :
         /\ Distinct(waitingForLayer[l])
         /\ Cardinality(waitingForPeer[l]) <= 1
         /\ Elements(waitingForLayer[l]) \cap waitingForPeer[l] = {}
         /\ Waiting(l) \subseteq refused
    /\ \A p \in refused : \E l \in Layers :
         p \in Waiting(l) /\ \A k \in Layers \ {l} : p \notin Waiting(k)

(* A layer in which somebody waits has a wake-up due: its release event,   *)
(* or a retry that the memory owes it; and it waits for its peer exactly   *)
(* when the peer owes a retry (the assertion of recvRetry).                *)
WaitersHaveWakeup ==
    \A l \in Layers :
        /\ (state[l] = "BUSY") <=> releaseEvent[l]
        /\ (waitingForPeer[l] # {}) <=> (l \in owesRetry)
        /\ waitingForLayer[l] # <<>> => releaseEvent[l] \/ l \in owesRetry

(* Every refused port is retried, whatever the others keep sending, even   *)
(* ports that do not use their retry.                                      *)
RefusedAreRetried == \A p \in Ports : p \in refused ~> p \notin refused

(* A layer that was busy when asked to drain signals that it is done,      *)
(* through every retry still to come, unless the masters keep sending      *)
(* packets of their own accord.                                            *)
DrainCompletes ==
    \A l \in Layers :
        <>[](drainState[l] = "Draining") =>
            []<><<\E m \in Masters : \E x \in Packets : SendRefused(m, x) \/ Send(m, x)>>_vars
=============================================================================
