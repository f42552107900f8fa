----------------------------- MODULE XBarProofs -----------------------------
(***************************************************************************)
(* The safety of the crossbar for any masters, memories, packets and       *)
(* memory capacity.                                                        *)
(*                                                                         *)
(* A step changes one layer.  RefusedWaitOnce is kept when a port joins    *)
(* those that wait in the layer and becomes refused, leaves both, or stays *)
(* in both; WaitersHaveWakeup says when the layer has somebody to wake     *)
(* them.  Which layer a response takes is known only because the routes    *)
(* are those of the packets the memories hold (Routed).                    *)
(***************************************************************************)
EXTENDS NoncoherentXBar, QueueLemmas, FiniteSetTheorems

Typed ==
    /\ state \in [Layers -> {"IDLE", "BUSY"}]
    /\ waitingForLayer \in [Layers -> Seq(Ports)]
    /\ waitingForPeer \in [Layers -> SUBSET Ports]
    /\ releaseEvent \in [Layers -> BOOLEAN]
    /\ inMemory \in [Memories -> SUBSET Packets]
    /\ refused \in SUBSET Ports /\ owesRetry \in SUBSET Memories

(* The assertions on routeTo in recvTimingReq and recvTimingResp: a route  *)
(* is kept for exactly the packets under way that expect a response, and   *)
(* leads back to the master that sent the packet.                          *)
Routed ==
    /\ \A s \in Memories : \A x \in inMemory[s] : Dst[x] = s
    /\ DOMAIN routeTo = InFlight \cap NeedsResponse
    /\ \A x \in DOMAIN routeTo : routeTo[x] = Src[x]

(* A queue of waiting ports and the port that waits for the peer.          *)
Formed(q, w) ==
    /\ Distinct(q)
    /\ w = {} \/ \E p \in Ports : w = {p}
    /\ Elements(q) \cap w = {}

Waits ==
    /\ \A l \in Layers : Formed(waitingForLayer[l], waitingForPeer[l])
    /\ \A l \in Layers : Waiting(l) \subseteq refused
    /\ \A p \in refused : \E l \in Layers : p \in Waiting(l)
    /\ \A l, k \in Layers : l # k => Waiting(l) \cap Waiting(k) = {}

Inv == Typed /\ Routed /\ Waits /\ WaitersHaveWakeup

(* A step that changes the layer l only.                                   *)
LayerStep(l, q, w, st, ref, owe) ==
    /\ waitingForLayer' = [waitingForLayer EXCEPT ![l] = q]
    /\ waitingForPeer' = [waitingForPeer EXCEPT ![l] = w]
    /\ state' = [state EXCEPT ![l] = st]
    /\ releaseEvent' = [releaseEvent EXCEPT ![l] = (st = "BUSY")]
    /\ refused' = ref /\ owesRetry' = owe

(* What becomes of the ports that wait in l: p joins them, leaves them, or *)
(* nothing changes.                                                        *)
Moved(l, q, w, ref, p) ==
    \/ Elements(q) \cup w = Waiting(l) \cup {p} /\ p \notin refused
       /\ ref = refused \cup {p}
    \/ Elements(q) \cup w = Waiting(l) \ {p} /\ p \in Waiting(l)
       /\ ref = refused \ {p}
    \/ Elements(q) \cup w = Waiting(l) /\ ref = refused

(* The layer l, left with q, w and st, has a wake-up for those who wait.   *)
Woken(l, q, w, st, owe) ==
    /\ st \in {"IDLE", "BUSY"}
    /\ (w # {}) <=> (l \in owe)
    /\ q # <<>> => st = "BUSY" \/ l \in owe
    /\ owe \subseteq owesRetry \cup ({l} \cap Memories)
    /\ owesRetry \subseteq owe \cup {l}

(* Such a step keeps the types ...                                         *)
LEMMA StepTyped ==
    ASSUME Typed, inMemory' \in [Memories -> SUBSET Packets], NEW l \in Layers,
           NEW q \in Seq(Ports), NEW w \in SUBSET Ports, NEW st, NEW ref, NEW owe,
           NEW p \in Ports,
           LayerStep(l, q, w, st, ref, owe), Moved(l, q, w, ref, p),
           Woken(l, q, w, st, owe)
    PROVE  Typed'
<1>1. ref \in SUBSET Ports
  BY Zenon DEF Typed, Moved
<1>2. owe \in SUBSET Memories /\ st \in {"IDLE", "BUSY"}
  BY DEF Typed, Woken
<1> QED  BY <1>1, <1>2 DEF Typed, LayerStep

(* ... the places where ports wait ...                                     *)
LEMMA StepWaits ==
    ASSUME Typed, Waits, NEW l \in Layers,
           NEW q \in Seq(Ports), NEW w \in SUBSET Ports, NEW st, NEW ref, NEW owe,
           NEW p \in Ports, Formed(q, w),
           LayerStep(l, q, w, st, ref, owe), Moved(l, q, w, ref, p)
    PROVE  Waits'
<1>1. /\ waitingForLayer'[l] = q /\ waitingForPeer'[l] = w
      /\ \A k \in Layers : k # l => /\ waitingForLayer'[k] = waitingForLayer[k]
                                    /\ waitingForPeer'[k] = waitingForPeer[k]
  BY DEF LayerStep, Typed
<1>2. Waiting(l)' = Elements(q) \cup w
  BY <1>1, Zenon DEF Waiting
<1>3. \A k \in Layers : k # l => Waiting(k)' = Waiting(k)
  BY <1>1, Zenon DEF Waiting
<1>4. refused' = ref
  BY DEF LayerStep
<1>5. \A k \in Layers : Formed(waitingForLayer[k], waitingForPeer[k])'
  <2> SUFFICES ASSUME NEW k \in Layers
               PROVE  Formed(waitingForLayer'[k], waitingForPeer'[k])
    BY Zenon DEF Formed
  <2>1. CASE k = l  BY <2>1, <1>1, Zenon
  <2>2. CASE k # l  BY <2>2, <1>1, Zenon DEF Waits
  <2> QED  BY <2>1, <2>2
<1>6. /\ \A k \in Layers : Waiting(k) \subseteq refused
      /\ \A r \in refused : \E k \in Layers : r \in Waiting(k)
      /\ \A j, k \in Layers : j # k => Waiting(j) \cap Waiting(k) = {}
  BY Zenon DEF Waits
<1>7. \A k \in Layers : k # l /\ p \in Waiting(l) => p \notin Waiting(k)
  BY <1>6
<1>8. \A k \in Layers : Waiting(k)' \subseteq refused'
  <2> SUFFICES ASSUME NEW k \in Layers PROVE Waiting(k)' \subseteq refused'
    OBVIOUS
  <2>1. CASE k = l  BY <2>1, <1>2, <1>4, <1>6 DEF Moved
  <2>2. CASE k # l  BY <2>2, <1>3, <1>4, <1>6, <1>7 DEF Moved
  <2> QED  BY <2>1, <2>2
<1>9. \A r \in refused' : \E k \in Layers : r \in Waiting(k)'
  <2> SUFFICES ASSUME NEW r \in ref PROVE \E k \in Layers : r \in Waiting(k)'
    BY <1>4
  <2>1. CASE r \in refused
    <3>1. PICK k \in Layers : r \in Waiting(k)
      BY <2>1, <1>6, Zenon
    <3>2. CASE k # l  BY <3>1, <3>2, <1>3, Zenon
    <3>3. CASE k = l
      <4>1. r \in Waiting(l)'
        BY <3>1, <3>3, <1>2 DEF Moved
      <4> QED  BY <4>1
    <3> QED  BY <3>2, <3>3
  <2>2. CASE r \notin refused
    <3>1. r \in Waiting(l)'
      BY <2>2, <1>2 DEF Moved
    <3> QED  BY <3>1
  <2> QED  BY <2>1, <2>2
<1>10. \A j, k \in Layers : j # k => Waiting(j)' \cap Waiting(k)' = {}
  <2>1. ASSUME NEW k \in Layers, k # l PROVE Waiting(l)' \cap Waiting(k)' = {}
    <3>1. Waiting(l) \cap Waiting(k) = {} /\ Waiting(k) \subseteq refused
      BY <2>1, <1>6, Zenon
    <3> QED  BY <3>1, <2>1, <1>2, <1>3 DEF Moved
  <2>2. ASSUME NEW j \in Layers, NEW k \in Layers, j # k, j # l, k # l
        PROVE  Waiting(j)' \cap Waiting(k)' = {}
    BY <2>2, <1>3, <1>6, Zenon
  <2> QED  BY <2>1, <2>2
<1> QED  BY <1>5, <1>8, <1>9, <1>10, Zenon DEF Waits

(* ... and their wake-ups.                                                 *)
LEMMA StepWoken ==
    ASSUME Typed, WaitersHaveWakeup, NEW l \in Layers,
           NEW q \in Seq(Ports), NEW w \in SUBSET Ports, NEW st, NEW ref, NEW owe,
           LayerStep(l, q, w, st, ref, owe), Woken(l, q, w, st, owe)
    PROVE  WaitersHaveWakeup'
<1> SUFFICES ASSUME NEW k \in Layers
             PROVE  /\ (state'[k] = "BUSY") <=> releaseEvent'[k]
                    /\ (waitingForPeer'[k] # {}) <=> (k \in owesRetry')
                    /\ waitingForLayer'[k] # <<>> => releaseEvent'[k] \/ k \in owesRetry'
  BY Zenon DEF WaitersHaveWakeup
<1>1. CASE k = l
  BY <1>1, Zenon DEF LayerStep, Woken, Typed
<1>2. CASE k # l
  <2>1. /\ waitingForLayer'[k] = waitingForLayer[k]
        /\ waitingForPeer'[k] = waitingForPeer[k]
        /\ state'[k] = state[k] /\ releaseEvent'[k] = releaseEvent[k]
    BY <1>2 DEF LayerStep, Typed
  <2>2. k \in owesRetry' <=> k \in owesRetry
    BY <1>2 DEF LayerStep, Woken
  <2> QED  BY <2>1, <2>2, Zenon DEF WaitersHaveWakeup
<1> QED  BY <1>1, <1>2

(* The three together, for a step that keeps the routes.                   *)
LEMMA StepInv ==
    ASSUME Inv, Routed', inMemory' \in [Memories -> SUBSET Packets], NEW l \in Layers,
           NEW q \in Seq(Ports), NEW w \in SUBSET Ports, NEW st, NEW ref, NEW owe,
           NEW p \in Ports, Formed(q, w),
           LayerStep(l, q, w, st, ref, owe), Moved(l, q, w, ref, p),
           Woken(l, q, w, st, owe)
    PROVE  Inv'
<1> Typed /\ Waits /\ WaitersHaveWakeup
  BY Zenon DEF Inv
<1>1. Typed'  BY StepTyped, Zenon
<1>2. Waits'  BY StepWaits, Zenon
<1>3. WaitersHaveWakeup'  BY StepWoken, Zenon
<1> QED  BY <1>1, <1>2, <1>3, Zenon DEF Inv

(* What a port has to send goes through a layer of the crossbar, and a     *)
(* response through that of the master that sent the request.              *)
LEMMA LayerExists ==
    ASSUME Typed, Routed, NEW p \in Ports, NEW x \in ToSend(p)
    PROVE  /\ x \in Packets /\ LayerOf(p, x) \in Layers
           /\ p \in Masters => /\ x \notin InFlight /\ Src[x] = p
                              /\ LayerOf(p, x) = Dst[x] /\ Dst[x] \in Memories
           /\ p \notin Masters => /\ p \in Memories /\ x \in inMemory[p]
                                 /\ x \in NeedsResponse /\ x \in DOMAIN routeTo
                                 /\ LayerOf(p, x) = routeTo[x]
                                 /\ routeTo[x] = Src[x] /\ Src[x] \in Masters
<1>1. CASE p \in Masters
  BY <1>1, XBarAssumption DEF ToSend, LayerOf, Layers, Ports
<1>2. CASE p \notin Masters
  <2>1. p \in Memories /\ x \in inMemory[p] /\ x \in NeedsResponse
    BY <1>2 DEF ToSend, Ports
  <2>2. x \in Packets
    BY <2>1 DEF Typed
  <2>3. x \in InFlight
    BY <2>1, Zenon DEF InFlight
  <2>4. x \in DOMAIN routeTo /\ routeTo[x] = Src[x]
    BY <2>1, <2>3 DEF Routed
  <2>5. Src[x] \in Masters
    BY <2>2, XBarAssumption
  <2> QED  BY <1>2, <2>1, <2>2, <2>4, <2>5 DEF LayerOf, Layers, Ports
<1> QED  BY <1>1, <1>2

(* A request that is accepted adds the route of its response.              *)
LEMMA AcceptRouted ==
    ASSUME Typed, Routed, NEW m \in Masters, NEW x \in ToSend(m), NEW ref, NEW owe,
           RequestAccepted(m, x, ref, owe)
    PROVE  Routed' /\ inMemory' \in [Memories -> SUBSET Packets]
<1>1. /\ x \in Packets /\ x \notin InFlight /\ Src[x] = m /\ Dst[x] \in Memories
  BY LayerExists, Zenon DEF Ports
<1>2. /\ inMemory' = [inMemory EXCEPT ![Dst[x]] = @ \cup {x}]
      /\ routeTo' = IF x \in NeedsResponse
                    THEN [y \in DOMAIN routeTo \cup {x} |->
                            IF y = x THEN m ELSE routeTo[y]]
                    ELSE routeTo
  BY Zenon DEF RequestAccepted
<1>3. /\ inMemory' \in [Memories -> SUBSET Packets]
      /\ \A s \in Memories : inMemory'[s] = IF s = Dst[x] THEN inMemory[s] \cup {x}
                                                         ELSE inMemory[s]
  BY <1>1, <1>2, Zenon DEF Typed
<1>4. InFlight' = InFlight \cup {x}
  BY <1>1, <1>3 DEF InFlight
<1>5. \A s \in Memories : \A y \in inMemory'[s] : Dst[y] = s
  BY <1>3 DEF Routed
<1>6. DOMAIN routeTo' = InFlight' \cap NeedsResponse
  <2>1. DOMAIN routeTo = InFlight \cap NeedsResponse
    BY Zenon DEF Routed
  <2>2. DOMAIN routeTo' = IF x \in NeedsResponse THEN DOMAIN routeTo \cup {x}
                                                 ELSE DOMAIN routeTo
    BY <1>2
  <2> QED  BY <1>4, <2>1, <2>2
<1>7. \A y \in DOMAIN routeTo' : routeTo'[y] = Src[y]
  <2>1. \A y \in DOMAIN routeTo : routeTo[y] = Src[y]
    BY Zenon DEF Routed
  <2> QED  BY <1>1, <1>2, <2>1
<1> QED  BY <1>3, <1>5, <1>6, <1>7, Zenon DEF Routed

(* A packet that leaves its memory takes its route with it.                *)
LEMMA LeaveRouted ==
    ASSUME Typed, Routed, NEW s \in Memories, NEW x \in inMemory[s],
           inMemory' = [inMemory EXCEPT ![s] = @ \ {x}],
           \/ routeTo' = [y \in DOMAIN routeTo \ {x} |-> routeTo[y]]
           \/ routeTo' = routeTo /\ x \notin NeedsResponse
    PROVE  Routed' /\ inMemory' \in [Memories -> SUBSET Packets]
<1>1. Dst[x] = s
  BY Zenon DEF Routed
<1>2. /\ inMemory' \in [Memories -> SUBSET Packets]
      /\ \A r \in Memories : inMemory'[r] = IF r = s THEN inMemory[r] \ {x}
                                                    ELSE inMemory[r]
  BY Zenon DEF Typed
<1>3. \A r \in Memories : r # s => x \notin inMemory[r]
  BY <1>1 DEF Routed
<1>4. InFlight' = InFlight \ {x}
  BY <1>2, <1>3 DEF InFlight
<1>5. \A r \in Memories : \A y \in inMemory'[r] : Dst[y] = r
  BY <1>2 DEF Routed
<1>6. DOMAIN routeTo' = (DOMAIN routeTo) \ {x}
  BY DEF Routed
<1>7. DOMAIN routeTo' = InFlight' \cap NeedsResponse
  BY <1>4, <1>6 DEF Routed
<1>8. \A y \in DOMAIN routeTo' : routeTo'[y] = Src[y]
  <2>1. \A y \in DOMAIN routeTo : routeTo[y] = Src[y]
    BY Zenon DEF Routed
  <2> QED  BY <1>6, <2>1
<1> QED  BY <1>2, <1>5, <1>7, <1>8, Zenon DEF Routed

(* What a packet of p that takes a layer does to it: it is accepted, or    *)
(* the memory refuses it and p waits for the memory.                       *)
Passed(l, p, ref, owe) ==
    /\ waitingForPeer' = [waitingForPeer EXCEPT ![l] = {}]
    /\ refused' = ref /\ owesRetry' = owe

Blocked(l, p, ref, owe) ==
    /\ waitingForPeer' = [waitingForPeer EXCEPT ![l] = {p}]
    /\ refused' = ref \cup {p} /\ owesRetry' = owe \cup {l}
    /\ l \in Memories /\ ~HasRoom(l)

(* The outcome of sending through a layer.                                 *)
LEMMA ForwardEffect ==
    ASSUME Typed, Routed, NEW p \in Ports, NEW x \in ToSend(p), NEW ref, NEW owe,
           NEW l, l = LayerOf(p, x), Forward(p, x, ref, owe)
    PROVE  /\ Routed' /\ inMemory' \in [Memories -> SUBSET Packets]
           /\ occupyLayer(l)
           /\ Passed(l, p, ref, owe) \/ Blocked(l, p, ref, owe)
<1>1. occupyLayer(l)
  BY Zenon DEF Forward
<1>2. CASE RequestAccepted(p, x, ref, owe)
  <2>1. p \in Masters
    BY <1>2, Zenon DEF RequestAccepted
  <2>2. l = Dst[x]
    BY <2>1, LayerExists, Zenon
  <2>3. Routed' /\ inMemory' \in [Memories -> SUBSET Packets]
    BY <1>2, <2>1, AcceptRouted, Zenon
  <2> QED  BY <1>1, <1>2, <2>2, <2>3, Zenon DEF RequestAccepted, Passed
<1>3. CASE RequestRefused(p, x, ref, owe)
  <2>1. p \in Masters /\ inMemory' = inMemory /\ routeTo' = routeTo
    BY <1>3, Zenon DEF RequestRefused
  <2>2. l = Dst[x] /\ Dst[x] \in Memories
    BY <2>1, LayerExists, Zenon
  <2>3. Routed' /\ inMemory' \in [Memories -> SUBSET Packets]
    BY <2>1 DEF Routed, InFlight, Typed
  <2> QED  BY <1>1, <1>3, <2>1, <2>2, <2>3, Zenon DEF RequestRefused, Blocked
<1>4. CASE ResponseAccepted(p, x, ref, owe)
  <2>1. p \in Memories /\ p \notin Masters
    BY <1>4, XBarAssumption DEF ResponseAccepted
  <2>2. l = routeTo[x] /\ x \in inMemory[p]
    BY <2>1, LayerExists, Zenon
  <2>3. /\ inMemory' = [inMemory EXCEPT ![p] = @ \ {x}]
        /\ routeTo' = [y \in DOMAIN routeTo \ {x} |-> routeTo[y]]
    BY <1>4, Zenon DEF ResponseAccepted
  <2>4. Routed' /\ inMemory' \in [Memories -> SUBSET Packets]
    BY <2>1, <2>2, <2>3, LeaveRouted, Zenon
  <2> QED  BY <1>1, <1>4, <2>2, <2>4, Zenon DEF ResponseAccepted, Passed
<1> QED  BY <1>2, <1>3, <1>4, Zenon DEF Forward

(* tryTiming refuses a port, which had not been waiting anywhere.          *)
LEMMA SendRefusedInv ==
    ASSUME Inv, NEW p \in Ports, NEW x \in Packets, SendRefused(p, x)
    PROVE  Inv'
<1> Typed /\ Routed /\ Waits /\ WaitersHaveWakeup
  BY Zenon DEF Inv
<1>1. PICK l : l = LayerOf(p, x)
  OBVIOUS
<1>2. /\ p \notin refused /\ x \in ToSend(p) /\ Occupied(l)
      /\ waitingForLayer' = [waitingForLayer EXCEPT ![l] = Append(@, p)]
      /\ refused' = refused \cup {p}
      /\ state' = state /\ waitingForPeer' = waitingForPeer
      /\ releaseEvent' = releaseEvent /\ routeTo' = routeTo
      /\ inMemory' = inMemory /\ owesRetry' = owesRetry
  BY <1>1, Zenon DEF SendRefused
<1>3. l \in Layers
  BY <1>1, <1>2, LayerExists, Zenon
<1>4. PICK q : q = Append(waitingForLayer[l], p)
  BY Zenon
<1>5. /\ waitingForLayer[l] \in Seq(Ports) /\ waitingForPeer[l] \in SUBSET Ports
      /\ state[l] \in {"IDLE", "BUSY"}
  BY <1>3 DEF Typed
<1>6. /\ Distinct(waitingForLayer[l]) /\ Waiting(l) \subseteq refused
      /\ waitingForPeer[l] = {} \/ \E r \in Ports : waitingForPeer[l] = {r}
      /\ Elements(waitingForLayer[l]) \cap waitingForPeer[l] = {}
  BY <1>3, Zenon DEF Waits, Formed
<1>7. p \notin Elements(waitingForLayer[l]) /\ p \notin waitingForPeer[l]
  BY <1>2, <1>6 DEF Waiting
<1>8. /\ q \in Seq(Ports) /\ q # <<>>
      /\ Elements(q) = Elements(waitingForLayer[l]) \cup {p} /\ Distinct(q)
  <2>1. \A s \in Seq(Ports) : \A e \in Ports :
          /\ Append(s, e) \in Seq(Ports) /\ Append(s, e) # <<>>
          /\ Elements(Append(s, e)) = Elements(s) \cup {e}
          /\ Distinct(s) /\ e \notin Elements(s) => Distinct(Append(s, e))
    BY QueueAppend
  <2> QED  BY <1>4, <1>5, <1>6, <1>7, <2>1, Zenon
<1>9. Formed(q, waitingForPeer[l])
  BY <1>6, <1>7, <1>8 DEF Formed
<1>10. /\ (state[l] = "BUSY") <=> releaseEvent[l]
       /\ (waitingForPeer[l] # {}) <=> (l \in owesRetry)
  BY <1>3, Zenon DEF WaitersHaveWakeup
<1>11. LayerStep(l, q, waitingForPeer[l], state[l], refused', owesRetry)
  BY <1>2, <1>3, <1>4, <1>10 DEF LayerStep, Typed
<1>12. Moved(l, q, waitingForPeer[l], refused', p)
  BY <1>2, <1>8 DEF Moved, Waiting
<1>13. Woken(l, q, waitingForPeer[l], state[l], owesRetry)
  BY <1>2, <1>5, <1>10 DEF Woken, Occupied
<1>14. Routed' /\ inMemory' \in [Memories -> SUBSET Packets]
  BY <1>2 DEF Routed, InFlight, Typed
<1> QED  BY <1>3, <1>5, <1>8, <1>9, <1>11, <1>12, <1>13, <1>14, StepInv, Zenon

(* A port sends through a free layer.                                      *)
LEMMA SendInv ==
    ASSUME Inv, NEW p \in Ports, NEW x \in Packets, Send(p, x)
    PROVE  Inv'
<1> Typed /\ Routed /\ Waits /\ WaitersHaveWakeup
  BY Zenon DEF Inv
<1>1. PICK l : l = LayerOf(p, x)
  OBVIOUS
<1>2. /\ p \notin refused /\ x \in ToSend(p) /\ ~Occupied(l)
      /\ Forward(p, x, refused, owesRetry)
      /\ waitingForLayer' = waitingForLayer
  BY <1>1, Zenon DEF Send
<1>3. l \in Layers
  BY <1>1, <1>2, LayerExists, Zenon
<1>4. /\ Routed' /\ inMemory' \in [Memories -> SUBSET Packets]
      /\ occupyLayer(l)
      /\ Passed(l, p, refused, owesRetry) \/ Blocked(l, p, refused, owesRetry)
  BY <1>1, <1>2, ForwardEffect, Zenon
<1>5. PICK q : q = waitingForLayer[l]
  OBVIOUS
<1>6. /\ q \in Seq(Ports) /\ Distinct(q) /\ Elements(q) \subseteq refused
      /\ waitingForPeer[l] = {} /\ Waiting(l) = Elements(q)
  BY <1>2, <1>3, <1>5 DEF Typed, Waits, Formed, Waiting, Occupied
<1>7. l \notin owesRetry
  BY <1>3, <1>6, Zenon DEF WaitersHaveWakeup
<1>8. ASSUME NEW w \in SUBSET Ports, waitingForPeer' = [waitingForPeer EXCEPT ![l] = w]
      PROVE  LayerStep(l, q, w, "BUSY", refused', owesRetry')
  BY <1>2, <1>3, <1>4, <1>5, <1>8, Zenon DEF LayerStep, occupyLayer, Typed
<1>9. CASE Passed(l, p, refused, owesRetry)
  <2> USE DEF Passed
  <2>1. LayerStep(l, q, {}, "BUSY", refused', owesRetry')
    BY <1>8, <1>9, Zenon
  <2>2. Formed(q, {}) /\ Moved(l, q, {}, refused', p)
    BY <1>6, <1>9 DEF Formed, Moved
  <2>3. Woken(l, q, {}, "BUSY", owesRetry')
    BY <1>7, <1>9 DEF Woken
  <2> QED  BY <1>3, <1>4, <1>6, <2>1, <2>2, <2>3, StepInv
<1>10. CASE Blocked(l, p, refused, owesRetry)
  <2> USE DEF Blocked
  <2>1. LayerStep(l, q, {p}, "BUSY", refused', owesRetry')
    BY <1>8, <1>10, Zenon
  <2>2. Formed(q, {p}) /\ Moved(l, q, {p}, refused', p)
    BY <1>2, <1>6, <1>10 DEF Formed, Moved
  <2>3. Woken(l, q, {p}, "BUSY", owesRetry')
    BY <1>7, <1>10 DEF Woken
  <2> QED  BY <1>3, <1>4, <1>6, <2>1, <2>2, <2>3, StepInv
<1> QED  BY <1>4, <1>9, <1>10

(* retryWaiting: the first of the ports that wait in l, those in `queue`,  *)
(* is told to retry; it leaves, or is refused by the memory again.         *)
LEMMA RetryInv ==
    ASSUME Inv, NEW l \in Layers, NEW queue \in Seq(Ports), queue # <<>>,
           Distinct(queue), Elements(queue) = Waiting(l), NEW owe,
           owe = owesRetry \ {l}, retryWaiting(l, queue, owe)
    PROVE  Inv'
<1> Typed /\ Routed /\ Waits /\ WaitersHaveWakeup
  BY Zenon DEF Inv
<1>1. PICK p, q : p = Head(queue) /\ q = Tail(queue)
  BY Zenon
<1>2. /\ p \in Ports /\ p \in Waiting(l) /\ q \in Seq(Ports) /\ Distinct(q)
      /\ Elements(q) = Waiting(l) \ {p}
  BY <1>1, QueuePop
<1>3. p \in refused /\ p \notin Elements(q)
  BY <1>2 DEF Waits
<1>4. waitingForLayer' = [waitingForLayer EXCEPT ![l] = q]
  BY <1>1, Zenon DEF retryWaiting, PopFront
<1>5. \/ \E x \in ToSend(p) : LayerOf(p, x) = l /\ Forward(p, x, refused \ {p}, owe)
      \/ /\ occupyLayer(l) /\ Passed(l, p, refused \ {p}, owe)
         /\ routeTo' = routeTo /\ inMemory' = inMemory
  BY <1>1, Zenon DEF retryWaiting, Passed
<1>6. /\ Routed' /\ inMemory' \in [Memories -> SUBSET Packets]
      /\ occupyLayer(l)
      /\ Passed(l, p, refused \ {p}, owe) \/ Blocked(l, p, refused \ {p}, owe)
  <2>1. CASE \E x \in ToSend(p) : LayerOf(p, x) = l /\ Forward(p, x, refused \ {p}, owe)
    <3>1. PICK x \in ToSend(p) : LayerOf(p, x) = l /\ Forward(p, x, refused \ {p}, owe)
      BY <2>1, Zenon
    <3> QED  BY <1>2, <3>1, ForwardEffect, Zenon
  <2>2. CASE /\ occupyLayer(l) /\ Passed(l, p, refused \ {p}, owe)
             /\ routeTo' = routeTo /\ inMemory' = inMemory
    <3>1. Routed' /\ inMemory' \in [Memories -> SUBSET Packets]
      BY <2>2 DEF Routed, InFlight, Typed
    <3> QED  BY <2>2, <3>1, Zenon
  <2> QED  BY <1>5, <2>1, <2>2, Zenon
<1>7. ASSUME NEW w \in SUBSET Ports, waitingForPeer' = [waitingForPeer EXCEPT ![l] = w]
      PROVE  LayerStep(l, q, w, "BUSY", refused', owesRetry')
  BY <1>4, <1>6, <1>7, Zenon DEF LayerStep, occupyLayer
<1>8. CASE Passed(l, p, refused \ {p}, owe)
  <2> USE DEF Passed
  <2>1. LayerStep(l, q, {}, "BUSY", refused', owesRetry')
    BY <1>7, <1>8, Zenon
  <2>2. Formed(q, {}) /\ Moved(l, q, {}, refused', p)
    BY <1>2, <1>8 DEF Formed, Moved
  <2>3. Woken(l, q, {}, "BUSY", owesRetry')
    BY <1>8 DEF Woken
  <2> QED  BY <1>2, <1>6, <2>1, <2>2, <2>3, StepInv
<1>9. CASE Blocked(l, p, refused \ {p}, owe)
  <2> USE DEF Blocked
  <2>1. LayerStep(l, q, {p}, "BUSY", refused', owesRetry')
    BY <1>2, <1>7, <1>9, Zenon
  <2>2. Formed(q, {p}) /\ Moved(l, q, {p}, refused', p)
    BY <1>2, <1>3, <1>9 DEF Formed, Moved
  <2>3. Woken(l, q, {p}, "BUSY", owesRetry')
    BY <1>9 DEF Woken
  <2> QED  BY <1>2, <1>6, <2>1, <2>2, <2>3, StepInv
<1> QED  BY <1>6, <1>8, <1>9, Zenon

(* releaseLayer: a port is retried, or the layer becomes free because      *)
(* nobody waits or all wait for the memory.                                *)
LEMMA ReleaseInv ==
    ASSUME Inv, NEW l \in Layers, releaseLayer(l)
    PROVE  Inv'
<1> Typed /\ Routed /\ Waits /\ WaitersHaveWakeup
  BY Zenon DEF Inv
<1>1. /\ waitingForLayer[l] \in Seq(Ports) /\ waitingForPeer[l] \in SUBSET Ports
      /\ Formed(waitingForLayer[l], waitingForPeer[l])
  BY DEF Typed, Waits
<1>2. (waitingForPeer[l] # {}) <=> (l \in owesRetry)
  BY Zenon DEF WaitersHaveWakeup
<1>3. CASE MayRetry(l) /\ retryWaiting(l, waitingForLayer[l], owesRetry)
  <2>1. waitingForLayer[l] # <<>> /\ waitingForPeer[l] = {}
    BY <1>3, Zenon DEF MayRetry
  <2>2. Elements(waitingForLayer[l]) = Waiting(l) /\ Distinct(waitingForLayer[l])
    BY <1>1, <2>1 DEF Waiting, Formed
  <2>3. owesRetry = owesRetry \ {l}
    BY <1>2, <2>1
  <2> QED  BY <1>1, <1>3, <2>1, <2>2, <2>3, RetryInv, Zenon
<1>4. CASE /\ ~MayRetry(l)
           /\ state' = [state EXCEPT ![l] = "IDLE"]
           /\ releaseEvent' = [releaseEvent EXCEPT ![l] = FALSE]
           /\ UNCHANGED <<waitingForLayer, waitingForPeer, routeTo, inMemory,
                          refused, owesRetry>>
  <2>1. LayerStep(l, waitingForLayer[l], waitingForPeer[l], "IDLE", refused, owesRetry)
    BY <1>4, Zenon DEF LayerStep, Typed
  <2>2. Woken(l, waitingForLayer[l], waitingForPeer[l], "IDLE", owesRetry)
    BY <1>2, <1>4 DEF Woken, MayRetry
  <2>3. Routed' /\ inMemory' \in [Memories -> SUBSET Packets]
    BY <1>4 DEF Routed, InFlight, Typed
  <2>4. Moved(l, waitingForLayer[l], waitingForPeer[l], refused, l)
    BY Zenon DEF Moved, Waiting
  <2>5. l \in Ports
    BY Zenon DEF Layers
  <2> QED  BY <1>1, <2>1, <2>2, <2>3, <2>4, <2>5, StepInv, Zenon
<1> QED  BY <1>3, <1>4, Zenon DEF releaseLayer

(* A port put before a queue it is not in.                                 *)
LEMMA QueuePrepend ==
    ASSUME NEW S, NEW s \in Seq(S), NEW e \in S, Distinct(s), e \notin Elements(s)
    PROVE  /\ <<e>> \o s \in Seq(S) /\ <<e>> \o s # <<>>
           /\ Elements(<<e>> \o s) = {e} \cup Elements(s)
           /\ Distinct(<<e>> \o s)
<1>1. PICK t : t = <<e>> \o s
  BY Zenon
<1>2. /\ t \in Seq(S) /\ Len(t) = Len(s) + 1 /\ Len(s) \in Nat
      /\ t[1] = e /\ \A i \in 1..Len(s) : t[i + 1] = s[i]
  BY <1>1
<1>3. DOMAIN t = 1..(Len(s) + 1) /\ DOMAIN s = 1..Len(s)
  BY <1>2
<1>4. \A i \in 1..(Len(s) + 1) :
         \/ i = 1 /\ t[i] = e
         \/ i # 1 /\ i - 1 \in 1..Len(s) /\ t[i] = s[i - 1]
  <2> SUFFICES ASSUME NEW i \in 1..(Len(s) + 1), i # 1
               PROVE  i - 1 \in 1..Len(s) /\ t[i] = s[i - 1]
    BY <1>2
  <2>1. i - 1 \in 1..Len(s) /\ (i - 1) + 1 = i
    BY <1>2
  <2> QED  BY <1>2, <2>1
<1>5. \A i \in 1..Len(s) : s[i] # e
  BY <1>3 DEF Elements
<1>6. t # <<>>
  BY <1>2
<1>7. Elements(t) = {e} \cup Elements(s)
  <2>1. ASSUME NEW x \in Elements(t) PROVE x \in {e} \cup Elements(s)
    <3>1. PICK i \in 1..(Len(s) + 1) : x = t[i]
      BY <1>3 DEF Elements
    <3> QED  BY <1>3, <1>4, <3>1 DEF Elements
  <2>2. ASSUME NEW x \in Elements(s) PROVE x \in Elements(t)
    <3>1. PICK i \in 1..Len(s) : x = s[i]
      BY <1>3 DEF Elements
    <3>2. i + 1 \in DOMAIN t /\ x = t[i + 1]
      BY <1>2, <1>3, <3>1
    <3> QED  BY <3>2, Zenon DEF Elements
  <2>3. e \in Elements(t)
    <3>1. 1 \in DOMAIN t
      BY <1>2, <1>3
    <3> QED  BY <1>2, <3>1, Zenon DEF Elements
  <2> QED  BY <2>1, <2>2, <2>3
<1>8. Distinct(t)
  <2> SUFFICES ASSUME NEW i \in 1..(Len(s) + 1), NEW j \in 1..(Len(s) + 1), t[i] = t[j]
               PROVE  i = j
    BY <1>3 DEF Distinct
  <2>1. CASE i = 1 \/ j = 1
    BY <1>2, <1>4, <1>5, <2>1
  <2>2. CASE i # 1 /\ j # 1
    <3>1. i - 1 = j - 1
      BY <1>3, <1>4, <2>2 DEF Distinct
    <3> QED  BY <3>1
  <2> QED  BY <2>1, <2>2
<1> QED  BY <1>1, <1>2, <1>6, <1>7, <1>8

(* recvReqRetry: the port the memory refused is retried, or queued before  *)
(* the others when the layer is busy.                                      *)
LEMMA RecvReqRetryInv ==
    ASSUME Inv, NEW s \in Memories, recvReqRetry(s)
    PROVE  Inv'
<1> Typed /\ Routed /\ Waits /\ WaitersHaveWakeup
  BY Zenon DEF Inv
<1>1. s \in Layers
  BY Zenon DEF Layers, Ports
<1>2. s \in owesRetry /\ waitingForPeer[s] # {}
  BY Zenon DEF recvReqRetry
<1>3. PICK p \in Ports : waitingForPeer[s] = {p}
  BY <1>1, <1>2, Zenon DEF Waits, Formed
<1>4. PICK q : q = WithPeer(s)
  BY Zenon
<1>5. q = <<p>> \o waitingForLayer[s]
  <2>1. (CHOOSE r \in {p} : TRUE) = p
    OBVIOUS
  <2> QED  BY <1>3, <1>4, <2>1, Zenon DEF WithPeer
<1>6. /\ waitingForLayer[s] \in Seq(Ports) /\ Distinct(waitingForLayer[s])
      /\ p \notin Elements(waitingForLayer[s])
      /\ Waiting(s) = {p} \cup Elements(waitingForLayer[s])
  BY <1>1, <1>3 DEF Typed, Waits, Formed, Waiting
<1>7. /\ q \in Seq(Ports) /\ q # <<>> /\ Distinct(q) /\ Elements(q) = Waiting(s)
  BY <1>5, <1>6, QueuePrepend
<1>8. CASE retryWaiting(s, WithPeer(s), owesRetry \ {s})
  BY <1>1, <1>4, <1>7, <1>8, RetryInv
<1>9. CASE /\ state[s] = "BUSY"
           /\ waitingForLayer' = [waitingForLayer EXCEPT ![s] = WithPeer(s)]
           /\ waitingForPeer' = [waitingForPeer EXCEPT ![s] = {}]
           /\ owesRetry' = owesRetry \ {s}
           /\ UNCHANGED <<state, releaseEvent, routeTo, inMemory, refused>>
  <2>1. (state[s] = "BUSY") <=> releaseEvent[s]
    BY <1>1, Zenon DEF WaitersHaveWakeup
  <2>2. LayerStep(s, q, {}, "BUSY", refused, owesRetry')
    BY <1>1, <1>4, <1>9, <2>1, Zenon DEF LayerStep, Typed
  <2>3. Woken(s, q, {}, "BUSY", owesRetry')
    BY <1>9 DEF Woken
  <2>4. Formed(q, {}) /\ Moved(s, q, {}, refused, p)
    BY <1>7 DEF Formed, Moved
  <2>5. Routed' /\ inMemory' \in [Memories -> SUBSET Packets]
    BY <1>9 DEF Routed, InFlight, Typed
  <2> QED  BY <1>1, <1>7, <2>2, <2>3, <2>4, <2>5, StepInv, Zenon
<1> QED  BY <1>8, <1>9, Zenon DEF recvReqRetry

(* A memory absorbs a packet: no layer changes.                            *)
LEMMA AbsorbInv ==
    ASSUME Inv, NEW s \in Memories, NEW x \in inMemory[s], Absorb(s, x)
    PROVE  Inv'
<1> Typed /\ Routed /\ Waits /\ WaitersHaveWakeup
  BY Zenon DEF Inv
<1>1. /\ inMemory' = [inMemory EXCEPT ![s] = @ \ {x}] /\ routeTo' = routeTo
      /\ x \notin NeedsResponse
      /\ state' = state /\ waitingForLayer' = waitingForLayer
      /\ waitingForPeer' = waitingForPeer /\ releaseEvent' = releaseEvent
      /\ refused' = refused /\ owesRetry' = owesRetry
  BY DEF Absorb, layerVars
<1>2. Routed' /\ inMemory' \in [Memories -> SUBSET Packets]
  BY <1>1, LeaveRouted, Zenon
<1>3. Typed'
  BY <1>1, <1>2, Zenon DEF Typed
<1>4. Waits' /\ WaitersHaveWakeup'
  BY <1>1 DEF Waits, Waiting, WaitersHaveWakeup
<1> QED  BY <1>2, <1>3, <1>4, Zenon DEF Inv

(* A step that only changes drain states.                                  *)
LEMMA DrainInv ==
    ASSUME Inv, UNCHANGED layerVars, UNCHANGED <<routeTo, inMemory, refused, owesRetry>>
    PROVE  Inv'
<1>1. /\ inMemory' = inMemory /\ routeTo' = routeTo
      /\ state' = state /\ waitingForLayer' = waitingForLayer
      /\ waitingForPeer' = waitingForPeer /\ releaseEvent' = releaseEvent
      /\ refused' = refused /\ owesRetry' = owesRetry
  BY DEF layerVars
<1>2. Typed' /\ Routed'
  BY <1>1 DEF Inv, Typed, Routed, InFlight
<1>3. Waits' /\ WaitersHaveWakeup'
  BY <1>1, Zenon DEF Inv, Waits, Waiting, WaitersHaveWakeup
<1> QED  BY <1>2, <1>3, Zenon DEF Inv

(* Every step keeps the invariant.                                         *)
LEMMA NextInv == Inv /\ [Next]_vars => Inv'
<1> SUFFICES ASSUME Inv, [Next]_vars PROVE Inv'
  OBVIOUS
<1>1. ASSUME NEW p \in Ports, NEW x \in Packets, SendRefused(p, x) PROVE Inv'
  BY <1>1, SendRefusedInv, Zenon
<1>2. ASSUME NEW p \in Ports, NEW x \in Packets, Send(p, x) PROVE Inv'
  BY <1>2, SendInv, Zenon
<1>3. ASSUME NEW l \in Layers, releaseLayer(l) PROVE Inv'
  BY <1>3, ReleaseInv, Zenon
<1>4. ASSUME NEW l \in DrainedLayers, drain(l) \/ Resume(l) PROVE Inv'
  BY <1>4, DrainInv, Zenon DEF drain, Resume
<1>5. ASSUME NEW s \in Memories, recvReqRetry(s) PROVE Inv'
  BY <1>5, RecvReqRetryInv, Zenon
<1>6. ASSUME NEW s \in Memories, NEW x \in inMemory[s], Absorb(s, x) PROVE Inv'
  BY <1>6, AbsorbInv, Zenon
<1>7. CASE UNCHANGED vars
  BY <1>7, DrainInv DEF vars, layerVars
<1> QED  BY <1>1, <1>2, <1>3, <1>4, <1>5, <1>6, <1>7, Zenon DEF Next

(* The invariant holds initially.                                          *)
LEMMA InitInv == Init => Inv
<1> SUFFICES ASSUME Init PROVE Inv
  OBVIOUS
<1>1. \A l \in Layers : /\ waitingForLayer[l] = <<>> /\ waitingForPeer[l] = {}
                        /\ state[l] = "IDLE" /\ releaseEvent[l] = FALSE
  BY DEF Init
<1>2. \A l \in Layers : Waiting(l) = {} /\ Formed(waitingForLayer[l], waitingForPeer[l])
  BY <1>1, QueueEmpty DEF Waiting, Formed
<1>3. Waits
  BY <1>2 DEF Init, Waits
<1>4. WaitersHaveWakeup
  BY <1>1 DEF Init, WaitersHaveWakeup
<1>5. InFlight = {} /\ DOMAIN routeTo = {}
  BY DEF Init, InFlight
<1>6. Routed
  BY <1>5 DEF Init, Routed
<1>7. Typed
  BY DEF Init, Typed
<1> QED  BY <1>3, <1>4, <1>6, <1>7, Zenon DEF Inv

(* The invariant of every reachable state.                                 *)
LEMMA SpecInv == Spec => []Inv
BY InitInv, NextInv, PTL DEF Spec

(* A port that was refused waits in exactly one place of exactly one       *)
(* layer and one that may send waits nowhere: the assertions of tryTiming  *)
(* and failedTiming never fail.                                            *)
THEOREM XBarRefusedWaitOnce == Spec => []RefusedWaitOnce
<1>1. Inv => RefusedWaitOnce
  <2> SUFFICES ASSUME Inv PROVE RefusedWaitOnce
    OBVIOUS
  <2>1. Waits
    BY Zenon DEF Inv
  <2>2. ASSUME NEW l \in Layers
        PROVE  /\ Distinct(waitingForLayer[l])
               /\ Cardinality(waitingForPeer[l]) <= 1
               /\ Elements(waitingForLayer[l]) \cap waitingForPeer[l] = {}
               /\ Waiting(l) \subseteq refused
    <3>1. /\ Formed(waitingForLayer[l], waitingForPeer[l])
          /\ Waiting(l) \subseteq refused
      BY <2>1, Zenon DEF Waits
    <3>2. Cardinality(waitingForPeer[l]) <= 1
      <4>1. CASE waitingForPeer[l] = {}
        BY <4>1, FS_EmptySet
      <4>2. CASE \E p \in Ports : waitingForPeer[l] = {p}
        BY <4>2, FS_Singleton
      <4> QED  BY <3>1, <4>1, <4>2, Zenon DEF Formed
    <3> QED  BY <3>1, <3>2, Zenon DEF Formed
  <2>3. ASSUME NEW p \in refused
        PROVE  \E l \in Layers : p \in Waiting(l) /\ \A k \in Layers \ {l} : p \notin Waiting(k)
    <3>1. PICK l \in Layers : p \in Waiting(l)
      BY <2>1, Zenon DEF Waits
    <3>2. \A k \in Layers \ {l} : p \notin Waiting(k)
      BY <2>1, <3>1 DEF Waits
    <3> QED  BY <3>1, <3>2, Zenon
  <2> QED  BY <2>2, <2>3, Zenon DEF RefusedWaitOnce
<1> QED  BY <1>1, SpecInv, PTL

(* A layer in which a port waits has its release event scheduled or is     *)
(* owed a retry by the memory, so no wake-up is lost.                      *)
THEOREM XBarWaitersHaveWakeup == Spec => []WaitersHaveWakeup
<1>1. Inv => WaitersHaveWakeup
  BY Zenon DEF Inv
<1> QED  BY <1>1, SpecInv, PTL

(* Routes are kept for exactly the responses under way and lead back to    *)
(* the master that sent the request: the assertions on routeTo.            *)
THEOREM XBarRouted == Spec => []Routed
<1>1. Inv => Routed
  BY Zenon DEF Inv
<1> QED  BY <1>1, SpecInv, PTL
=============================================================================
