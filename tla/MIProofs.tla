------------------------------ MODULE MIProofs ------------------------------
(***************************************************************************)
(* MI_example keeps a line in one place at a time, for any number of       *)
(* caches, directories, DMA controllers and lines and any workload.        *)
(*                                                                         *)
(* The argument: the caches that own a line or were told to pass it on     *)
(* stand in line for it.  The forwarded GETX in the queue of one names the *)
(* next, and only the front of the line can hold the data.                 *)
(***************************************************************************)
EXTENDS MIExample, QueueLemmas

Owned == {"M", "M_DRD", "M_DWR"}
Returning == {"MI", "M_DRDI", "M_DWRI"}
Awaiting == {"IS", "IM"}

Msg(t, a, r) == [type |-> t, addr |-> a, requestor |-> r]
Getx(a, r) == [type |-> "GETX", addr |-> a, requestor |-> r]
Ack(a, r) == [type |-> "WB_ACK", addr |-> a, requestor |-> r]
Nack(a, r) == [type |-> "WB_NACK", addr |-> a, requestor |-> r]

\* What is under way to cache c about line a.
Fwd(c, a) == Elements(fwdNet[Home[a]][c])

Asks(c, a) == Getx(a, c) \in reqNet
Passes(c, r, a) == Getx(a, r) \in Fwd(c, a)
Sent(c, a) == \E m \in dataNet : m.addr = a /\ m.dest = c

\* The caches that stand in line for a, and the one at the front.
Owns(c, a) == dstate[a] \in Owned /\ c \in owner[a]
InLine(c, a) == Owns(c, a) \/ \E r \in Caches : Passes(c, r, a)
Preceded(c, a) == \E e \in Caches : Passes(e, c, a)
Front(c, a) == InLine(c, a) /\ ~Preceded(c, a)

\* A writeback: asked for, being carried out, answered.
Puts(c, a) == \E m \in reqNet : m.type = "PUTX" /\ m.addr = a /\ m.requestor = c
Returned(c, a) == /\ dstate[a] \in Returning
                  /\ \E m \in memReq \union responseFromMemory :
                       m.addr = a /\ m.requestor = c
Acked(c, a) == Ack(a, c) \in Fwd(c, a)
Nacked(c, a) == Nack(a, c) \in Fwd(c, a)

\* Messages other than INV are never twice in a queue.
Single == {m \in ForwardMsg : m.type # "INV"}

Typed ==
  /\ st \in [Caches -> [Addr -> L1State]]
  /\ dstate \in [Addr -> DirState]
  /\ owner \in [Addr -> SUBSET Caches]
  /\ fwdNet \in [Dirs -> [Caches -> Seq(ForwardMsg)]]
  /\ reqNet \subseteq RequestMsg
  /\ dataNet \subseteq DataMsg
  /\ blk \in [Caches -> [Addr -> Data]]
  /\ mem \in [Addr -> Data]
  /\ latest \in [Addr -> Data]
  /\ memReq \subseteq MemoryReq
  /\ responseFromMemory \subseteq MemoryMsg
  /\ dmaReqNet \subseteq DMARequest
  /\ dtbe \in [Addr -> Transfer \union {NoTransfer}]
  /\ \A a \in Addr : dstate[a] \in {"M_DRD", "M_DWR"} => dtbe[a] \in Transfer

QueuesFormed ==
  \A d \in Dirs, c \in Caches :
    /\ DistinctIn(fwdNet[d][c], Single)
    /\ \A m \in Elements(fwdNet[d][c]) :
         /\ Home[m.addr] = d
         /\ m.type = "GETX" => m.requestor \in Caches
         /\ m.type \in {"WB_ACK", "WB_NACK"} => m.requestor = c

\* Who stands in line, and in which state.
LineInv(a) ==
  /\ \A c, r \in Caches : Passes(c, r, a) => ~Owns(c, a) /\ InLine(r, a)
  /\ \A c, r, s \in Caches : Passes(c, r, a) /\ Passes(c, s, a) => r = s
  /\ \A c, e, r \in Caches : Passes(c, r, a) /\ Passes(e, r, a) => c = e
  /\ \A c \in Caches : Preceded(c, a) => st[c][a] \in Awaiting
  /\ \A c, e \in Caches : Front(c, a) /\ Front(e, a) => c = e
  /\ \A c \in Caches : Front(c, a) => dstate[a] \in Owned
  /\ \A c \in Caches : InLine(c, a) => st[c][a] \notin {"I", "II"}
  /\ \A c \in Caches : st[c][a] = "M" => Front(c, a)
  /\ \A c \in Caches : Sent(c, a) => Front(c, a) /\ st[c][a] \in Awaiting
  /\ \A m, n \in dataNet : m.addr = a /\ n.addr = a => m = n

\* A request that the directory has not seen, or that waits for memory.
AskInv(a) ==
  /\ \A c \in Caches : Asks(c, a) =>
       /\ st[c][a] \in Awaiting
       /\ ~InLine(c, a)
       /\ ~(dstate[a] = "IM" /\ c \in owner[a])
  /\ \A c \in Caches : dstate[a] = "IM" /\ c \in owner[a] =>
       st[c][a] \in Awaiting /\ ~InLine(c, a)
  /\ dstate[a] \in Owned \union {"IM"} => \E r \in Caches : owner[a] = {r}

\* A writeback is in one place, and its cache waits for the answer.
PutInv(a) ==
  \A c \in Caches :
    /\ Puts(c, a) \/ Returned(c, a) \/ Acked(c, a) \/ Nacked(c, a)
         => st[c][a] \in {"MI", "II"}
    /\ Puts(c, a) => ~Returned(c, a) /\ ~Acked(c, a) /\ ~Nacked(c, a)
    /\ Returned(c, a) => ~Acked(c, a) /\ ~Nacked(c, a)
    /\ Acked(c, a) => ~Nacked(c, a) /\ ~InLine(c, a)
    /\ \A m, n \in reqNet :
         /\ m.type = "PUTX" /\ m.addr = a /\ m.requestor = c
         /\ n.type = "PUTX" /\ n.addr = a /\ n.requestor = c
         => m = n

\* The directory has one request to memory for a line at a time, and waits.
MemoryInv(a) ==
  /\ \A m \in memReq \union responseFromMemory : m.addr = a =>
       IF m.type \in {"READ", "MEMORY_READ"}
       THEN \/ dstate[a] = "IM" /\ m.requestor \in owner[a]
            \/ dstate[a] = "ID"
       ELSE \/ dstate[a] \in Returning /\ m.requestor \in Caches
            \/ dstate[a] = "ID_W"
  /\ \A m, n \in memReq : m.addr = a /\ n.addr = a => m = n
  /\ \A m, n \in responseFromMemory : m.addr = a /\ n.addr = a => m = n
  /\ \A m \in memReq, n \in responseFromMemory : ~(m.addr = a /\ n.addr = a)

AllInv(a) == LineInv(a) /\ AskInv(a) /\ PutInv(a) /\ MemoryInv(a)

ControlInv == Typed /\ QueuesFormed /\ \A a \in Addr : AllInv(a)

-----------------------------------------------------------------------------
(* Zenon proves each step that names no other prover.                      *)
USE Zenon

-----------------------------------------------------------------------------
(* Messages. *)

(* The messages named above are forwarded messages of their kind.          *)
LEMMA NamedMessages ==
  ASSUME NEW a \in Addr, NEW r \in Caches
  PROVE  /\ Getx(a, r) \in Single /\ Ack(a, r) \in Single /\ Nack(a, r) \in Single
         /\ Getx(a, r) \in RequestMsg
  BY DEF Getx, Ack, Nack, Single, ForwardMsg, RequestMsg

(* A forwarded message is known by its fields.                             *)
LEMMA ForwardFields ==
  ASSUME NEW m \in ForwardMsg
  PROVE  /\ m.type \in {"GETX", "WB_ACK", "WB_NACK", "INV"}
         /\ m.addr \in Addr /\ m.requestor \in Caches \union Dirs
         /\ m.type # "INV" <=> m \in Single
         /\ m.type = "GETX" => m = Getx(m.addr, m.requestor)
         /\ m.type = "WB_ACK" => m = Ack(m.addr, m.requestor)
         /\ m.type = "WB_NACK" => m = Nack(m.addr, m.requestor)
  BY DEF Getx, Ack, Nack, Single, ForwardMsg

(* So is a request.                                                        *)
LEMMA RequestFields ==
  ASSUME NEW m \in RequestMsg
  PROVE  /\ m.type \in {"GETX", "PUTX"} /\ m.addr \in Addr /\ m.requestor \in Caches
         /\ m.type = "GETX" => m = Getx(m.addr, m.requestor)
         /\ m.type = "PUTX" => m.data \in Data
  BY DEF Getx, RequestMsg

(* Different arguments make different messages.                            *)
LEMMA MessagesDiffer ==
  ASSUME NEW a, NEW b, NEW r, NEW s
  PROVE  /\ Getx(a, r) = Getx(b, s) <=> (a = b /\ r = s)
         /\ Ack(a, r) = Ack(b, s) <=> (a = b /\ r = s)
         /\ Nack(a, r) = Nack(b, s) <=> (a = b /\ r = s)
         /\ Getx(a, r) # Ack(b, s) /\ Getx(a, r) # Nack(b, s)
         /\ Ack(a, r) # Nack(b, s)
         /\ Getx(a, r).addr = a /\ Ack(a, r).addr = a /\ Nack(a, r).addr = a
         /\ Getx(a, r).type = "GETX" /\ Getx(a, r).requestor = r
         /\ Ack(a, r).type = "WB_ACK" /\ Nack(a, r).type = "WB_NACK"
  BY DEF Getx, Ack, Nack

\* Of the messages about lines, cache c has lost m, or dests have got m.
PoppedBy(c, m) ==
  \A e, r \in Caches, b \in Addr :
    /\ Passes(e, r, b)' <=> (Passes(e, r, b) /\ ~(e = c /\ m = Getx(b, r)))
    /\ Acked(e, b)' <=> (Acked(e, b) /\ ~(e = c /\ m = Ack(b, e)))
    /\ Nacked(e, b)' <=> (Nacked(e, b) /\ ~(e = c /\ m = Nack(b, e)))
ForwardedTo(dests, m) ==
  \A e, r \in Caches, b \in Addr :
    /\ Passes(e, r, b)' <=> (Passes(e, r, b) \/ (e \in dests /\ m = Getx(b, r)))
    /\ Acked(e, b)' <=> (Acked(e, b) \/ (e \in dests /\ m = Ack(b, e)))
    /\ Nacked(e, b)' <=> (Nacked(e, b) \/ (e \in dests /\ m = Nack(b, e)))

(* What the forward network holds once a cache has popped its head.        *)
LEMMA PopEffect ==
  ASSUME Typed, QueuesFormed, NEW c \in Caches, NEW d \in Dirs,
         NEW m, m = Head(fwdNet[d][c]), Forwarded(c, d), PopForward(c, d)
  PROVE  /\ m \in ForwardMsg /\ Home[m.addr] = d /\ m \in Fwd(c, m.addr)
         /\ m.type = "GETX" => m.requestor \in Caches
         /\ m.type \in {"WB_ACK", "WB_NACK"} => m.requestor = c
         /\ fwdNet' \in [Dirs -> [Caches -> Seq(ForwardMsg)]]
         /\ QueuesFormed'
         /\ PoppedBy(c, m)
<1> DEFINE q == fwdNet[d][c]
<1>1. q \in Seq(ForwardMsg) /\ q # <<>> /\ DistinctIn(q, Single)
  BY SMT DEF Typed, QueuesFormed, Forwarded
<1>2. /\ Tail(q) \in Seq(ForwardMsg)
      /\ m \in ForwardMsg /\ m \in Elements(q)
      /\ Elements(Tail(q)) \subseteq Elements(q)
      /\ \A x \in Single : x \in Elements(Tail(q))
                             <=> (x \in Elements(q) /\ x # m)
      /\ DistinctIn(Tail(q), Single)
  <2>1. /\ Tail(q) \in Seq(ForwardMsg)
        /\ Head(q) \in ForwardMsg /\ Head(q) \in Elements(q)
        /\ Elements(Tail(q)) \subseteq Elements(q)
        /\ \A x \in Single : x \in Elements(Tail(q))
                               <=> (x \in Elements(q) /\ x # Head(q))
        /\ DistinctIn(Tail(q), Single)
    <3> HIDE DEF q
    <3> QED  BY <1>1, QueuePopIn
  <2> QED  BY <2>1
<1>3. /\ Home[m.addr] = d /\ m \in Fwd(c, m.addr)
      /\ m.type = "GETX" => m.requestor \in Caches
      /\ m.type \in {"WB_ACK", "WB_NACK"} => m.requestor = c
  BY <1>1, <1>2, SMT DEF QueuesFormed, Fwd
<1>4. /\ fwdNet'[d][c] = Tail(q)
      /\ \A g \in Dirs, e \in Caches :
           ~(g = d /\ e = c) => fwdNet'[g][e] = fwdNet[g][e]
      /\ fwdNet' \in [Dirs -> [Caches -> Seq(ForwardMsg)]]
  BY <1>2 DEF Typed, PopForward
<1>5. QueuesFormed'
  <2> SUFFICES ASSUME NEW g \in Dirs, NEW e \in Caches
               PROVE  /\ DistinctIn(fwdNet'[g][e], Single)
                      /\ \A x \in Elements(fwdNet'[g][e]) :
                           /\ Home[x.addr] = g
                           /\ x.type = "GETX" => x.requestor \in Caches
                           /\ x.type \in {"WB_ACK", "WB_NACK"} => x.requestor = e
    BY DEF QueuesFormed
  <2>1. CASE g = d /\ e = c
    BY <2>1, <1>1, <1>2, <1>4, SMT DEF QueuesFormed
  <2>2. CASE ~(g = d /\ e = c)
    BY <2>2, <1>4, SMT DEF QueuesFormed
  <2> QED  BY <2>1, <2>2
<1>6. ASSUME NEW e \in Caches, NEW b \in Addr, NEW x \in Single, x.addr = b
      PROVE  x \in Fwd(e, b)' <=> (x \in Fwd(e, b) /\ ~(e = c /\ x = m))
  <2>1. Home[b] \in Dirs  BY MIAssumption DEF MIAssumption
  <2>2. CASE Home[b] = d /\ e = c
    BY <2>2, <1>1, <1>2, <1>4 DEF Fwd
  <2>3. CASE ~(Home[b] = d /\ e = c)
    <3>1. Fwd(e, b)' = Fwd(e, b)  BY <2>1, <2>3, <1>4 DEF Fwd
    <3>2. ~(e = c /\ x = m)  BY <2>3, <1>3, <1>6
    <3> QED  BY <3>1, <3>2
  <2> QED  BY <2>2, <2>3
<1>7. PoppedBy(c, m)
  BY <1>6, NamedMessages, MessagesDiffer, SMT DEF PoppedBy, Passes, Acked, Nacked
<1> QED  BY <1>2, <1>3, <1>4, <1>5, <1>7

\* A message that the directory may send.
MayForward(a, dests, t, r) ==
  /\ dests \subseteq Caches
  /\ t \in {"GETX", "WB_ACK", "WB_NACK", "INV"}
  /\ r \in Caches \union Dirs
  /\ t = "GETX" => r \in Caches
  /\ t \in {"WB_ACK", "WB_NACK"} => dests \subseteq {r}
  /\ t # "INV" => \A c \in dests : Msg(t, a, r) \notin Fwd(c, a)

(* Whoever is sent a message has it besides what it had.                   *)
LEMMA ForwardArrives ==
  ASSUME Typed, NEW a \in Addr, NEW dests, dests \subseteq Caches,
         NEW t, NEW r, Msg(t, a, r) \in ForwardMsg, Forward(a, dests, t, r)
  PROVE  ForwardedTo(dests, Msg(t, a, r))
<1> DEFINE d == Home[a]
           m == Msg(t, a, r)
<1>1. m \in ForwardMsg /\ m.addr = a
  BY DEF Msg
<1> HIDE DEF m
<1>2. d \in Dirs /\ \A b \in Addr : Home[b] \in Dirs
  BY MIAssumption DEF MIAssumption
<1>3. \A e \in Caches : fwdNet[d][e] \in Seq(ForwardMsg)
  BY <1>2, ZenonT(30) DEF Typed
<1>4. \A e \in Caches : Elements(Append(fwdNet[d][e], m))
                          = Elements(fwdNet[d][e]) \union {m}
  BY <1>1, <1>3, QueueAppend, SMT
<1>5. /\ \A e \in dests : fwdNet'[d][e] = Append(fwdNet[d][e], m)
      /\ \A e \in Caches \ dests : fwdNet'[d][e] = fwdNet[d][e]
      /\ \A g \in Dirs \ {d} : fwdNet'[g] = fwdNet[g]
  BY <1>2 DEF Forward, Typed, Msg, m
<1>6. ASSUME NEW e \in Caches, NEW b \in Addr, NEW x \in Single, x.addr = b
      PROVE  x \in Fwd(e, b)' <=> (x \in Fwd(e, b) \/ (e \in dests /\ x = m))
  <2>1. CASE Home[b] = d /\ e \in dests
    <3> fwdNet'[Home[b]][e] = Append(fwdNet[d][e], m)
      BY <2>1, <1>5
    <3>1. Fwd(e, b)' = Elements(Append(fwdNet[d][e], m))
      BY DEF Fwd
    <3>2. Fwd(e, b) = Elements(fwdNet[d][e])
      BY <2>1 DEF Fwd
    <3>3. Fwd(e, b)' = Fwd(e, b) \union {m}
      BY <3>1, <3>2, <1>4
    <3> QED  BY <2>1, <3>3
  <2>2. CASE ~(Home[b] = d /\ e \in dests)
    <3>1. Fwd(e, b)' = Fwd(e, b)  BY <2>2, <1>2, <1>5 DEF Fwd
    <3>2. ~(e \in dests /\ x = m)  BY <2>2, <1>1, <1>6
    <3> QED  BY <3>1, <3>2
  <2> QED  BY <2>1, <2>2
<1>7. ForwardedTo(dests, m)
  BY <1>6, NamedMessages, MessagesDiffer, SMT DEF ForwardedTo, Passes, Acked, Nacked
<1> QED  BY <1>7 DEF m

(* Without a message and a step of the directory the line stays as it is.  *)
LEMMA NoMessages ==
  ASSUME UNCHANGED fwdNet
  PROVE  /\ QueuesFormed => QueuesFormed'
         /\ \A e, r \in Caches, b \in Addr :
              /\ Passes(e, r, b)' <=> Passes(e, r, b)
              /\ Acked(e, b)' <=> Acked(e, b)
              /\ Nacked(e, b)' <=> Nacked(e, b)
         /\ UNCHANGED <<dstate, owner>> => \A e \in Caches, b \in Addr :
              /\ Owns(e, b)' <=> Owns(e, b)
              /\ InLine(e, b)' <=> InLine(e, b)
              /\ Preceded(e, b)' <=> Preceded(e, b)
              /\ Front(e, b)' <=> Front(e, b)
BY DEF QueuesFormed, Passes, Acked, Nacked, Fwd, Owns, InLine, Preceded, Front

-----------------------------------------------------------------------------
(* Lines that a step does not touch. *)

SameLine(b) ==
  /\ \A c \in Caches : st'[c][b] = st[c][b]
  /\ dstate'[b] = dstate[b] /\ owner'[b] = owner[b]
  /\ \A c, r \in Caches : Passes(c, r, b)' <=> Passes(c, r, b)
  /\ \A c \in Caches : Acked(c, b)' <=> Acked(c, b)
  /\ \A c \in Caches : Nacked(c, b)' <=> Nacked(c, b)
  /\ \A m : m.addr = b => /\ m \in reqNet' <=> m \in reqNet
                          /\ m \in dataNet' <=> m \in dataNet
                          /\ m \in memReq' <=> m \in memReq
                          /\ m \in responseFromMemory' <=> m \in responseFromMemory

(* A new block is a block.                                                 *)
LEMMA EmptyBlockType == EmptyBlock \in Data
  BY MIAssumption DEF MIAssumption, EmptyBlock, Data

-----------------------------------------------------------------------------
(* What a cache does in its steps. *)

\* Cache c asks for line a, in state s.
MissEffect(c, a, s) ==
  /\ st[c][a] = "I"
  /\ st' = [st EXCEPT ![c][a] = s]
  /\ reqNet' = reqNet \union {[type |-> "GETX", addr |-> a, requestor |-> c]}
  /\ UNCHANGED <<blk, dirVars, memVars, fwdNet, dataNet, dmaReqNet, latest>>

\* The answer m to its writeback of a leaves cache c in state s.
AnswerEffect(c, d, a, m, s) ==
  /\ m = Head(fwdNet[d][c])
  /\ m = Ack(a, c) \/ m = Nack(a, c)
  /\ Forwarded(c, d) /\ PopForward(c, d)
  /\ s = "I" => st[c][a] = "II" \/ m = Ack(a, c)
  /\ st[c][a] \in {"MI", "II"}
  /\ st' = [st EXCEPT ![c][a] = s]
  /\ blk' = [blk EXCEPT ![c][a] = EmptyBlock] \/ UNCHANGED blk
  /\ UNCHANGED <<dirVars, memVars, reqNet, dataNet, dmaReqNet, latest>>

-----------------------------------------------------------------------------
(* What a directory does in its steps. *)

(* In a stable state the directory waits for nothing from memory.          *)
LEMMA NothingPending ==
  ASSUME NEW a \in Addr, MemoryInv(a),
         dstate[a] \notin {"IM", "ID", "ID_W"} \union Returning
  PROVE  \A m \in memReq \union responseFromMemory : m.addr # a
  BY DEF MemoryInv

(* Memory answers the directory: no other request for the line is pending. *)
LEMMA Answered ==
  ASSUME NEW a \in Addr, MemoryInv(a), NEW m \in responseFromMemory, m.addr = a
  PROVE  \A n \in memReq \union (responseFromMemory \ {m}) : n.addr # a
  BY DEF MemoryInv

\* The directory has done with line a, for which memory answered m.
DoneEffect(m, a) ==
  /\ m.addr = a
  /\ dstate' = [dstate EXCEPT ![a] = "I"]
  /\ dtbe' = [dtbe EXCEPT ![a] = NoTransfer]
  /\ responseFromMemory' = responseFromMemory \ {m}
  /\ UNCHANGED <<st, blk, owner, mem, memReq, reqNet, dataNet, dmaReqNet, latest>>

(* A message to nobody is no message.                                      *)
LEMMA ForwardNobody ==
  ASSUME Typed, NEW a \in Addr, NEW t, NEW r, Forward(a, {}, t, r)
  PROVE  UNCHANGED fwdNet
<1>1. Home[a] \in Dirs
  BY MIAssumption DEF MIAssumption
<1>2. fwdNet[Home[a]] \in [Caches -> Seq(ForwardMsg)]
  BY <1>1 DEF Typed
<1>3. [c \in Caches |-> fwdNet[Home[a]][c]] = fwdNet[Home[a]]
  BY <1>2
<1>4. fwdNet' = [fwdNet EXCEPT ![Home[a]] = [c \in Caches |-> fwdNet[Home[a]][c]]]
  BY DEF Forward
<1> QED  BY <1>1, <1>3, <1>4 DEF Typed

-----------------------------------------------------------------------------
(* Memory, and the steps that move no message of a line. *)

(* A write to memory carries a line, a partial one a transfer.             *)
LEMMA RequestData ==
  ASSUME NEW r \in MemoryReq
  PROVE  /\ r.type = "WRITE" => r.data \in Data
         /\ r.type = "PARTIAL" => r.transfer \in Transfer
<1>1. CASE r \in [type : {"READ"}, addr : Addr, requestor : Caches \union Dmas]
  BY <1>1
<1>2. CASE r \in [type : {"WRITE"}, addr : Addr, requestor : Caches, data : Data]
  BY <1>2
<1>3. CASE r \in [type : {"PARTIAL"}, addr : Addr,
                 requestor : Caches \union Dmas, transfer : Transfer]
  BY <1>3
<1> QED  BY <1>1, <1>2, <1>3 DEF MemoryReq

-----------------------------------------------------------------------------
(* Every step. *)

(* The message at the head of a queue that a cache handles is one of those *)
(* named above.                                                            *)
LEMMA ForwardedHead ==
  ASSUME ControlInv, NEW c \in Caches, NEW d \in Dirs,
         FwdGETX(c, d) \/ Inv(c, d) \/ WritebackAck(c, d) \/ WritebackNack(c, d),
         NEW m, m = Head(fwdNet[d][c])
  PROVE  /\ m.addr \in Addr
         /\ m.type = "GETX" => /\ m.requestor \in Caches
                               /\ m = Getx(m.addr, m.requestor)
         /\ m.type = "WB_ACK" => m = Ack(m.addr, c)
         /\ m.type = "WB_NACK" => m = Nack(m.addr, c)
<1>1. Typed /\ QueuesFormed
  BY DEF ControlInv
<1>2. Forwarded(c, d)
  <2>1. /\ FwdGETX(c, d) => Forwarded(c, d)
        /\ Inv(c, d) => Forwarded(c, d)
        /\ WritebackAck(c, d) => Forwarded(c, d)
        /\ WritebackNack(c, d) => Forwarded(c, d)
    BY DEF FwdGETX, Inv, WritebackAck, WritebackNack
  <2> QED  BY <2>1
<1>3. m \in ForwardMsg /\ m \in Elements(fwdNet[d][c])
  <2> DEFINE q == fwdNet[d][c]
  <2>1. q \in Seq(ForwardMsg) /\ q # <<>> /\ DistinctIn(q, Single)
    BY <1>1, <1>2, SMT DEF Typed, QueuesFormed, Forwarded
  <2>2. Head(q) \in ForwardMsg /\ Head(q) \in Elements(q)
    <3> HIDE DEF q
    <3> QED  BY <2>1, QueuePopIn
  <2> QED  BY <2>2
<1>4. /\ m.type = "GETX" => m.requestor \in Caches
      /\ m.type \in {"WB_ACK", "WB_NACK"} => m.requestor = c
  BY <1>1, <1>3, SMT DEF QueuesFormed
<1> QED  BY <1>3, <1>4, ForwardFields

(* At the start there is no message and nobody stands in line.             *)
LEMMA ControlInit == Init => ControlInv
<1> SUFFICES ASSUME Init PROVE ControlInv
  BY SMT
<1>1. Typed
  <2>1. /\ st \in [Caches -> [Addr -> L1State]]
        /\ dstate \in [Addr -> DirState]
        /\ owner \in [Addr -> SUBSET Caches]
        /\ \A a \in Addr : dstate[a] = "I"
    BY DEF Init, L1State, DirState
  <2>2. /\ blk \in [Caches -> [Addr -> Data]]
        /\ mem \in [Addr -> Data]
        /\ latest \in [Addr -> Data]
    BY EmptyBlockType DEF Init
  <2>3. fwdNet \in [Dirs -> [Caches -> Seq(ForwardMsg)]]
    BY SMT DEF Init
  <2>4. /\ dtbe \in [Addr -> Transfer \union {NoTransfer}]
        /\ reqNet = {} /\ dataNet = {} /\ memReq = {}
        /\ responseFromMemory = {} /\ dmaReqNet = {}
    BY DEF Init
  <2> QED  BY <2>1, <2>2, <2>3, <2>4 DEF Typed
<1>2. \A d \in Dirs, c \in Caches :
        Elements(fwdNet[d][c]) = {} /\ DistinctIn(fwdNet[d][c], Single)
  <2>1. \A d \in Dirs, c \in Caches : fwdNet[d][c] = <<>>
    BY DEF Init
  <2> QED  BY <2>1, QueueEmpty
<1>3. QueuesFormed
  BY <1>2 DEF QueuesFormed
<1>4. ASSUME NEW a \in Addr
      PROVE  AllInv(a)
  <2>1. Home[a] \in Dirs
    BY MIAssumption
  <2>2. /\ \A c, r \in Caches : ~Passes(c, r, a)
        /\ \A c \in Caches : ~Acked(c, a) /\ ~Nacked(c, a)
    <3>1. \A c \in Caches : Fwd(c, a) = {}
      BY <1>2, <2>1 DEF Fwd
    <3> QED  BY <3>1 DEF Passes, Acked, Nacked
  <2>3. /\ dstate[a] = "I" /\ \A c \in Caches : st[c][a] = "I"
        /\ reqNet = {} /\ dataNet = {} /\ memReq = {} /\ responseFromMemory = {}
    BY DEF Init
  <2>4. \A c \in Caches : /\ ~InLine(c, a) /\ ~Preceded(c, a) /\ ~Front(c, a)
                          /\ ~Asks(c, a) /\ ~Sent(c, a) /\ ~Puts(c, a)
                          /\ ~Returned(c, a)
    BY <2>2, <2>3
       DEF InLine, Owns, Owned, Preceded, Front, Asks, Sent, Puts,
                      Returned, Returning
  <2> QED
    BY <2>2, <2>3, <2>4
       DEF AllInv, LineInv, AskInv, PutInv, MemoryInv, Owned
<1> QED  BY <1>1, <1>3, <1>4 DEF ControlInv

(* Every step keeps the invariant.                                         *)
LEMMA ControlStep ==
  ControlInv /\ [Next]_vars => ControlInv'

(* What it holds once a directory has sent a message.                      *)
<1>ForwardEffect.
  ASSUME Typed, QueuesFormed, NEW a \in Addr, NEW dests, NEW t, NEW r,
         MayForward(a, dests, t, r), Forward(a, dests, t, r)
  PROVE  /\ fwdNet' \in [Dirs -> [Caches -> Seq(ForwardMsg)]]
         /\ QueuesFormed'
         /\ ForwardedTo(dests, Msg(t, a, r))
  <2> USE <1>ForwardEffect
  <2> DEFINE d == Home[a]
             m == Msg(t, a, r)
  <2>1. m \in ForwardMsg /\ m.addr = a /\ (m \in Single <=> t # "INV")
        /\ m.type = t /\ m.requestor = r
    BY DEF ForwardMsg, Single, Msg, MayForward
  <2> HIDE DEF m
  <2>2. d \in Dirs /\ \A b \in Addr : Home[b] \in Dirs
    BY MIAssumption DEF MIAssumption
  <2> dests \subseteq Caches  BY DEF MayForward
  <2>3. \A e \in Caches : /\ fwdNet[d][e] \in Seq(ForwardMsg)
                          /\ DistinctIn(fwdNet[d][e], Single)
    BY <2>2, SMT DEF Typed, QueuesFormed
  <2>4. \A e \in Caches : /\ Append(fwdNet[d][e], m) \in Seq(ForwardMsg)
                          /\ Elements(Append(fwdNet[d][e], m))
                               = Elements(fwdNet[d][e]) \union {m}
    BY <2>1, <2>3, QueueAppend, SMT
  <2>5. \A e \in dests : DistinctIn(Append(fwdNet[d][e], m), Single)
    <3> SUFFICES ASSUME NEW e \in dests
                 PROVE  DistinctIn(Append(fwdNet[d][e], m), Single)
      BY SMT
    <3>1. m \in Single => m \notin Elements(fwdNet[d][e])
      BY <2>1 DEF Fwd, m, MayForward
    <3> QED  BY <3>1, <2>1, <2>3, QueueAppendIn
  <2>6. /\ \A e \in dests : fwdNet'[d][e] = Append(fwdNet[d][e], m)
        /\ \A e \in Caches \ dests : fwdNet'[d][e] = fwdNet[d][e]
        /\ \A g \in Dirs \ {d} : fwdNet'[g] = fwdNet[g]
    BY <2>2 DEF Forward, Typed, Msg, m
  <2>7. fwdNet' \in [Dirs -> [Caches -> Seq(ForwardMsg)]]
    BY <2>2, <2>4 DEF Forward, Typed, Msg, m
  <2>8. QueuesFormed'
    <3> SUFFICES ASSUME NEW g \in Dirs, NEW e \in Caches
                 PROVE  /\ DistinctIn(fwdNet'[g][e], Single)
                        /\ \A x \in Elements(fwdNet'[g][e]) :
                             /\ Home[x.addr] = g
                             /\ x.type = "GETX" => x.requestor \in Caches
                             /\ x.type \in {"WB_ACK", "WB_NACK"} => x.requestor = e
      BY DEF QueuesFormed
    <3>1. CASE g = d /\ e \in dests
      <4> fwdNet'[g][e] = Append(fwdNet[d][e], m)
        BY <3>1, <2>6
      <4>1. Elements(fwdNet'[g][e]) = Elements(fwdNet[d][e]) \union {m}
        BY <3>1, <2>4
      <4>2. /\ Home[m.addr] = g
            /\ m.type = "GETX" => m.requestor \in Caches
            /\ m.type \in {"WB_ACK", "WB_NACK"} => m.requestor = e
        BY <3>1, <2>1 DEF MayForward
      <4>3. DistinctIn(fwdNet'[g][e], Single)
        BY <3>1, <2>5
      <4> QED  BY <3>1, <4>1, <4>2, <4>3, SMT DEF QueuesFormed
    <3>2. CASE ~(g = d /\ e \in dests)
      BY <3>2, <2>6, SMT DEF QueuesFormed
    <3> QED  BY <3>1, <3>2
  <2>9. ForwardedTo(dests, m)
    BY <2>1, ForwardArrives DEF m
  <2> QED  BY <2>7, <2>8, <2>9 DEF m

(* They keep what held of them.                                            *)
<1>Untouched.
  ASSUME NEW b \in Addr, AllInv(b), SameLine(b)
  PROVE  AllInv(b)'
  <2> USE <1>Untouched
  <2>1. \A c \in Caches : /\ Owns(c, b)' <=> Owns(c, b)
                          /\ InLine(c, b)' <=> InLine(c, b)
                          /\ Preceded(c, b)' <=> Preceded(c, b)
                          /\ Front(c, b)' <=> Front(c, b)
    BY DEF SameLine, Owns, InLine, Preceded, Front
  <2>2. \A c \in Caches : /\ Asks(c, b)' <=> Asks(c, b)
                          /\ Sent(c, b)' <=> Sent(c, b)
                          /\ Puts(c, b)' <=> Puts(c, b)
                          /\ Returned(c, b)' <=> Returned(c, b)
    BY MessagesDiffer, SMT DEF SameLine, Asks, Sent, Puts, Returned
  <2>3. LineInv(b)'
    BY <2>1, <2>2, ZenonT(30) DEF AllInv, LineInv, SameLine
  <2>4. AskInv(b)'
    BY <2>1, <2>2 DEF AllInv, AskInv, SameLine
  <2>5. PutInv(b)'
    <3>1. \A c \in Caches : /\ st'[c][b] = st[c][b]
                            /\ Acked(c, b)' <=> Acked(c, b)
                            /\ Nacked(c, b)' <=> Nacked(c, b)
      BY DEF SameLine
    <3>2. \A m \in reqNet' : m.addr = b => m \in reqNet
      BY DEF SameLine
    <3>3. PutInv(b)
      BY DEF AllInv
    <3> QED  BY <2>1, <2>2, <3>1, <3>2, <3>3 DEF PutInv
  <2>6. MemoryInv(b)'
    BY <2>1, <2>2 DEF AllInv, MemoryInv, SameLine
  <2> QED  BY <2>3, <2>4, <2>5, <2>6 DEF AllInv

(* A step that touches one line only has to keep what holds of that line.  *)
<1>OneLine.
  ASSUME ControlInv, NEW a \in Addr, Typed', QueuesFormed', AllInv(a)',
         \A b \in Addr : b # a => SameLine(b)
  PROVE  ControlInv'
  <2> USE <1>OneLine
  <2>1. \A b \in Addr : AllInv(b)'
    BY <1>Untouched DEF ControlInv
  <2> QED  BY <2>1 DEF ControlInv

(* And one that touches none keeps everything.                             *)
<1>NoLine.
  ASSUME ControlInv, Typed', QueuesFormed', \A b \in Addr : SameLine(b)
  PROVE  ControlInv'
  <2> USE <1>NoLine
  <2>1. \A b \in Addr : AllInv(b)'
    BY <1>Untouched DEF ControlInv
  <2> QED  BY <2>1 DEF ControlInv

(* A miss: the request of a cache that does not stand in line.             *)
<1>MissStep.
  ASSUME ControlInv, NEW c \in Caches, NEW a \in Addr, NEW s \in Awaiting,
         MissEffect(c, a, s)
  PROVE  ControlInv'
  <2> USE <1>MissStep
  <2> USE DEF MissEffect
  <2>1. Typed /\ QueuesFormed /\ AllInv(a)
    BY DEF ControlInv
  <2>2. /\ \A e \in Caches, b \in Addr :
             st'[e][b] = IF e = c /\ b = a THEN s ELSE st[e][b]
        /\ st' \in [Caches -> [Addr -> L1State]]
    BY <2>1 DEF Typed, Awaiting, L1State
  <2>3. reqNet' = reqNet \union {Getx(a, c)}
    BY DEF Getx
  <2>4. Typed'
    BY <2>1, <2>2, <2>3, NamedMessages, SMT DEF Typed, dirVars, memVars
  <2>5. QueuesFormed'
    BY <2>1, NoMessages
  <2>6. \A b \in Addr : b # a => SameLine(b)
    <3>1. UNCHANGED <<dstate, owner, memReq, responseFromMemory, dataNet, fwdNet>>
      BY DEF dirVars, memVars
    <3>2. \A b \in Addr : b # a =>
            /\ \A e \in Caches : st'[e][b] = st[e][b]
            /\ \A m : m.addr = b => (m \in reqNet' <=> m \in reqNet)
      BY <2>2, <2>3, MessagesDiffer, SMT
    <3> QED  BY <3>1, <3>2, NoMessages DEF SameLine
  <2>7. \A e \in Caches :
          /\ \A r \in Caches : Passes(e, r, a)' <=> Passes(e, r, a)
          /\ Owns(e, a)' <=> Owns(e, a)
          /\ InLine(e, a)' <=> InLine(e, a)
          /\ Preceded(e, a)' <=> Preceded(e, a)
          /\ Front(e, a)' <=> Front(e, a)
          /\ Acked(e, a)' <=> Acked(e, a)
          /\ Nacked(e, a)' <=> Nacked(e, a)
    BY NoMessages DEF dirVars
  <2>8. \A e \in Caches :
          /\ Asks(e, a)' <=> (Asks(e, a) \/ e = c)
          /\ Sent(e, a)' <=> Sent(e, a)
          /\ Puts(e, a)' <=> Puts(e, a)
          /\ Returned(e, a)' <=> Returned(e, a)
    BY <2>3, MessagesDiffer, SMT DEF Asks, Sent, Puts, Returned, dirVars, memVars
  <2>9. ~InLine(c, a) /\ ~Preceded(c, a)
    BY <2>1 DEF AllInv, LineInv, Preceded
  <2>10. LineInv(a)'
    BY <2>1, <2>2, <2>7, <2>8, <2>9, ZenonT(60)
       DEF AllInv, LineInv, Awaiting, dirVars
  <2>11. AskInv(a)'
    BY <2>1, <2>2, <2>7, <2>8, <2>9, ZenonT(60)
       DEF AllInv, AskInv, Awaiting, dirVars
  <2>12. PutInv(a)'
    <3>1. \A m \in reqNet' : m.type = "PUTX" => m \in reqNet
      BY <2>3, MessagesDiffer, SMT
    <3>2. ~Puts(c, a) /\ ~Returned(c, a) /\ ~Acked(c, a) /\ ~Nacked(c, a)
      BY <2>1 DEF AllInv, PutInv
    <3> QED  BY <2>1, <2>2, <2>7, <2>8, <3>1, <3>2, SMT DEF AllInv, PutInv
  <2>13. MemoryInv(a)'
    BY <2>1 DEF AllInv, MemoryInv, dirVars, memVars
  <2> QED
    BY <2>4, <2>5, <2>6, <2>10, <2>11, <2>12, <2>13, <1>OneLine DEF AllInv

(* A replacement: the front of the line gives the line back.               *)
<1>PutStep.
  ASSUME ControlInv, NEW c \in Caches, NEW a \in Addr,
         st[c][a] = "M", IssuePUT(c, a),
         UNCHANGED <<dirVars, memVars, fwdNet, dataNet, dmaReqNet, latest>>
  PROVE  ControlInv'
  <2> USE <1>PutStep
  <2> DEFINE p == [type |-> "PUTX", addr |-> a, requestor |-> c, data |-> blk[c][a]]
  <2>1. Typed /\ QueuesFormed /\ AllInv(a)
    BY DEF ControlInv
  <2>2. /\ \A e \in Caches, b \in Addr :
             st'[e][b] = IF e = c /\ b = a THEN "MI" ELSE st[e][b]
        /\ st' \in [Caches -> [Addr -> L1State]]
    BY <2>1 DEF Typed, IssuePUT, L1State
  <2>3. /\ reqNet' = reqNet \union {p} /\ UNCHANGED blk
        /\ p \in RequestMsg
        /\ p.type = "PUTX" /\ p.addr = a /\ p.requestor = c
    BY <2>1, SMT DEF IssuePUT, RequestMsg, Typed
  <2> HIDE DEF p
  <2>4. Typed'
    BY <2>1, <2>2, <2>3 DEF Typed, dirVars, memVars
  <2>5. QueuesFormed'
    BY <2>1, NoMessages
  <2>6. \A b \in Addr : b # a => SameLine(b)
    <3>1. UNCHANGED <<dstate, owner, memReq, responseFromMemory, dataNet, fwdNet>>
      BY DEF dirVars, memVars
    <3>2. \A b \in Addr : b # a =>
            /\ \A e \in Caches : st'[e][b] = st[e][b]
            /\ \A m : m.addr = b => (m \in reqNet' <=> m \in reqNet)
      BY <2>2, <2>3
    <3> QED  BY <3>1, <3>2, NoMessages DEF SameLine
  <2>7. \A e \in Caches :
          /\ \A r \in Caches : Passes(e, r, a)' <=> Passes(e, r, a)
          /\ Owns(e, a)' <=> Owns(e, a)
          /\ InLine(e, a)' <=> InLine(e, a)
          /\ Preceded(e, a)' <=> Preceded(e, a)
          /\ Front(e, a)' <=> Front(e, a)
          /\ Acked(e, a)' <=> Acked(e, a)
          /\ Nacked(e, a)' <=> Nacked(e, a)
    BY NoMessages DEF dirVars
  <2>8. \A e \in Caches :
          /\ Asks(e, a)' <=> Asks(e, a)
          /\ Sent(e, a)' <=> Sent(e, a)
          /\ Puts(e, a)' <=> (Puts(e, a) \/ e = c)
          /\ Returned(e, a)' <=> Returned(e, a)
    BY <2>3, MessagesDiffer, SMT DEF Asks, Sent, Puts, Returned, dirVars, memVars
  <2>9. ~Puts(c, a) /\ ~Returned(c, a) /\ ~Acked(c, a) /\ ~Nacked(c, a)
    BY <2>1 DEF AllInv, PutInv
  <2>10. LineInv(a)'
    <3>1. /\ \A e \in Caches : e # c => st'[e][a] = st[e][a]
          /\ st'[c][a] = "MI"
      BY <2>2
    <3>2. ~Preceded(c, a) /\ ~Sent(c, a)
      BY <2>1 DEF AllInv, LineInv, Awaiting
    <3>3. dataNet' = dataNet /\ dstate' = dstate /\ LineInv(a)
      BY <2>1 DEF AllInv, dirVars
    <3> QED  BY <2>7, <2>8, <3>1, <3>2, <3>3, ZenonT(30) DEF LineInv
  <2>11. AskInv(a)'
    BY <2>1, <2>2, <2>7, <2>8, ZenonT(60) DEF AllInv, AskInv, Awaiting, dirVars
  <2>12. PutInv(a)'
    <3>1. \A m \in reqNet : ~(m.type = "PUTX" /\ m.addr = a /\ m.requestor = c)
      BY <2>9 DEF Puts
    <3>2. \A m, n \in reqNet' :
            m.type = "PUTX" /\ m.addr = a /\ n.type = "PUTX" /\ n.addr = a
              /\ m.requestor = n.requestor /\ m.requestor \in Caches
            => m = n
      BY <2>1, <2>3, <3>1, SMT DEF AllInv, PutInv
    <3>3. /\ \A e \in Caches : e # c => st'[e][a] = st[e][a]
          /\ st'[c][a] = "MI"
      BY <2>2
    <3>4. PutInv(a)
      BY <2>1 DEF AllInv
    <3> QED  BY <2>7, <2>8, <2>9, <3>2, <3>3, <3>4, ZenonT(60) DEF PutInv
  <2>13. MemoryInv(a)'
    BY <2>1 DEF AllInv, MemoryInv, dirVars, memVars
  <2> QED
    BY <2>4, <2>5, <2>6, <2>10, <2>11, <2>12, <2>13, <1>OneLine DEF AllInv

(* The front of the line passes the line on, and the next is the front.    *)
<1>FwdGETXStep.
  ASSUME ControlInv, NEW c \in Caches, NEW d \in Dirs, FwdGETX(c, d),
         NEW a \in Addr, NEW r \in Caches, Head(fwdNet[d][c]) = Getx(a, r)
  PROVE  ControlInv'
  <2> USE <1>FwdGETXStep
  <2> DEFINE x == [dest |-> r, addr |-> a, data |-> blk[c][a]]
             s == IF st[c][a] = "MI" THEN "II" ELSE "I"
  <2> DEFINE m == Getx(a, r)
  <2>1. m.addr = a /\ m.requestor = r /\ m.type = "GETX"
    BY MessagesDiffer, SMT
  <2> HIDE DEF m
  <2>2. /\ Typed /\ QueuesFormed
        /\ Forwarded(c, d) /\ PopForward(c, d) /\ m = Head(fwdNet[d][c])
        /\ st[c][a] \in {"M", "MI", "MII"}
    BY <2>1 DEF m, ControlInv, FwdGETX
  <2>3. /\ m \in Fwd(c, a)
        /\ fwdNet' \in [Dirs -> [Caches -> Seq(ForwardMsg)]] /\ QueuesFormed'
        /\ \A e, q \in Caches, b \in Addr :
             /\ Passes(e, q, b)' <=> (Passes(e, q, b) /\ ~(e = c /\ b = a /\ q = r))
             /\ Acked(e, b)' <=> Acked(e, b)
             /\ Nacked(e, b)' <=> Nacked(e, b)
    <3>1. /\ m \in Fwd(c, a) /\ PoppedBy(c, m)
          /\ fwdNet' \in [Dirs -> [Caches -> Seq(ForwardMsg)]] /\ QueuesFormed'
      BY <2>1, <2>2, PopEffect
    <3>2. \A e, q \in Caches, b \in Addr :
            (m = Getx(b, q) <=> (b = a /\ q = r)) /\ m # Ack(b, e) /\ m # Nack(b, e)
      BY MessagesDiffer, SMT DEF m
    <3> QED  BY <3>1, <3>2, SMT DEF PoppedBy
  <2>4. /\ \A e \in Caches, b \in Addr :
             st'[e][b] = IF e = c /\ b = a THEN s ELSE st[e][b]
        /\ st' \in [Caches -> [Addr -> L1State]]
        /\ blk' \in [Caches -> [Addr -> Data]]
        /\ dataNet' = dataNet \union {x}
    <3>1. /\ st' = [st EXCEPT ![c][m.addr] = IF @ = "MI" THEN "II" ELSE "I"]
          /\ dataNet' = dataNet \union {[dest |-> m.requestor, addr |-> m.addr,
                                         data |-> blk[c][m.addr]]}
          /\ blk' = [blk EXCEPT ![c][m.addr] = EmptyBlock]
      BY <2>2 DEF FwdGETX
    <3>3. blk' \in [Caches -> [Addr -> Data]]
      BY <2>1, <2>2, <3>1, EmptyBlockType DEF Typed
    <3>4. dataNet' = dataNet \union {x}
      BY <2>1, <3>1
    <3>5. /\ st' \in [Caches -> [Addr -> L1State]]
          /\ \A e \in Caches, b \in Addr :
               st'[e][b] = IF e = c /\ b = a THEN s ELSE st[e][b]
      BY <2>1, <2>2, <3>1 DEF Typed, L1State
    <3> QED  BY <3>3, <3>4, <3>5
  <2>5. AllInv(a) /\ Passes(c, r, a)
    BY <2>3 DEF ControlInv, Passes, m
  <2>6. UNCHANGED <<dstate, owner, dtbe, mem, memReq, responseFromMemory,
                    reqNet, dmaReqNet, latest>>
    BY DEF FwdGETX, dirVars, memVars, dmaVars
  <2>7. x \in DataMsg /\ x.addr = a /\ x.dest = r
    BY <2>2, SMT DEF DataMsg, Typed
  <2> HIDE DEF x
  <2>8. Typed'
    BY <2>2, <2>3, <2>4, <2>6, <2>7 DEF Typed
  <2>9. \A b \in Addr : b # a => SameLine(b)
    BY <2>3, <2>4, <2>6, <2>7 DEF SameLine
  <2>10. /\ InLine(c, a) /\ ~Preceded(c, a) /\ Front(c, a) /\ ~Owns(c, a)
         /\ Preceded(r, a) /\ r # c /\ InLine(r, a)
         /\ st[r][a] \in Awaiting /\ dstate[a] \in Owned
    <3>1. InLine(c, a) /\ Preceded(r, a)
      BY <2>5 DEF InLine, Preceded
    <3>2. ~Owns(c, a) /\ InLine(r, a) /\ st[r][a] \in Awaiting
      BY <2>5, <3>1 DEF AllInv, LineInv
    <3>3. ~Preceded(c, a)
      BY <2>2, <2>5 DEF AllInv, LineInv, Awaiting
    <3>4. Front(c, a)
      BY <3>1, <3>3 DEF Front
    <3> QED  BY <2>5, <3>1, <3>2, <3>3, <3>4 DEF AllInv, LineInv
  <2>11. /\ \A e \in Caches : ~Sent(e, a)
         /\ \A n \in dataNet : n.addr # a
    <3>1. \A e \in Caches : ~Sent(e, a)
      <4>1. \A e \in Caches : Sent(e, a) => Front(e, a) /\ st[e][a] \in Awaiting
        BY <2>5 DEF AllInv, LineInv
      <4>2. \A e \in Caches : Front(e, a) => e = c
        BY <2>5, <2>10 DEF AllInv, LineInv
      <4> QED  BY <2>2, <4>1, <4>2 DEF Awaiting
    <3> QED  BY <3>1, <2>2 DEF Sent, Typed, DataMsg
  <2>12. \A e \in Caches :
           /\ \A q \in Caches : Passes(e, q, a)' <=> (Passes(e, q, a) /\ e # c)
           /\ Owns(e, a)' <=> Owns(e, a)
           /\ InLine(e, a)' <=> (InLine(e, a) /\ e # c)
           /\ Preceded(e, a)' <=> (Preceded(e, a) /\ e # r)
    <3>6. /\ \A q \in Caches : Passes(c, q, a) => q = r
          /\ \A e \in Caches : Passes(e, r, a) => e = c
      BY <2>5 DEF AllInv, LineInv
    <3>7. \A e, q \in Caches :
            Passes(e, q, a)' <=> (Passes(e, q, a) /\ ~(e = c /\ q = r))
      BY <2>3
    <3>1. \A e, q \in Caches : Passes(e, q, a)' <=> (Passes(e, q, a) /\ e # c)
      BY <3>6, <3>7
    <3>2. \A e, q \in Caches : Passes(e, q, a)' <=> (Passes(e, q, a) /\ q # r)
      BY <3>6, <3>7
    <3>3. \A e \in Caches : Owns(e, a)' <=> Owns(e, a)
      BY <2>6 DEF Owns
    <3>4. \A e \in Caches : InLine(e, a)' <=> (InLine(e, a) /\ e # c)
      BY <2>10, <3>1, <3>3 DEF InLine
    <3>5. \A e \in Caches : Preceded(e, a)' <=> (Preceded(e, a) /\ e # r)
      BY <3>2 DEF Preceded
    <3> QED  BY <3>1, <3>3, <3>4, <3>5
  <2>13. \A e \in Caches : Front(e, a)' <=> e = r
    <3>1. \A e \in Caches : Front(e, a) => e = c
      BY <2>5, <2>10 DEF AllInv, LineInv
    <3> QED  BY <2>10, <2>12, <3>1 DEF Front
  <2>14. \A e \in Caches :
           /\ Asks(e, a)' <=> Asks(e, a)
           /\ Sent(e, a)' <=> e = r
           /\ Puts(e, a)' <=> Puts(e, a)
           /\ Returned(e, a)' <=> Returned(e, a)
    BY <2>4, <2>6, <2>7, <2>11 DEF Asks, Sent, Puts, Returned
  <2>15. LineInv(a)'
    <3>1. \A e, q \in Caches : Passes(e, q, a) => Preceded(q, a)
      BY DEF Preceded
    <3>2. \A k, n \in dataNet' : k.addr = a /\ n.addr = a => k = n
      BY <2>4, <2>11
    <3>3. \A e \in Caches : st[e][a] = "M" => e = c
      BY <2>5, <2>10 DEF AllInv, LineInv
    <3>4. \A e \in Caches : e # c => st'[e][a] = st[e][a]
      BY <2>4
    <3>5. st'[c][a] \in {"I", "II"}
      BY <2>4
    <3>6. dstate' = dstate /\ LineInv(a)
      BY <2>5, <2>6 DEF AllInv
    <3> QED
      BY <2>10, <2>12, <2>13, <2>14, <3>1, <3>2, <3>3, <3>4, <3>5, <3>6, ZenonT(60)
         DEF LineInv
  <2>16. AskInv(a)'
    BY <2>2, <2>4, <2>5, <2>6, <2>10, <2>12, <2>14, ZenonT(60)
       DEF AllInv, AskInv, Awaiting, Owned
  <2>17. PutInv(a)'
    <3>1. \A e \in Caches :
            st[e][a] \in {"MI", "II"} => st'[e][a] \in {"MI", "II"}
      BY <2>2, <2>4
    <3> QED  BY <3>1, <2>3, <2>5, <2>6, <2>12, <2>14, ZenonT(30)
                DEF AllInv, PutInv
  <2>18. MemoryInv(a)'
    BY <2>5, <2>6 DEF AllInv, MemoryInv
  <2> QED
    BY <2>3, <2>8, <2>9, <2>15, <2>16, <2>17, <2>18, <1>OneLine DEF AllInv

(* An invalidation that finds nothing to invalidate is dropped.            *)
<1>InvStep.
  ASSUME ControlInv, NEW c \in Caches, NEW d \in Dirs,
         NEW m, m = Head(fwdNet[d][c]), m.type = "INV",
         Forwarded(c, d), PopForward(c, d),
         UNCHANGED <<l1Vars, dirVars, memVars, reqNet, dataNet, dmaReqNet, latest>>
  PROVE  ControlInv'
  <2> USE <1>InvStep
  <2>1. Typed /\ QueuesFormed
    BY DEF ControlInv
  <2>2. /\ PoppedBy(c, m)
        /\ fwdNet' \in [Dirs -> [Caches -> Seq(ForwardMsg)]] /\ QueuesFormed'
    BY <2>1, PopEffect
  <2>3. \A e, r \in Caches, b \in Addr :
          m # Getx(b, r) /\ m # Ack(b, e) /\ m # Nack(b, e)
    BY MessagesDiffer, SMT
  <2>4. \A b \in Addr : SameLine(b)
    BY <2>2, <2>3, ZenonT(30) DEF SameLine, PoppedBy, l1Vars, dirVars, memVars
  <2>5. Typed'
    BY <2>1, <2>2 DEF Typed, l1Vars, dirVars, memVars
  <2> QED  BY <2>2, <2>4, <2>5, <1>NoLine

(* The answer to a writeback finds a cache that is no longer in line, or   *)
(* that will pass the line on (WB_NACK in MI).                             *)
<1>AnswerStep.
  ASSUME ControlInv, NEW c \in Caches, NEW d \in Dirs, NEW a \in Addr,
         NEW m, NEW s \in {"I", "MII"}, AnswerEffect(c, d, a, m, s)
  PROVE  ControlInv'
  <2> USE <1>AnswerStep
  <2> USE DEF AnswerEffect
  <2>1. Typed /\ QueuesFormed /\ AllInv(a)
    BY DEF ControlInv
  <2>2. m.addr = a
    BY MessagesDiffer, SMT
  <2>3. /\ m \in Fwd(c, a) /\ PoppedBy(c, m)
        /\ fwdNet' \in [Dirs -> [Caches -> Seq(ForwardMsg)]] /\ QueuesFormed'
    BY <2>1, <2>2, PopEffect
  <2>4. /\ \A e \in Caches, b \in Addr :
             st'[e][b] = IF e = c /\ b = a THEN s ELSE st[e][b]
        /\ st' \in [Caches -> [Addr -> L1State]]
    BY <2>1 DEF Typed, L1State
  <2>5. Typed'
    <3>1. blk' \in [Caches -> [Addr -> Data]]
      <4>1. CASE blk' = [blk EXCEPT ![c][a] = EmptyBlock]
        BY <2>1, <4>1, EmptyBlockType DEF Typed
      <4>2. CASE UNCHANGED blk
        BY <2>1, <4>2 DEF Typed
      <4> QED  BY <4>1, <4>2
    <3> QED  BY <2>1, <2>3, <2>4, <3>1, ZenonT(30) DEF Typed, dirVars, memVars
  <2>6. \A e, r \in Caches, b \in Addr :
          /\ m # Getx(b, r)
          /\ m = Ack(b, e) => e = c /\ b = a
          /\ m = Nack(b, e) => e = c /\ b = a
    BY MessagesDiffer, SMT
  <2>7. \A b \in Addr : b # a => SameLine(b)
    BY <2>3, <2>4, <2>6, ZenonT(30) DEF SameLine, PoppedBy, dirVars, memVars
  <2>8. UNCHANGED <<dstate, owner, memReq, responseFromMemory, reqNet, dataNet>>
    BY DEF dirVars, memVars
  <2>9. \A e \in Caches :
          /\ \A r \in Caches : Passes(e, r, a)' <=> Passes(e, r, a)
          /\ e # c => (Acked(e, a)' <=> Acked(e, a)) /\ (Nacked(e, a)' <=> Nacked(e, a))
    BY <2>3, <2>6 DEF PoppedBy
  <2>10. \A e \in Caches :
          /\ Owns(e, a)' <=> Owns(e, a)
          /\ InLine(e, a)' <=> InLine(e, a)
          /\ Preceded(e, a)' <=> Preceded(e, a)
          /\ Front(e, a)' <=> Front(e, a)
          /\ Asks(e, a)' <=> Asks(e, a)
          /\ Sent(e, a)' <=> Sent(e, a)
          /\ Puts(e, a)' <=> Puts(e, a)
          /\ Returned(e, a)' <=> Returned(e, a)
    BY <2>8, <2>9
       DEF Owns, InLine, Preceded, Front, Asks, Sent, Puts, Returned
  <2>11. /\ ~Acked(c, a)' /\ ~Nacked(c, a)' /\ ~Puts(c, a) /\ ~Returned(c, a)
         /\ s = "I" => ~InLine(c, a)
    <3>1. Acked(c, a) \/ Nacked(c, a)
      BY <2>3 DEF Acked, Nacked
    <3>2. m = Ack(a, c) <=> Acked(c, a)
      BY <2>1, <2>3, <3>1 DEF Acked, Nacked, AllInv, PutInv
    <3>3. m = Nack(a, c) <=> Nacked(c, a)
      BY <2>1, <2>3, <3>1 DEF Acked, Nacked, AllInv, PutInv
    <3>4. ~Acked(c, a)' /\ ~Nacked(c, a)'
      BY <2>3, <3>2, <3>3 DEF PoppedBy
    <3>5. ~Puts(c, a) /\ ~Returned(c, a) /\ (Acked(c, a) => ~InLine(c, a))
      BY <2>1, <3>1 DEF AllInv, PutInv
    <3>6. st[c][a] = "II" => ~InLine(c, a)
      BY <2>1 DEF AllInv, LineInv
    <3> QED  BY <3>2, <3>4, <3>5, <3>6
  <2>12. \A e \in Caches : e # c => st'[e][a] = st[e][a]
    BY <2>4
  <2>13. st'[c][a] = s /\ ~Asks(c, a) /\ ~Sent(c, a) /\ ~Preceded(c, a)
         /\ ~(dstate[a] = "IM" /\ c \in owner[a])
    BY <2>1, <2>4, ZenonT(30) DEF AllInv, LineInv, AskInv, Awaiting
  <2>14. LineInv(a)'
    BY <2>1, <2>8, <2>9, <2>10, <2>11, <2>12, <2>13, SMT DEF AllInv, LineInv
  <2>15. AskInv(a)'
    BY <2>1, <2>8, <2>10, <2>11, <2>12, <2>13 DEF AllInv, AskInv
  <2>16. PutInv(a)'
    BY <2>1, <2>8, <2>9, <2>10, <2>11, <2>12, ZenonT(30) DEF AllInv, PutInv
  <2>17. MemoryInv(a)'
    BY <2>1, <2>8 DEF AllInv, MemoryInv
  <2> QED
    BY <2>3, <2>5, <2>7, <2>14, <2>15, <2>16, <2>17, <1>OneLine DEF AllInv

(* A store into a block makes a block.                                     *)
<1>StoreType.
  ASSUME NEW l \in Data, NEW w \in 1..LineWords, NEW v \in Values
  PROVE  [l EXCEPT ![w] = v] \in Data
    BY <1>StoreType DEF Data

(* The data reaches the front of the line, which becomes the writer.       *)
<1>CacheDataStep.
  ASSUME ControlInv, NEW c \in Caches, NEW m \in dataNet,
         NEW w \in 1..LineWords, NEW v \in Values, CacheData(c, m, w, v)
  PROVE  ControlInv'
  <2> USE <1>CacheDataStep
  <2> DEFINE a == m.addr
  <2>1. /\ Typed /\ QueuesFormed /\ AllInv(a)
        /\ a \in Addr /\ m.data \in Data /\ m.dest = c
    BY DEF ControlInv, Typed, DataMsg, CacheData
  <2>2. /\ st[c][a] \in Awaiting
        /\ st' = [st EXCEPT ![c][a] = "M"]
        /\ dataNet' = dataNet \ {m}
        /\ UNCHANGED <<dstate, owner, dtbe, mem, memReq, responseFromMemory,
                       reqNet, fwdNet, dmaReqNet>>
    BY DEF CacheData, Awaiting, dirVars, memVars, fwdVars, dmaVars
  <2>3. /\ \A e \in Caches, b \in Addr :
             st'[e][b] = IF e = c /\ b = a THEN "M" ELSE st[e][b]
        /\ st' \in [Caches -> [Addr -> L1State]]
    BY <2>1, <2>2 DEF Typed, L1State
  <2>4. /\ blk' \in [Caches -> [Addr -> Data]]
        /\ latest' \in [Addr -> Data]
    <3>1. CASE st[c][a] = "IM"
      <4>1. /\ blk' = [blk EXCEPT ![c][a] = [m.data EXCEPT ![w] = v]]
            /\ latest' = [latest EXCEPT ![a] = [latest[a] EXCEPT ![w] = v]]
        BY <3>1 DEF CacheData, StoreWord
      <4>2. [m.data EXCEPT ![w] = v] \in Data /\ [latest[a] EXCEPT ![w] = v] \in Data
        BY <2>1, <1>StoreType DEF Typed
      <4> QED  BY <2>1, <4>1, <4>2 DEF Typed
    <3>2. CASE st[c][a] # "IM"
      <4>1. blk' = [blk EXCEPT ![c][a] = m.data] /\ latest' = latest
        BY <3>2 DEF CacheData
      <4> QED  BY <2>1, <4>1 DEF Typed
    <3> QED  BY <3>1, <3>2
  <2>5. Typed'
    BY <2>1, <2>2, <2>3, <2>4 DEF Typed
  <2>6. QueuesFormed'
    BY <2>1, <2>2, NoMessages
  <2>7. \A b \in Addr : b # a => SameLine(b)
    BY <2>2, <2>3, NoMessages, ZenonT(60) DEF SameLine
  <2> HIDE DEF a
  <2>8. /\ \A e, r \in Caches : Passes(e, r, a)' <=> Passes(e, r, a)
        /\ \A e \in Caches :
             /\ Owns(e, a)' <=> Owns(e, a)
             /\ InLine(e, a)' <=> InLine(e, a)
             /\ Preceded(e, a)' <=> Preceded(e, a)
             /\ Front(e, a)' <=> Front(e, a)
             /\ Acked(e, a)' <=> Acked(e, a)
             /\ Nacked(e, a)' <=> Nacked(e, a)
    BY <2>1, <2>2, NoMessages
  <2>9. Sent(c, a)
    BY <2>1 DEF Sent, a
  <2>10. \A n \in dataNet' : n.addr # a
    BY <2>1, <2>2 DEF AllInv, LineInv, a
  <2>11. \A e \in Caches : /\ Asks(e, a)' <=> Asks(e, a)
                           /\ ~Sent(e, a)'
                           /\ Puts(e, a)' <=> Puts(e, a)
                           /\ Returned(e, a)' <=> Returned(e, a)
    BY <2>2, <2>10 DEF Asks, Sent, Puts, Returned
  <2>12. Front(c, a) /\ InLine(c, a) /\ ~Preceded(c, a) /\ dstate[a] \in Owned
    BY <2>1, <2>9 DEF AllInv, LineInv, Front
  <2>13. \A e \in Caches : e # c => st'[e][a] = st[e][a]
    BY <2>1, <2>3
  <2>14. LineInv(a)'
    <3>1. dstate' = dstate /\ LineInv(a) /\ st'[c][a] = "M"
      BY <2>1, <2>2, <2>3 DEF AllInv
    <3> QED
      BY <2>1, <2>8, <2>10, <2>11, <2>12, <2>13, <3>1, ZenonT(60) DEF LineInv
  <2>15. AskInv(a)'
    BY <2>1, <2>2, <2>8, <2>11, <2>12, <2>13 DEF AllInv, AskInv, Owned
  <2>16. PutInv(a)'
    BY <2>1, <2>2, <2>8, <2>11, <2>13, ZenonT(30) DEF AllInv, PutInv, Awaiting
  <2>17. MemoryInv(a)'
    BY <2>1, <2>2 DEF AllInv, MemoryInv
  <2> QED
    BY <2>1, <2>5, <2>6, <2>7, <2>14, <2>15, <2>16, <2>17, <1>OneLine
       DEF AllInv

(* A request for a line that no cache has is sent to memory.               *)
<1>DirFetchStep.
  ASSUME ControlInv, NEW m \in reqNet, m.type = "GETX", DirGETX(m),
         dstate[m.addr] = "I"
  PROVE  ControlInv'
  <2> USE <1>DirFetchStep
  <2> DEFINE a == m.addr
             r == m.requestor
             x == [type |-> "READ", addr |-> a, requestor |-> r]
  <2>1. /\ Typed /\ QueuesFormed /\ AllInv(a)
        /\ a \in Addr /\ r \in Caches /\ m = Getx(a, r)
    BY RequestFields DEF ControlInv, Typed
  <2>2. /\ dstate' = [dstate EXCEPT ![a] = "IM"]
        /\ owner' = [owner EXCEPT ![a] = {r}]
        /\ memReq' = memReq \union {x} /\ reqNet' = reqNet \ {m}
    BY DEF DirGETX
  <2>3. UNCHANGED <<st, blk, dtbe, mem, responseFromMemory, fwdNet, dataNet,
                    dmaReqNet, latest>>
    BY DEF DirGETX, l1Vars, dmaVars
  <2>4. x \in MemoryReq /\ x.addr = a /\ x.type = "READ" /\ x.requestor = r
    BY <2>1 DEF MemoryReq
  <2>5. dstate[a] = "I"  BY SMT
  <2> HIDE DEF a, r, x
  <2>6. /\ dstate'[a] = "IM" /\ owner'[a] = {r}
        /\ \A b \in Addr : b # a => dstate'[b] = dstate[b] /\ owner'[b] = owner[b]
        /\ dstate' \in [Addr -> DirState] /\ owner' \in [Addr -> SUBSET Caches]
    BY <2>1, <2>2 DEF Typed, DirState
  <2>7. Typed'
    BY <2>1, <2>2, <2>3, <2>4, <2>6, ZenonT(30) DEF Typed
  <2>8. QueuesFormed'
    BY <2>1, <2>3, NoMessages
  <2>9. \A b \in Addr : b # a => SameLine(b)
    <3>1. m.addr = a
      BY <2>1, MessagesDiffer, SMT
    <3>2. \A n : n.addr # a => /\ n \in reqNet' <=> n \in reqNet
                               /\ n \in memReq' <=> n \in memReq
      BY <2>2, <2>4, <3>1
    <3> QED  BY <2>3, <2>6, <3>2, NoMessages DEF SameLine
  <2>10. /\ \A e, q \in Caches : Passes(e, q, a)' <=> Passes(e, q, a)
         /\ \A e \in Caches : /\ Acked(e, a)' <=> Acked(e, a)
                              /\ Nacked(e, a)' <=> Nacked(e, a)
                              /\ ~Owns(e, a) /\ ~Owns(e, a)'
                              /\ ~Returned(e, a) /\ ~Returned(e, a)'
    BY <2>1, <2>3, <2>5, <2>6, NoMessages
       DEF Owns, Owned, Returned, Returning
  <2>11. \A e \in Caches : /\ InLine(e, a)' <=> InLine(e, a)
                           /\ Preceded(e, a)' <=> Preceded(e, a)
                           /\ Front(e, a)' <=> Front(e, a)
    BY <2>10 DEF InLine, Preceded, Front
  <2>12. \A e \in Caches : /\ Asks(e, a)' <=> (Asks(e, a) /\ e # r)
                           /\ Sent(e, a)' <=> Sent(e, a)
                           /\ Puts(e, a)' <=> Puts(e, a)
    <3>1. m.type = "GETX" /\ \A e \in Caches : m = Getx(a, e) <=> e = r
      BY <2>1, MessagesDiffer, SMT
    <3>2. \A e \in Caches : Asks(e, a)' <=> (Asks(e, a) /\ e # r)
      BY <2>2, <3>1 DEF Asks
    <3>3. \A e \in Caches : Puts(e, a)' <=> Puts(e, a)
      BY <2>2, <3>1 DEF Puts
    <3> QED  BY <2>3, <3>2, <3>3 DEF Sent
  <2>13. Asks(r, a) /\ st[r][a] \in Awaiting
    BY <2>1 DEF Asks, AllInv, AskInv
  <2>14. LineInv(a)'
    <3>1. LineInv(a) /\ st' = st /\ dataNet' = dataNet
      BY <2>1, <2>3 DEF AllInv
    <3>2. \A e \in Caches : ~Front(e, a)
      BY <2>1, <2>5 DEF AllInv, LineInv, Owned
    <3> QED
      BY <2>10, <2>11, <2>12, <3>1, <3>2, ZenonT(30) DEF LineInv
  <2>15. AskInv(a)'
    BY <2>1, <2>3, <2>6, <2>11, <2>12, <2>13 DEF AllInv, AskInv
  <2>16. PutInv(a)'
    <3>1. PutInv(a) /\ st' = st /\ \A n \in reqNet' : n \in reqNet
      BY <2>1, <2>2, <2>3 DEF AllInv
    <3> QED
      BY <2>10, <2>11, <2>12, <3>1, ZenonT(30) DEF PutInv
  <2>17. MemoryInv(a)'
    <3>1. \A n \in memReq \union responseFromMemory : n.addr # a
      BY <2>1, <2>5, NothingPending DEF AllInv, Returning
    <3> QED  BY <3>1, <2>2, <2>3, <2>4, <2>6, ZenonT(30) DEF MemoryInv
  <2> QED
    BY <2>1, <2>7, <2>8, <2>9, <2>14, <2>15, <2>16, <2>17, <1>OneLine
       DEF AllInv

(* A request for a line that a cache owns goes to the end of the line.     *)
<1>DirForwardStep.
  ASSUME ControlInv, NEW m \in reqNet, m.type = "GETX", DirGETX(m),
         dstate[m.addr] = "M"
  PROVE  ControlInv'
  <2> USE <1>DirForwardStep
  <2> DEFINE a == m.addr
             r == m.requestor
  <2>1. /\ Typed /\ QueuesFormed /\ AllInv(a)
        /\ a \in Addr /\ r \in Caches /\ m = Getx(a, r)
    BY RequestFields DEF ControlInv, Typed
  <2>2. /\ owner' = [owner EXCEPT ![a] = {r}]
        /\ Forward(a, owner[a], "GETX", r) /\ reqNet' = reqNet \ {m}
    BY DEF DirGETX
  <2>3. UNCHANGED <<dstate, memReq, st, blk, dtbe, mem, responseFromMemory, dataNet,
                    dmaReqNet, latest>>
    BY DEF DirGETX, l1Vars, dmaVars
  <2>5. dstate[a] = "M"  BY SMT
  <2> HIDE DEF a, r
  <2>6. /\ owner'[a] = {r}
        /\ \A b \in Addr : b # a => owner'[b] = owner[b]
        /\ owner' \in [Addr -> SUBSET Caches]
    BY <2>1, <2>2 DEF Typed
  <2>7. PICK o \in Caches : owner[a] = {o}
    BY <2>1, <2>5 DEF AllInv, AskInv, Owned
  <2>8. /\ Owns(o, a) /\ InLine(o, a) /\ \A q \in Caches : ~Passes(o, q, a)
        /\ Asks(r, a) /\ st[r][a] \in Awaiting /\ ~InLine(r, a) /\ ~Preceded(r, a)
    <3>1. Owns(o, a) /\ InLine(o, a) /\ Asks(r, a)
      BY <2>1, <2>5, <2>7 DEF Owns, Owned, InLine, Asks
    <3>2. st[r][a] \in Awaiting /\ ~InLine(r, a)
      BY <2>1, <3>1 DEF AllInv, AskInv
    <3> QED  BY <2>1, <3>1, <3>2 DEF AllInv, LineInv, Preceded
  <2>4. /\ fwdNet' \in [Dirs -> [Caches -> Seq(ForwardMsg)]] /\ QueuesFormed'
        /\ ForwardedTo({o}, m)
    <3>1. m = Msg("GETX", a, r)
      BY <2>1 DEF Getx, Msg
    <3>2. MayForward(a, {o}, "GETX", r)
      <4>1. m \notin Fwd(o, a)
        BY <2>1, <2>8 DEF Passes
      <4> QED  BY <2>1, <3>1, <4>1 DEF MayForward
    <3>3. Forward(a, {o}, "GETX", r)
      BY <2>2, <2>7
    <3> QED
      BY <2>1, <3>1, <3>2, <3>3, <1>ForwardEffect
  <2>9. \A e, q \in Caches, b \in Addr :
          /\ Passes(e, q, b)' <=> (Passes(e, q, b) \/ (e = o /\ b = a /\ q = r))
          /\ Acked(e, b)' <=> Acked(e, b)
          /\ Nacked(e, b)' <=> Nacked(e, b)
    <3>1. \A e, q \in Caches, b \in Addr :
            (m = Getx(b, q) <=> (b = a /\ q = r)) /\ m # Ack(b, e) /\ m # Nack(b, e)
      BY <2>1, MessagesDiffer, SMT
    <3> QED  BY <2>4, <3>1, SMT DEF ForwardedTo
  <2>10. Typed'
    BY <2>1, <2>2, <2>3, <2>4, <2>6 DEF Typed
  <2>11. \A b \in Addr : b # a => SameLine(b)
    <3>1. m.addr = a
      BY <2>1, MessagesDiffer, SMT
    <3>2. \A n : n.addr # a => (n \in reqNet' <=> n \in reqNet)
      BY <2>2, <3>1
    <3>3. \A e, q \in Caches, b \in Addr : b # a =>
            /\ Passes(e, q, b)' <=> Passes(e, q, b)
            /\ Acked(e, b)' <=> Acked(e, b)
            /\ Nacked(e, b)' <=> Nacked(e, b)
      BY <2>9
    <3> QED  BY <2>3, <2>6, <3>2, <3>3 DEF SameLine
  <2>12. \A e \in Caches : /\ Owns(e, a)' <=> e = r
                           /\ InLine(e, a)' <=> (InLine(e, a) \/ e = r)
                           /\ Preceded(e, a)' <=> (Preceded(e, a) \/ e = r)
    <3>1. \A e \in Caches : (Owns(e, a)' <=> e = r) /\ (Owns(e, a) <=> e = o)
      BY <2>1, <2>3, <2>5, <2>6, <2>7 DEF Owns, Owned
    <3>2. \A e \in Caches : InLine(e, a)' <=> (InLine(e, a) \/ e = r)
      BY <2>1, <2>9, <3>1 DEF InLine
    <3>3. \A e \in Caches : Preceded(e, a)' <=> (Preceded(e, a) \/ e = r)
      BY <2>1, <2>9 DEF Preceded
    <3> QED  BY <3>1, <3>2, <3>3
  <2>13. \A e \in Caches : Front(e, a)' <=> Front(e, a)
    BY <2>1, <2>8, <2>12 DEF Front
  <2>14. \A e \in Caches : /\ Asks(e, a)' <=> (Asks(e, a) /\ e # r)
                           /\ Sent(e, a)' <=> Sent(e, a)
                           /\ Puts(e, a)' <=> Puts(e, a)
                           /\ Returned(e, a)' <=> Returned(e, a)
    <3>1. m.type = "GETX" /\ \A e \in Caches : m = Getx(a, e) <=> e = r
      BY <2>1, MessagesDiffer, SMT
    <3>2. \A e \in Caches : Asks(e, a)' <=> (Asks(e, a) /\ e # r)
      BY <2>2, <3>1 DEF Asks
    <3>3. \A e \in Caches : Puts(e, a)' <=> Puts(e, a)
      BY <2>2, <3>1 DEF Puts
    <3> QED  BY <2>3, <3>2, <3>3 DEF Sent, Returned
  <2>15. LineInv(a)'
    <3>1. \A e, q \in Caches : Passes(e, q, a)' <=> (Passes(e, q, a) \/ (e = o /\ q = r))
      BY <2>1, <2>9
    <3>2. \A e \in Caches : ~Passes(e, r, a) /\ ~Passes(r, e, a) /\ o # r
      BY <2>1, <2>8 DEF Preceded, InLine
    <3>3. st[r][a] \notin {"I", "II"}
      BY <2>8 DEF Awaiting
    <3>4. st' = st /\ dstate' = dstate /\ dataNet' = dataNet /\ LineInv(a)
      BY <2>1, <2>3 DEF AllInv
    <3>5. \A e, q \in Caches : Passes(e, q, a)' => ~Owns(e, a)' /\ InLine(q, a)'
      <4>1. \A e, q \in Caches : Passes(e, q, a) => InLine(q, a)
        BY <3>4 DEF LineInv
      <4> QED  BY <2>1, <2>12, <3>1, <3>2, <4>1
    <3>6. \A e, q, s \in Caches : Passes(e, q, a)' /\ Passes(e, s, a)' => q = s
      <4>1. \A e, q, s \in Caches : Passes(e, q, a) /\ Passes(e, s, a) => q = s
        BY <3>4 DEF LineInv
      <4> QED  BY <2>8, <3>1, <4>1, SMT
    <3>7. \A e, f, q \in Caches : Passes(e, q, a)' /\ Passes(f, q, a)' => e = f
      <4>1. \A e, f, q \in Caches : Passes(e, q, a) /\ Passes(f, q, a) => e = f
        BY <3>4 DEF LineInv
      <4> QED  BY <3>1, <3>2, <4>1, SMT
    <3> QED
      BY <2>8, <2>12, <2>13, <2>14, <3>3, <3>4, <3>5, <3>6, <3>7, ZenonT(30)
         DEF LineInv
  <2>16. AskInv(a)'
    BY <2>1, <2>3, <2>5, <2>6, <2>12, <2>14 DEF AllInv, AskInv
  <2>17. PutInv(a)'
    <3>1. ~Acked(r, a)
      BY <2>1, <2>8 DEF AllInv, PutInv, Awaiting
    <3>2. PutInv(a) /\ st' = st /\ \A n \in reqNet' : n \in reqNet
      BY <2>1, <2>2, <2>3 DEF AllInv
    <3> QED
      BY <2>1, <2>9, <2>12, <2>14, <3>1, <3>2, ZenonT(60) DEF PutInv
  <2>18. MemoryInv(a)'
    <3>1. \A n \in memReq \union responseFromMemory : n.addr # a
      BY <2>1, <2>5, NothingPending DEF AllInv, Returning
    <3> QED  BY <3>1, <2>3 DEF MemoryInv
  <2> QED
    BY <2>1, <2>4, <2>10, <2>11, <2>15, <2>16, <2>17, <2>18, <1>OneLine
       DEF AllInv

(* The writeback of the owner empties the line.                            *)
<1>DirPUTXStep.
  ASSUME ControlInv, NEW m \in reqNet, DirPUTX(m)
  PROVE  ControlInv'
  <2> USE <1>DirPUTXStep
  <2> DEFINE a == m.addr
             r == m.requestor
             ds == CASE dstate[a] = "M" -> "MI" [] dstate[a] = "M_DRD" -> "M_DRDI"
                     [] dstate[a] = "M_DWR" -> "M_DWRI"
             x == IF dstate[a] = "M_DWR"
                  THEN [type |-> "PARTIAL", addr |-> a, requestor |-> r,
                        transfer |-> dtbe[a]]
                  ELSE [type |-> "WRITE", addr |-> a, requestor |-> r,
                        data |-> m.data]
  <2>1. /\ Typed /\ QueuesFormed /\ AllInv(a) /\ m.type = "PUTX"
        /\ a \in Addr /\ r \in Caches /\ m.data \in Data
        /\ r \in owner[a] /\ dstate[a] \in Owned
    BY RequestFields DEF ControlInv, Typed, DirPUTX, IsOwner, Owned
  <2>2. /\ dstate' = [dstate EXCEPT ![a] = ds]
        /\ owner' = [owner EXCEPT ![a] = {}]
        /\ memReq' = memReq \union {x} /\ reqNet' = reqNet \ {m}
    BY DEF DirPUTX
  <2>3. UNCHANGED <<st, blk, dtbe, mem, responseFromMemory, fwdNet, dataNet,
                    dmaReqNet, latest>>
    BY DEF DirPUTX, l1Vars, fwdVars
  <2>4. /\ x \in MemoryReq /\ x.addr = a /\ x.requestor = r
        /\ x.type \in {"WRITE", "PARTIAL"}
    <3>1. CASE dstate[a] = "M_DWR"
      <4>1. dtbe[a] \in Transfer
        BY <2>1, <3>1 DEF Typed
      <4> QED  BY <2>1, <3>1, <4>1 DEF MemoryReq
    <3>2. CASE dstate[a] # "M_DWR"
      BY <2>1, <3>2 DEF MemoryReq
    <3> QED  BY <3>1, <3>2
  <2>5. ds \in Returning
    BY <2>1 DEF Owned, Returning
  <2> HIDE DEF a, r, ds, x
  <2>6. /\ dstate'[a] \in Returning /\ owner'[a] = {}
        /\ \A b \in Addr : b # a => dstate'[b] = dstate[b] /\ owner'[b] = owner[b]
        /\ dstate' \in [Addr -> DirState] /\ owner' \in [Addr -> SUBSET Caches]
    BY <2>1, <2>2, <2>5 DEF Typed, DirState, Returning
  <2>7. Typed'
    BY <2>1, <2>2, <2>3, <2>4, <2>6 DEF Typed, Returning
  <2>8. QueuesFormed'
    BY <2>1, <2>3, NoMessages
  <2>9. \A b \in Addr : b # a => SameLine(b)
    <3>1. \A n : n.addr # a => /\ n \in reqNet' <=> n \in reqNet
                               /\ n \in memReq' <=> n \in memReq
      BY <2>2, <2>4 DEF a
    <3> QED  BY <3>1, <2>3, <2>6, NoMessages DEF SameLine
  <2>10. /\ \A e, q \in Caches : Passes(e, q, a)' <=> Passes(e, q, a)
         /\ \A e \in Caches : /\ Acked(e, a)' <=> Acked(e, a)
                              /\ Nacked(e, a)' <=> Nacked(e, a)
                              /\ ~Owns(e, a)'
    BY <2>1, <2>3, <2>6, NoMessages DEF Owns
  <2>11. /\ Puts(r, a) /\ Owns(r, a) /\ InLine(r, a) /\ st[r][a] = "MI"
         /\ ~Preceded(r, a) /\ Front(r, a) /\ \A q \in Caches : ~Passes(r, q, a)
    <3>1. Puts(r, a) /\ Owns(r, a) /\ InLine(r, a)
      BY <2>1 DEF Puts, Owns, InLine, a, r
    <3>2. st[r][a] = "MI"
      BY <2>1, <3>1 DEF AllInv, PutInv, LineInv
    <3>3. ~Preceded(r, a)
      BY <2>1, <3>2 DEF AllInv, LineInv, Awaiting
    <3> QED  BY <2>1, <3>1, <3>2, <3>3 DEF Front, AllInv, LineInv
  <2>12. \A e \in Caches : /\ InLine(e, a)' <=> (InLine(e, a) /\ e # r)
                           /\ Preceded(e, a)' <=> Preceded(e, a)
                           /\ ~Front(e, a)'
    <3>1. PICK o \in Caches : owner[a] = {o}
      BY <2>1 DEF AllInv, AskInv
    <3>2. o = r
      BY <2>1, <3>1
    <3>3. \A e \in Caches : InLine(e, a)' <=> (InLine(e, a) /\ e # r)
      BY <2>10, <2>11, <3>1, <3>2 DEF InLine, Owns
    <3>4. \A e \in Caches : Preceded(e, a)' <=> Preceded(e, a)
      BY <2>10 DEF Preceded
    <3>5. \A e \in Caches : Front(e, a) => e = r
      BY <2>1, <2>11 DEF AllInv, LineInv
    <3> QED  BY <3>3, <3>4, <3>5 DEF Front
  <2>13. \A e \in Caches : ~Sent(e, a) /\ st[e][a] # "M"
    BY <2>1, <2>11 DEF AllInv, LineInv, Awaiting
  <2>14. \A n \in reqNet' : n.type = "PUTX" /\ n.addr = a => n.requestor # r
    BY <2>1, <2>2 DEF AllInv, PutInv, a, r
  <2>15. \A e \in Caches : /\ Asks(e, a)' <=> Asks(e, a)
                           /\ ~Sent(e, a)'
                           /\ Puts(e, a)' <=> (Puts(e, a) /\ e # r)
    <3>1. \A e \in Caches : Asks(e, a)' <=> Asks(e, a)
      BY <2>1, <2>2, MessagesDiffer, SMT DEF Asks
    <3>2. \A e \in Caches : Puts(e, a)' <=> (Puts(e, a) /\ e # r)
      BY <2>1, <2>2, <2>14 DEF Puts, r
    <3> QED  BY <3>1, <3>2, <2>3, <2>13 DEF Sent
  <2>16. \A n \in memReq \union responseFromMemory : n.addr # a
    BY <2>1, NothingPending DEF AllInv, Returning, Owned
  <2>17. \A e \in Caches : Returned(e, a)' <=> e = r
    BY <2>2, <2>3, <2>4, <2>6, <2>16 DEF Returned
  <2>18. LineInv(a)'
    <3>1. \A e, q \in Caches : Passes(e, q, a) => q # r
      BY <2>11 DEF Preceded
    <3>2. \A e, q \in Caches : Passes(e, q, a)' => ~Owns(e, a)' /\ InLine(q, a)'
      BY <2>1, <2>10, <2>12, <3>1 DEF AllInv, LineInv
    <3> QED
      BY <2>1, <2>3, <2>10, <2>12, <2>13, <2>15, <3>2 DEF AllInv, LineInv
  <2>19. AskInv(a)'
    BY <2>1, <2>3, <2>6, <2>12, <2>15 DEF AllInv, AskInv, Owned, Returning
  <2>20. PutInv(a)'
    <3>1. ~Returned(r, a) /\ ~Acked(r, a) /\ ~Nacked(r, a)
      BY <2>1, <2>11 DEF AllInv, PutInv
    <3> SUFFICES ASSUME NEW e \in Caches
                 PROVE  /\ Puts(e, a)' \/ Returned(e, a)' \/ Acked(e, a)' \/ Nacked(e, a)'
                             => st'[e][a] \in {"MI", "II"}
                        /\ Puts(e, a)' => ~Returned(e, a)' /\ ~Acked(e, a)' /\ ~Nacked(e, a)'
                        /\ Returned(e, a)' => ~Acked(e, a)' /\ ~Nacked(e, a)'
                        /\ Acked(e, a)' => ~Nacked(e, a)' /\ ~InLine(e, a)'
      BY <2>1, <2>2, ZenonT(30) DEF AllInv, PutInv
    <3> QED
      BY <2>1, <2>3, <2>10, <2>11, <2>12, <2>15, <2>17, <3>1
         DEF AllInv, PutInv
  <2>21. MemoryInv(a)'
    BY <2>1, <2>2, <2>3, <2>4, <2>6, <2>16 DEF MemoryInv
  <2> QED
    BY <2>1, <2>7, <2>8, <2>9, <2>18, <2>19, <2>20, <2>21, <1>OneLine
       DEF AllInv

(* The writeback of a cache that has been told to pass the line on.        *)
<1>DirPUTXNotOwnerStep.
  ASSUME ControlInv, NEW m \in reqNet, DirPUTXNotOwner(m)
  PROVE  ControlInv'
  <2> USE <1>DirPUTXNotOwnerStep
  <2> DEFINE a == m.addr
             r == m.requestor
  <2>1. /\ Typed /\ QueuesFormed /\ AllInv(a)
        /\ a \in Addr /\ r \in Caches /\ m.type = "PUTX"
    BY RequestFields DEF ControlInv, Typed, DirPUTXNotOwner
  <2>2. Forward(a, {r}, "WB_NACK", r) /\ reqNet' = reqNet \ {m}
    BY DEF DirPUTXNotOwner
  <2>3. UNCHANGED <<st, blk, dstate, owner, dtbe, mem, memReq, responseFromMemory,
                    dataNet, dmaReqNet, latest>>
    BY DEF DirPUTXNotOwner, l1Vars, dirVars, memVars, dmaVars
  <2>4. Puts(r, a)
    BY <2>1 DEF Puts
  <2>5. \A n : n.addr # a => (n \in reqNet' <=> n \in reqNet)
    BY <2>2
  <2>6. \A n \in reqNet' : n.type = "PUTX" /\ n.addr = a => n.requestor # r
    BY <2>1, <2>2 DEF AllInv, PutInv
  <2> HIDE DEF a, r
  <2>7. /\ st[r][a] \in {"MI", "II"}
        /\ ~Returned(r, a) /\ ~Acked(r, a) /\ ~Nacked(r, a)
    BY <2>1, <2>4 DEF AllInv, PutInv
  <2>8. /\ fwdNet' \in [Dirs -> [Caches -> Seq(ForwardMsg)]] /\ QueuesFormed'
        /\ ForwardedTo({r}, Nack(a, r))
    <3>1. Nack(a, r) = Msg("WB_NACK", a, r)
      BY DEF Nack, Msg
    <3>2. MayForward(a, {r}, "WB_NACK", r)
      <4>1. Nack(a, r) \notin Fwd(r, a)
        BY <2>7 DEF Nacked
      <4> QED  BY <2>1, <3>1, <4>1 DEF MayForward
    <3> QED  BY <2>1, <2>2, <3>1, <3>2, <1>ForwardEffect
  <2>9. \A e, q \in Caches, b \in Addr :
          /\ Passes(e, q, b)' <=> Passes(e, q, b)
          /\ Acked(e, b)' <=> Acked(e, b)
          /\ Nacked(e, b)' <=> (Nacked(e, b) \/ (e = r /\ b = a))
    <3>1. \A e, q \in Caches, b \in Addr :
            /\ Nack(a, r) # Getx(b, q) /\ Nack(a, r) # Ack(b, e)
            /\ Nack(a, r) = Nack(b, e) <=> (e = r /\ b = a)
      BY MessagesDiffer, SMT
    <3> QED  BY <2>8, <3>1, ZenonT(30) DEF ForwardedTo
  <2>10. Typed'
    BY <2>1, <2>2, <2>3, <2>8 DEF Typed
  <2>11. \A b \in Addr : b # a => SameLine(b)
    BY <2>3, <2>5, <2>9 DEF SameLine
  <2>12. \A e \in Caches : /\ Owns(e, a)' <=> Owns(e, a)
                           /\ InLine(e, a)' <=> InLine(e, a)
                           /\ Preceded(e, a)' <=> Preceded(e, a)
                           /\ Front(e, a)' <=> Front(e, a)
                           /\ Sent(e, a)' <=> Sent(e, a)
                           /\ Returned(e, a)' <=> Returned(e, a)
    BY <2>1, <2>3, <2>9 DEF Owns, InLine, Preceded, Front, Sent, Returned
  <2>13. \A e \in Caches : /\ Asks(e, a)' <=> Asks(e, a)
                           /\ Puts(e, a)' <=> (Puts(e, a) /\ e # r)
    <3>1. \A e \in Caches : Asks(e, a)' <=> Asks(e, a)
      BY <2>1, <2>2, MessagesDiffer, SMT DEF Asks
    <3>2. \A e \in Caches : Puts(e, a)' <=> (Puts(e, a) /\ e # r)
      BY <2>1, <2>2, <2>6 DEF Puts, r
    <3> QED  BY <3>1, <3>2
  <2>14. LineInv(a)'
    BY <2>1, <2>3, <2>9, <2>12, ZenonT(30) DEF AllInv, LineInv
  <2>15. AskInv(a)'
    BY <2>1, <2>3, <2>12, <2>13 DEF AllInv, AskInv
  <2>16. PutInv(a)'
    <3>1. PutInv(a) /\ st' = st /\ \A n \in reqNet' : n \in reqNet
      BY <2>1, <2>2, <2>3 DEF AllInv
    <3> QED
      BY <2>1, <2>7, <2>9, <2>12, <2>13, <3>1, ZenonT(30) DEF PutInv
  <2>17. MemoryInv(a)'
    BY <2>1, <2>3 DEF AllInv, MemoryInv
  <2> QED
    BY <2>1, <2>8, <2>10, <2>11, <2>14, <2>15, <2>16, <2>17, <1>OneLine
       DEF AllInv

(* A DMA request for a line that no cache has.                             *)
<1>DirDMAFetchStep.
  ASSUME ControlInv, NEW m \in dmaReqNet, DirDMA(m), dstate[m.addr] = "I"
  PROVE  ControlInv'
  <2> USE <1>DirDMAFetchStep
  <2> DEFINE a == m.addr
             ds == IF m.type = "READ" THEN "ID" ELSE "ID_W"
             x == IF m.type = "READ"
                  THEN [type |-> "READ", addr |-> a, requestor |-> m.transfer.dma]
                  ELSE [type |-> "PARTIAL", addr |-> a,
                        requestor |-> m.transfer.dma, transfer |-> m.transfer]
  <2>0. m.transfer \in Transfer /\ m.transfer.dma \in Dmas
    BY DEF ControlInv, Typed, DMARequest, Transfer
  <2>1. Typed /\ QueuesFormed /\ AllInv(a) /\ dstate[a] = "I" /\ a \in Addr
    BY DEF ControlInv, Typed, DMARequest
  <2>2. /\ dstate' = [dstate EXCEPT ![a] = ds]
        /\ memReq' = memReq \union {x}
        /\ dtbe' = [dtbe EXCEPT ![a] = m.transfer]
        /\ dmaReqNet' = dmaReqNet \ {m}
    BY DEF DirDMA
  <2>3. UNCHANGED <<st, blk, owner, mem, responseFromMemory, reqNet, fwdNet,
                    dataNet, latest>>
    BY DEF DirDMA, l1Vars
  <2>4. /\ x \in MemoryReq /\ x.addr = a
        /\ \/ x.type = "READ" /\ ds = "ID"
           \/ x.type = "PARTIAL" /\ ds = "ID_W"
    BY <2>0, <2>1 DEF MemoryReq
  <2> HIDE DEF a, ds, x
  <2>5. /\ dstate'[a] = ds /\ ds \in {"ID", "ID_W"}
        /\ \A b \in Addr : b # a => dstate'[b] = dstate[b]
        /\ dstate' \in [Addr -> DirState]
    BY <2>1, <2>2, <2>4 DEF Typed, DirState
  <2>6. Typed'
    BY <2>0, <2>1, <2>2, <2>3, <2>4, <2>5 DEF Typed
  <2>7. QueuesFormed'
    BY <2>1, <2>3, NoMessages
  <2>8. \A b \in Addr : b # a => SameLine(b)
    BY <2>2, <2>3, <2>4, <2>5, NoMessages DEF SameLine
  <2>9. \A n \in memReq \union responseFromMemory : n.addr # a
    BY <2>1, NothingPending DEF AllInv, Returning
  <2>10. /\ \A e, q \in Caches : Passes(e, q, a)' <=> Passes(e, q, a)
         /\ \A e \in Caches : /\ Acked(e, a)' <=> Acked(e, a)
                              /\ Nacked(e, a)' <=> Nacked(e, a)
                              /\ ~Owns(e, a) /\ ~Owns(e, a)'
                              /\ ~Returned(e, a) /\ ~Returned(e, a)'
    BY <2>1, <2>3, <2>5, NoMessages DEF Owns, Owned, Returned, Returning
  <2>11. \A e \in Caches : /\ InLine(e, a)' <=> InLine(e, a)
                           /\ Preceded(e, a)' <=> Preceded(e, a)
                           /\ Front(e, a)' <=> Front(e, a)
                           /\ Asks(e, a)' <=> Asks(e, a)
                           /\ Sent(e, a)' <=> Sent(e, a)
                           /\ Puts(e, a)' <=> Puts(e, a)
    BY <2>3, <2>10 DEF InLine, Preceded, Front, Asks, Sent, Puts
  <2>12. LineInv(a)'
    BY <2>1, <2>3, <2>10, <2>11 DEF AllInv, LineInv, Owned
  <2>13. AskInv(a)'
    BY <2>1, <2>3, <2>5, <2>11 DEF AllInv, AskInv, Owned
  <2>14. PutInv(a)'
    BY <2>1, <2>3, <2>10, <2>11 DEF AllInv, PutInv
  <2>15. MemoryInv(a)'
    BY <2>2, <2>3, <2>4, <2>5, <2>9 DEF MemoryInv
  <2> QED
    BY <2>1, <2>6, <2>7, <2>8, <2>12, <2>13, <2>14, <2>15, <1>OneLine
       DEF AllInv

(* A DMA request for a line that a cache owns: the owner is told.          *)
<1>DirDMARecallStep.
  ASSUME ControlInv, NEW m \in dmaReqNet, DirDMA(m), dstate[m.addr] = "M"
  PROVE  ControlInv'
  <2> USE <1>DirDMARecallStep
  <2> DEFINE a == m.addr
             ds == IF m.type = "READ" THEN "M_DRD" ELSE "M_DWR"
  <2>0. m.transfer \in Transfer
    BY DEF ControlInv, Typed, DMARequest
  <2>1. Typed /\ QueuesFormed /\ AllInv(a) /\ dstate[a] = "M" /\ a \in Addr
    BY DEF ControlInv, Typed, DMARequest
  <2>2. /\ dstate' = [dstate EXCEPT ![a] = ds]
        /\ Forward(a, owner[a], "INV", Home[a])
        /\ dtbe' = [dtbe EXCEPT ![a] = m.transfer]
        /\ dmaReqNet' = dmaReqNet \ {m}
    BY DEF DirDMA
  <2>3. UNCHANGED <<st, blk, owner, mem, memReq, responseFromMemory, reqNet,
                    dataNet, latest>>
    BY DEF DirDMA, l1Vars
  <2>4. ds \in {"M_DRD", "M_DWR"}  BY SMT
  <2> HIDE DEF a, ds
  <2>5. /\ dstate'[a] \in {"M_DRD", "M_DWR"}
        /\ \A b \in Addr : b # a => dstate'[b] = dstate[b]
        /\ dstate' \in [Addr -> DirState]
    BY <2>1, <2>2, <2>4 DEF Typed, DirState
  <2>6. /\ fwdNet' \in [Dirs -> [Caches -> Seq(ForwardMsg)]] /\ QueuesFormed'
        /\ \A e, q \in Caches, b \in Addr : /\ Passes(e, q, b)' <=> Passes(e, q, b)
                                            /\ Acked(e, b)' <=> Acked(e, b)
                                            /\ Nacked(e, b)' <=> Nacked(e, b)
    <3>1. MayForward(a, owner[a], "INV", Home[a])
      <4>1. Home[a] \in Dirs /\ owner[a] \subseteq Caches
        BY <2>1, MIAssumption DEF MIAssumption, Typed
      <4> QED  BY <4>1 DEF MayForward
    <3>2. /\ fwdNet' \in [Dirs -> [Caches -> Seq(ForwardMsg)]] /\ QueuesFormed'
          /\ ForwardedTo(owner[a], Msg("INV", a, Home[a]))
      BY <2>1, <2>2, <3>1, <1>ForwardEffect
    <3>3. \A e, q \in Caches, b \in Addr : /\ Msg("INV", a, Home[a]) # Getx(b, q)
                                           /\ Msg("INV", a, Home[a]) # Ack(b, e)
                                           /\ Msg("INV", a, Home[a]) # Nack(b, e)
      BY DEF Msg, Getx, Ack, Nack
    <3> QED  BY <3>2, <3>3, ZenonT(30) DEF ForwardedTo
  <2>7. Typed'
    <3>1. dtbe' \in [Addr -> Transfer \union {NoTransfer}] /\ dtbe'[a] \in Transfer
          /\ \A b \in Addr : b # a => dtbe'[b] = dtbe[b]
      BY <2>0, <2>1, <2>2 DEF Typed
    <3> QED  BY <2>1, <2>2, <2>3, <2>5, <2>6, <3>1 DEF Typed
  <2>8. \A b \in Addr : b # a => SameLine(b)
    BY <2>3, <2>5, <2>6 DEF SameLine
  <2>9. \A n \in memReq \union responseFromMemory : n.addr # a
    BY <2>1, NothingPending DEF AllInv, Returning
  <2>10. dstate[a] \in Owned /\ dstate'[a] \in Owned
    BY <2>1, <2>5 DEF Owned
  <2>11. \A e \in Caches : /\ Owns(e, a)' <=> Owns(e, a)
                           /\ InLine(e, a)' <=> InLine(e, a)
                           /\ Preceded(e, a)' <=> Preceded(e, a)
                           /\ Front(e, a)' <=> Front(e, a)
                           /\ ~Returned(e, a) /\ ~Returned(e, a)'
    BY <2>1, <2>3, <2>6, <2>9, <2>10
       DEF Owns, InLine, Preceded, Front, Returned
  <2>12. \A e \in Caches : /\ Asks(e, a)' <=> Asks(e, a)
                           /\ Sent(e, a)' <=> Sent(e, a)
                           /\ Puts(e, a)' <=> Puts(e, a)
    BY <2>3 DEF Asks, Sent, Puts
  <2>13. LineInv(a)'
    BY <2>1, <2>3, <2>6, <2>10, <2>11, <2>12, ZenonT(30) DEF AllInv, LineInv
  <2>14. AskInv(a)'
    BY <2>1, <2>3, <2>5, <2>10, <2>11, <2>12 DEF AllInv, AskInv
  <2>15. PutInv(a)'
    BY <2>1, <2>3, <2>6, <2>11, <2>12, ZenonT(30) DEF AllInv, PutInv
  <2>16. MemoryInv(a)'
    BY <2>3, <2>9 DEF MemoryInv
  <2> QED
    BY <2>1, <2>6, <2>7, <2>8, <2>13, <2>14, <2>15, <2>16, <1>OneLine
       DEF AllInv

(* The line comes from memory for a cache, which is then alone in line.    *)
<1>DirDataStep.
  ASSUME ControlInv, NEW m \in responseFromMemory, DirMemoryData(m),
         dstate[m.addr] = "IM"
  PROVE  ControlInv'
  <2> USE <1>DirDataStep
  <2> DEFINE a == m.addr
             r == m.requestor
             x == [dest |-> r, addr |-> a, data |-> m.data]
  <2>0. m.type = "MEMORY_READ" /\ m.data \in Data
    BY DEF DirMemoryData, ControlInv, Typed, MemoryMsg
  <2>1. Typed /\ QueuesFormed /\ AllInv(a) /\ dstate[a] = "IM" /\ a \in Addr
    BY DEF ControlInv, Typed, MemoryMsg
  <2>2. /\ dstate' = [dstate EXCEPT ![a] = "M"]
        /\ dataNet' = dataNet \union {x}
        /\ dtbe' = [dtbe EXCEPT ![a] = NoTransfer]
        /\ responseFromMemory' = responseFromMemory \ {m}
    BY DEF DirMemoryData
  <2>3. UNCHANGED <<st, blk, owner, mem, memReq, reqNet, fwdNet, dmaReqNet, latest>>
    BY DEF DirMemoryData, l1Vars, fwdVars
  <2>4. r \in Caches /\ owner[a] = {r}
    <3>1. r \in owner[a]
      BY <2>0, <2>1 DEF AllInv, MemoryInv
    <3>2. \E o \in Caches : owner[a] = {o}
      BY <2>1 DEF AllInv, AskInv
    <3> QED  BY <3>1, <3>2
  <2>5. x \in DataMsg /\ x.addr = a /\ x.dest = r
    BY <2>0, <2>1, <2>4 DEF DataMsg
  <2>6. \A n \in memReq \union responseFromMemory' : n.addr # a
    BY <2>1, <2>2, Answered DEF AllInv
  <2>7. \A n : n.addr # a => (n \in responseFromMemory' <=> n \in responseFromMemory)
    BY <2>2
  <2> HIDE DEF a, r, x
  <2>8. /\ dstate'[a] = "M" /\ dstate'[a] \in Owned
        /\ \A b \in Addr : b # a => dstate'[b] = dstate[b]
        /\ dstate' \in [Addr -> DirState]
        /\ dtbe' \in [Addr -> Transfer \union {NoTransfer}]
        /\ \A b \in Addr : b # a => dtbe'[b] = dtbe[b]
    BY <2>1, <2>2 DEF Typed, DirState, Owned
  <2>9. Typed'
    BY <2>1, <2>2, <2>3, <2>5, <2>8 DEF Typed
  <2>10. QueuesFormed'
    BY <2>1, <2>3, NoMessages
  <2>11. \A b \in Addr : b # a => SameLine(b)
    BY <2>2, <2>3, <2>5, <2>7, <2>8, NoMessages DEF SameLine
  <2>  r \in Caches  BY <2>4
  <2>12. /\ st[r][a] \in Awaiting /\ ~InLine(r, a) /\ ~Preceded(r, a)
         /\ \A e \in Caches : ~Passes(r, e, a)
         /\ \A e \in Caches : ~Front(e, a) /\ ~Sent(e, a) /\ st[e][a] # "M" /\ ~Owns(e, a)
    <3>1. st[r][a] \in Awaiting /\ ~InLine(r, a)
      BY <2>1, <2>4 DEF AllInv, AskInv
    <3>2. ~Preceded(r, a) /\ \A e \in Caches : ~Passes(r, e, a)
      BY <2>1, <2>4, <3>1 DEF AllInv, LineInv, Preceded, InLine
    <3>3. \A e \in Caches : ~Front(e, a)
      BY <2>1 DEF AllInv, LineInv, Owned
    <3> QED  BY <2>1, <3>1, <3>2, <3>3 DEF AllInv, LineInv, Owns, Owned
  <2>13. /\ \A e, q \in Caches : Passes(e, q, a)' <=> Passes(e, q, a)
         /\ \A e \in Caches : /\ Acked(e, a)' <=> Acked(e, a)
                              /\ Nacked(e, a)' <=> Nacked(e, a)
                              /\ Owns(e, a)' <=> e = r
                              /\ ~Returned(e, a) /\ ~Returned(e, a)'
    BY <2>1, <2>3, <2>4, <2>8, NoMessages DEF Owns, Returned, Returning
  <2>14. \A e \in Caches : /\ InLine(e, a)' <=> (InLine(e, a) \/ e = r)
                           /\ Preceded(e, a)' <=> Preceded(e, a)
    BY <2>12, <2>13 DEF InLine, Preceded
  <2>15. \A e \in Caches : Front(e, a)' <=> e = r
    BY <2>12, <2>14 DEF Front
  <2>16. \A n \in dataNet : n.addr # a
    BY <2>1, <2>12 DEF Sent, Typed, DataMsg
  <2>17. \A e \in Caches : /\ Asks(e, a)' <=> Asks(e, a)
                           /\ Sent(e, a)' <=> e = r
                           /\ Puts(e, a)' <=> Puts(e, a)
    BY <2>2, <2>3, <2>5, <2>16 DEF Asks, Sent, Puts
  <2>18. LineInv(a)'
    <3>1. \A k, n \in dataNet' : k.addr = a /\ n.addr = a => k = n
      BY <2>2, <2>16
    <3>2. st[r][a] \notin {"I", "II"}
      BY <2>12 DEF Awaiting
    <3>3. \A e, q \in Caches : Passes(e, q, a)' => ~Owns(e, a)' /\ InLine(q, a)'
      <4>1. \A e, q \in Caches : Passes(e, q, a) => InLine(q, a)
        BY <2>1 DEF AllInv, LineInv
      <4> QED  BY <2>12, <2>13, <2>14, <4>1
    <3>4. LineInv(a) /\ st' = st
      BY <2>1, <2>3 DEF AllInv
    <3> QED
      BY <2>8, <2>12, <2>13, <2>14, <2>15, <2>17, <3>1, <3>2, <3>3, <3>4, ZenonT(60)
         DEF LineInv
  <2>19. AskInv(a)'
    <3>1. \A e \in Caches : Asks(e, a) => e # r
      BY <2>1, <2>4 DEF AllInv, AskInv
    <3>2. dstate'[a] # "IM" /\ \E o \in Caches : owner'[a] = {o}
      BY <2>3, <2>4, <2>8
    <3> QED  BY <2>1, <2>3, <2>14, <2>17, <3>1, <3>2 DEF AllInv, AskInv
  <2>20. PutInv(a)'
    <3>1. ~Acked(r, a)
      <4>1. st[r][a] \notin {"MI", "II"}
        BY <2>12 DEF Awaiting
      <4> QED  BY <2>1, <4>1 DEF AllInv, PutInv
    <3> QED  BY <2>1, <2>3, <2>13, <2>14, <2>17, <3>1, ZenonT(30)
                DEF AllInv, PutInv
  <2>21. MemoryInv(a)'
    BY <2>3, <2>6 DEF MemoryInv
  <2> QED
    BY <2>1, <2>9, <2>10, <2>11, <2>18, <2>19, <2>20, <2>21, <1>OneLine
       DEF AllInv

(* Memory has answered a request that no cache waits for: a DMA transfer.  *)
<1>DirDmaDoneStep.
  ASSUME ControlInv, NEW m \in responseFromMemory, NEW a \in Addr,
         dstate[a] \in {"ID", "ID_W"}, DoneEffect(m, a), UNCHANGED fwdNet
  PROVE  ControlInv'
  <2> USE <1>DirDmaDoneStep
  <2> USE DEF DoneEffect
  <2>1. Typed /\ QueuesFormed /\ AllInv(a)
    BY DEF ControlInv
  <2>2. \A n \in memReq \union responseFromMemory' : n.addr # a
    BY <2>1, Answered DEF AllInv
  <2>3. \A n : n.addr # a => (n \in responseFromMemory' <=> n \in responseFromMemory)
    BY SMT
  <2>4. /\ dstate'[a] = "I"
        /\ \A b \in Addr : b # a => dstate'[b] = dstate[b]
        /\ dstate' \in [Addr -> DirState]
        /\ dtbe' \in [Addr -> Transfer \union {NoTransfer}]
        /\ \A b \in Addr : b # a => dtbe'[b] = dtbe[b]
    BY <2>1 DEF Typed, DirState
  <2>5. Typed'
    BY <2>1, <2>4 DEF Typed
  <2>6. QueuesFormed'
    BY <2>1, NoMessages
  <2>7. \A b \in Addr : b # a => SameLine(b)
    BY <2>3, <2>4, NoMessages DEF SameLine
  <2>8. /\ \A e, q \in Caches : Passes(e, q, a)' <=> Passes(e, q, a)
        /\ \A e \in Caches : /\ Acked(e, a)' <=> Acked(e, a)
                             /\ Nacked(e, a)' <=> Nacked(e, a)
                             /\ ~Owns(e, a) /\ ~Owns(e, a)'
                             /\ ~Returned(e, a) /\ ~Returned(e, a)'
    BY <2>4, NoMessages DEF Owns, Owned, Returned, Returning
  <2>9. \A e \in Caches : /\ InLine(e, a)' <=> InLine(e, a)
                          /\ Preceded(e, a)' <=> Preceded(e, a)
                          /\ Front(e, a)' <=> Front(e, a)
                          /\ Asks(e, a)' <=> Asks(e, a)
                          /\ Sent(e, a)' <=> Sent(e, a)
                          /\ Puts(e, a)' <=> Puts(e, a)
    BY <2>8 DEF InLine, Preceded, Front, Asks, Sent, Puts
  <2>10. LineInv(a)'
    BY <2>1, <2>8, <2>9 DEF AllInv, LineInv, Owned
  <2>11. AskInv(a)'
    BY <2>1, <2>4, <2>9 DEF AllInv, AskInv, Owned
  <2>12. PutInv(a)'
    BY <2>1, <2>8, <2>9 DEF AllInv, PutInv
  <2>13. MemoryInv(a)'
    BY <2>2 DEF MemoryInv
  <2> QED
    BY <2>5, <2>6, <2>7, <2>10, <2>11, <2>12, <2>13, <1>OneLine DEF AllInv

(* A writeback is in memory: its cache, no longer in line, is told.        *)
<1>DirAckStep.
  ASSUME ControlInv, NEW m \in responseFromMemory, NEW a \in Addr,
         m.type = "MEMORY_WB", dstate[a] \in Returning, DoneEffect(m, a),
         NEW r, r = m.requestor, Forward(a, {r}, "WB_ACK", r)
  PROVE  ControlInv'
  <2> USE <1>DirAckStep
  <2> USE DEF DoneEffect
  <2>1. Typed /\ QueuesFormed /\ AllInv(a)
    BY DEF ControlInv
  <2>2. r \in Caches /\ Returned(r, a)
    BY <2>1 DEF AllInv, MemoryInv, Returned, Returning
  <2>3. /\ st[r][a] \in {"MI", "II"}
        /\ ~Puts(r, a) /\ ~Acked(r, a) /\ ~Nacked(r, a)
    BY <2>1, <2>2 DEF AllInv, PutInv
  <2>4. \A n \in memReq \union responseFromMemory' : n.addr # a
    BY <2>1, Answered DEF AllInv
  <2>5. \A n : n.addr # a => (n \in responseFromMemory' <=> n \in responseFromMemory)
    BY SMT
  <2>6. /\ dstate'[a] = "I"
        /\ \A b \in Addr : b # a => dstate'[b] = dstate[b]
        /\ dstate' \in [Addr -> DirState]
        /\ dtbe' \in [Addr -> Transfer \union {NoTransfer}]
        /\ \A b \in Addr : b # a => dtbe'[b] = dtbe[b]
    BY <2>1 DEF Typed, DirState
  <2>7. /\ fwdNet' \in [Dirs -> [Caches -> Seq(ForwardMsg)]] /\ QueuesFormed'
        /\ ForwardedTo({r}, Ack(a, r))
    <3>1. Ack(a, r) = Msg("WB_ACK", a, r)
      BY DEF Ack, Msg
    <3>2. MayForward(a, {r}, "WB_ACK", r)
      <4>1. Ack(a, r) \notin Fwd(r, a)
        BY <2>3 DEF Acked
      <4> QED  BY <2>2, <3>1, <4>1 DEF MayForward
    <3> QED  BY <2>1, <3>1, <3>2, <1>ForwardEffect
  <2>8. \A e, q \in Caches, b \in Addr :
          /\ Passes(e, q, b)' <=> Passes(e, q, b)
          /\ Acked(e, b)' <=> (Acked(e, b) \/ (e = r /\ b = a))
          /\ Nacked(e, b)' <=> Nacked(e, b)
    <3>1. \A e, q \in Caches, b \in Addr :
            /\ Ack(a, r) # Getx(b, q) /\ Ack(a, r) # Nack(b, e)
            /\ Ack(a, r) = Ack(b, e) <=> (e = r /\ b = a)
      BY MessagesDiffer, SMT
    <3> QED  BY <2>7, <3>1, SMT DEF ForwardedTo
  <2>9. Typed'
    BY <2>1, <2>6, <2>7 DEF Typed
  <2>10. \A b \in Addr : b # a => SameLine(b)
    BY <2>5, <2>6, <2>8 DEF SameLine
  <2>11. \A e \in Caches : /\ ~Owns(e, a) /\ ~Owns(e, a)'
                           /\ ~Returned(e, a)'
    BY <2>6 DEF Owns, Owned, Returned, Returning
  <2>12. \A e \in Caches : /\ InLine(e, a)' <=> InLine(e, a)
                           /\ Preceded(e, a)' <=> Preceded(e, a)
                           /\ Front(e, a)' <=> Front(e, a)
                           /\ Asks(e, a)' <=> Asks(e, a)
                           /\ Sent(e, a)' <=> Sent(e, a)
                           /\ Puts(e, a)' <=> Puts(e, a)
    BY <2>8, <2>11 DEF InLine, Preceded, Front, Asks, Sent, Puts
  <2>13. ~InLine(r, a) /\ \A e \in Caches : ~Front(e, a)
    <3>1. \A e \in Caches : ~Front(e, a)
      BY <2>1 DEF AllInv, LineInv, Owned, Returning
    <3>2. ~Preceded(r, a)
      BY <2>1, <2>2, <2>3 DEF AllInv, LineInv, Awaiting
    <3> QED  BY <2>2, <3>1, <3>2 DEF Front
  <2>a. \A e, q \in Caches : Passes(e, q, a)' <=> Passes(e, q, a)
    BY <2>8
  <2>b. \A e \in Caches : /\ Acked(e, a)' <=> (Acked(e, a) \/ e = r)
                          /\ Nacked(e, a)' <=> Nacked(e, a)
    BY <2>8
  <2>14. LineInv(a)'
    <3>1. LineInv(a)
      BY <2>1 DEF AllInv
    <3> QED  BY <2>a, <2>11, <2>12, <2>13, <3>1 DEF LineInv
  <2>15. AskInv(a)'
    BY <2>1, <2>6, <2>12 DEF AllInv, AskInv, Owned
  <2>16. PutInv(a)'
    <3>1. PutInv(a)
      BY <2>1 DEF AllInv
    <3> QED  BY <2>2, <2>3, <2>b, <2>11, <2>12, <2>13, <3>1, ZenonT(30) DEF PutInv
  <2>17. MemoryInv(a)'
    BY <2>4 DEF MemoryInv
  <2> QED
    BY <2>7, <2>9, <2>10, <2>14, <2>15, <2>16, <2>17, <1>OneLine DEF AllInv

(* What memory and the device write are lines.                             *)
<1>PartialType.
  ASSUME NEW l \in Data, NEW t \in Transfer
  PROVE  WritePartial(l, t) \in Data /\ Transferred(l, t) \in Data
  <2> USE <1>PartialType
  <2>1. t.data \in Data
    BY DEF Transfer
  <2>2. \A k \in Data : \A w \in 1..LineWords : k[w] \in Values
    BY DEF Data
  <2>3. \A w \in 1..LineWords : l[w] \in Values /\ t.data[w] \in Values
    BY <2>1, <2>2
  <2> QED  BY <2>3 DEF WritePartial, Transferred, Data

(* A request to memory turns into its answer.                              *)
<1>MemoryStep.
  ASSUME ControlInv, NEW r \in memReq, MemoryAccess(r)
  PROVE  ControlInv'
  <2> USE <1>MemoryStep
  <2> DEFINE a == r.addr
             x == IF r.type = "READ"
                  THEN [type |-> "MEMORY_READ", addr |-> r.addr,
                        requestor |-> r.requestor, data |-> mem[r.addr]]
                  ELSE [type |-> "MEMORY_WB", addr |-> r.addr,
                        requestor |-> r.requestor]
  <2>1. Typed /\ QueuesFormed /\ a \in Addr
    BY DEF ControlInv, Typed, MemoryReq
  <2>2. /\ memReq' = memReq \ {r}
        /\ responseFromMemory' = responseFromMemory \union {x}
        /\ UNCHANGED <<st, blk, dstate, owner, dtbe, reqNet, fwdNet, dataNet, dmaReqNet>>
    BY DEF MemoryAccess, l1Vars, dirVars, fwdVars, dmaVars
  <2>3. /\ x \in MemoryMsg /\ x.addr = a /\ x.requestor = r.requestor
        /\ x.type \in {"READ", "MEMORY_READ"} <=> r.type \in {"READ", "MEMORY_READ"}
    BY <2>1 DEF Typed, MemoryReq, MemoryMsg
  <2>a. r \in MemoryReq
    BY <2>1 DEF Typed
  <2>4. /\ mem' \in [Addr -> Data]
        /\ latest' \in [Addr -> Data]
    <3>1. CASE r.type = "READ"
      <4>1. mem' = mem /\ latest' = latest
        BY <3>1 DEF MemoryAccess
      <4> QED  BY <2>1, <4>1 DEF Typed
    <3>2. CASE r.type = "WRITE"
      <4>1. mem' = [mem EXCEPT ![r.addr] = r.data] /\ latest' = latest
        BY <3>2 DEF MemoryAccess
      <4>2. r.data \in Data
        BY <2>a, <3>2, RequestData
      <4> QED  BY <2>1, <4>1, <4>2 DEF Typed
    <3>3. CASE r.type = "PARTIAL"
      <4>1. /\ mem' = [mem EXCEPT ![r.addr] = WritePartial(mem[r.addr], r.transfer)]
            /\ latest' = [latest EXCEPT ![r.addr] =
                            Transferred(latest[r.addr], r.transfer)]
        BY <3>3 DEF MemoryAccess
      <4>2. r.transfer \in Transfer
        BY <2>a, <3>3, RequestData
      <4>3. /\ WritePartial(mem[r.addr], r.transfer) \in Data
            /\ Transferred(latest[r.addr], r.transfer) \in Data
        BY <2>1, <4>2, <1>PartialType DEF Typed
      <4> QED  BY <2>1, <4>1, <4>3 DEF Typed
    <3>4. r.type \in {"READ", "WRITE", "PARTIAL"}
      BY <2>1 DEF Typed, MemoryReq
    <3> QED  BY <3>1, <3>2, <3>3, <3>4
  <2> HIDE DEF a, x
  <2>5. Typed'
    BY <2>1, <2>2, <2>3, <2>4 DEF Typed
  <2>6. QueuesFormed'
    BY <2>1, <2>2, NoMessages
  <2>7. r.addr = a
    BY DEF a
  <2>8. \A b \in Addr : b # a => SameLine(b)
    BY <2>2, <2>3, <2>7, NoMessages DEF SameLine
  <2>9. \A e \in Caches :
          /\ \A q \in Caches : Passes(e, q, a)' <=> Passes(e, q, a)
          /\ Owns(e, a)' <=> Owns(e, a)
          /\ InLine(e, a)' <=> InLine(e, a)
          /\ Preceded(e, a)' <=> Preceded(e, a)
          /\ Front(e, a)' <=> Front(e, a)
          /\ Acked(e, a)' <=> Acked(e, a)
          /\ Nacked(e, a)' <=> Nacked(e, a)
    BY <2>1, <2>2, NoMessages
  <2>10. \A e \in Caches : /\ Asks(e, a)' <=> Asks(e, a)
                           /\ Sent(e, a)' <=> Sent(e, a)
                           /\ Puts(e, a)' <=> Puts(e, a)
                           /\ Returned(e, a)' <=> Returned(e, a)
    BY <2>2, <2>3, <2>7 DEF Asks, Sent, Puts, Returned
  <2>11. LineInv(a) /\ AskInv(a) /\ PutInv(a) /\ MemoryInv(a)
    BY <2>1 DEF ControlInv, AllInv
  <2>12. LineInv(a)'
    BY <2>2, <2>9, <2>10, <2>11, ZenonT(30) DEF LineInv
  <2>13. AskInv(a)'
    BY <2>2, <2>9, <2>10, <2>11 DEF AskInv
  <2>14. PutInv(a)'
    BY <2>2, <2>9, <2>10, <2>11, ZenonT(30) DEF PutInv
  <2>15. MemoryInv(a)'
    BY <2>2, <2>3, <2>7, <2>11 DEF MemoryInv
  <2> QED
    BY <2>1, <2>5, <2>6, <2>8, <2>12, <2>13, <2>14, <2>15, <1>OneLine
       DEF AllInv

(* A store that hits changes the line in its cache, and nothing else.      *)
<1>StoreHitStep.
  ASSUME ControlInv, NEW c \in Caches, NEW a \in Addr,
         NEW w \in 1..LineWords, NEW v \in Values, StoreHit(c, a, w, v)
  PROVE  ControlInv'
  <2> USE <1>StoreHitStep
  <2>1. Typed /\ QueuesFormed
    BY DEF ControlInv
  <2>2. /\ blk' = [blk EXCEPT ![c][a] = [blk[c][a] EXCEPT ![w] = v]]
        /\ latest' = [latest EXCEPT ![a] = [latest[a] EXCEPT ![w] = v]]
    BY DEF StoreHit, StoreWord
  <2>3. [blk[c][a] EXCEPT ![w] = v] \in Data /\ [latest[a] EXCEPT ![w] = v] \in Data
    BY <2>1, <1>StoreType, ZenonT(30) DEF Typed
  <2>4. blk' \in [Caches -> [Addr -> Data]] /\ latest' \in [Addr -> Data]
    BY <2>1, <2>2, <2>3 DEF Typed
  <2>5. UNCHANGED <<st, dstate, owner, dtbe, mem, memReq, responseFromMemory,
                    reqNet, fwdNet, dataNet, dmaReqNet>>
    BY DEF StoreHit, dirVars, memVars, fwdVars, dmaVars
  <2>6. Typed'
    BY <2>1, <2>4, <2>5 DEF Typed
  <2>7. QueuesFormed'
    BY <2>1, <2>5, NoMessages
  <2>8. \A b \in Addr : SameLine(b)
    BY <2>5, NoMessages DEF SameLine
  <2> QED  BY <2>6, <2>7, <2>8, <1>NoLine

(* Neither a request that is issued nor a response that arrives concerns   *)
(* the lines.                                                              *)
<1>QuietStep.
  ASSUME ControlInv, dmaReqNet' \subseteq DMARequest,
         UNCHANGED <<st, blk, dstate, owner, dtbe, mem, memReq,
                     responseFromMemory, reqNet, fwdNet, dataNet, latest>>
  PROVE  ControlInv'
  <2> USE <1>QuietStep
  <2>1. Typed /\ QueuesFormed
    BY DEF ControlInv
  <2>2. Typed'
    BY <2>1 DEF Typed
  <2>3. QueuesFormed'
    BY <2>1, NoMessages
  <2>4. \A b \in Addr : SameLine(b)
    BY NoMessages DEF SameLine
  <2> QED  BY <2>2, <2>3, <2>4, <1>NoLine

(* The steps a cache takes for that message.                               *)
<1>ForwardedStep.
  ASSUME ControlInv, NEW c \in Caches, NEW d \in Dirs,
         FwdGETX(c, d) \/ Inv(c, d) \/ WritebackAck(c, d) \/ WritebackNack(c, d)
  PROVE  ControlInv'
  <2> USE <1>ForwardedStep
  <2> PICK m : m = Head(fwdNet[d][c])
    BY SMT
  <2>1. /\ m.addr \in Addr
        /\ m.type = "GETX" => m.requestor \in Caches /\ m = Getx(m.addr, m.requestor)
        /\ m.type = "WB_ACK" => m = Ack(m.addr, c)
        /\ m.type = "WB_NACK" => m = Nack(m.addr, c)
    BY ForwardedHead
  <2>2. CASE FwdGETX(c, d)
    <3>1. m.type = "GETX"
      BY <2>2 DEF FwdGETX
    <3> QED  BY <2>1, <2>2, <3>1, <1>FwdGETXStep
  <2>3. CASE Inv(c, d)
    <3>1. m.type = "INV" /\ Forwarded(c, d)
      BY <2>3 DEF Inv
    <3>2. UNCHANGED <<dirVars, memVars, dataNet, dmaReqNet, latest>>
      BY <2>3 DEF Inv, dmaVars
    <3>3. CASE st[c][m.addr] = "M"
      <4>1. IssuePUT(c, m.addr) /\ UNCHANGED fwdNet
        BY <2>3, <3>3 DEF Inv, fwdVars
      <4> QED  BY <2>1, <3>2, <3>3, <4>1, <1>PutStep
    <3>4. CASE st[c][m.addr] # "M"
      <4>1. PopForward(c, d) /\ UNCHANGED <<l1Vars, reqNet>>
        BY <2>3, <3>4 DEF Inv
      <4> QED  BY <3>1, <3>2, <4>1, <1>InvStep
    <3> QED  BY <3>3, <3>4
  <2>4. CASE WritebackAck(c, d)
    <3>1. /\ m.type = "WB_ACK" /\ Forwarded(c, d) /\ PopForward(c, d)
          /\ m = Ack(m.addr, c)
          /\ st[c][m.addr] \in {"MI", "II"}
          /\ st' = [st EXCEPT ![c][m.addr] = "I"]
          /\ blk' = [blk EXCEPT ![c][m.addr] = EmptyBlock]
          /\ UNCHANGED <<dirVars, memVars, reqNet, dataNet, dmaReqNet, latest>>
      BY <2>1, <2>4 DEF WritebackAck, dmaVars
    <3>2. AnswerEffect(c, d, m.addr, m, "I")
      BY <3>1 DEF AnswerEffect
    <3> QED  BY <2>1, <3>2, <1>AnswerStep
  <2>5. CASE WritebackNack(c, d)
    <3> DEFINE s == IF st[c][m.addr] = "MI" THEN "MII" ELSE "I"
    <3>1. /\ m.type = "WB_NACK" /\ Forwarded(c, d) /\ PopForward(c, d)
          /\ st[c][m.addr] \in {"MI", "II"}
          /\ st' = [st EXCEPT ![c][m.addr] = s]
          /\ UNCHANGED <<blk, dirVars, memVars, reqNet, dataNet, dmaReqNet, latest>>
      BY <2>5 DEF WritebackNack, dmaVars
    <3> PICK n \in {"I", "MII"} : n = s
      BY SMT
    <3>2. n = "I" => st[c][m.addr] = "II"
      BY <3>1
    <3>3. m = Nack(m.addr, c)
      BY <2>1, <3>1
    <3> HIDE DEF s
    <3>4. AnswerEffect(c, d, m.addr, m, n)
      BY <3>1, <3>2, <3>3 DEF AnswerEffect
    <3> QED  BY <2>1, <3>4, <1>AnswerStep
  <2> QED  BY <2>2, <2>3, <2>4, <2>5

(* The steps of a cache for its processor.                                 *)
<1>ProcessorStep.
  ASSUME ControlInv, NEW c \in Caches, NEW a \in Addr,
         \/ LoadHit(c, a)
         \/ \E w \in 1..LineWords, v \in Values : StoreHit(c, a, w, v)
         \/ \E type \in {"Load", "Store"} : Miss(c, type, a)
         \/ Replacement(c, a)
  PROVE  ControlInv'
  <2> USE <1>ProcessorStep
  <2>0. dmaReqNet \subseteq DMARequest
    BY DEF ControlInv, Typed
  <2>1. CASE LoadHit(c, a)
    BY <2>0, <2>1, <1>QuietStep
       DEF LoadHit, dirVars, memVars, fwdVars, dmaVars
  <2>2. CASE \E w \in 1..LineWords, v \in Values : StoreHit(c, a, w, v)
    BY <2>2, <1>StoreHitStep
  <2>3. ASSUME NEW type \in {"Load", "Store"}, Miss(c, type, a)
        PROVE  ControlInv'
    <3> DEFINE s == IF type = "Load" THEN "IS" ELSE "IM"
    <3>1. s \in Awaiting
      BY DEF Awaiting
    <3>2. MissEffect(c, a, s)
      BY <2>3 DEF Miss, MissEffect, fwdVars, dmaVars
    <3> HIDE DEF s
    <3> QED  BY <3>1, <3>2, <1>MissStep
  <2>4. CASE Replacement(c, a)
    <3>1. UNCHANGED <<dirVars, memVars, fwdNet, dataNet, dmaReqNet, latest>>
      BY <2>4 DEF Replacement, fwdVars, dmaVars
    <3>2. CASE st[c][a] = "M"
      <4>1. IssuePUT(c, a)
        BY <2>4, <3>2 DEF Replacement
      <4> QED  BY <3>1, <3>2, <4>1, <1>PutStep
    <3>3. CASE st[c][a] # "M"
      <4>1. UNCHANGED <<st, blk, reqNet>>
        BY <2>4, <3>3 DEF Replacement
      <4> QED  BY <2>0, <3>1, <4>1, <1>QuietStep DEF dirVars, memVars
    <3> QED  BY <3>2, <3>3
  <2> QED  BY <2>1, <2>2, <2>3, <2>4

(* The steps of a directory for a message, and of memory.                  *)
<1>DirectoryStep.
  ASSUME ControlInv,
         \/ \E m \in reqNet : DirGETX(m) \/ DirPUTX(m) \/ DirPUTXNotOwner(m)
         \/ \E m \in dmaReqNet : DirDMA(m)
         \/ \E m \in responseFromMemory : DirMemoryData(m) \/ DirMemoryAck(m)
         \/ \E r \in memReq : MemoryAccess(r)
  PROVE  ControlInv'
  <2> USE <1>DirectoryStep
  <2>1. ASSUME NEW m \in reqNet, DirGETX(m)
        PROVE  ControlInv'
    <3>1. m.type = "GETX" /\ dstate[m.addr] \in {"I", "M"}
      BY <2>1 DEF DirGETX
    <3> QED  BY <2>1, <3>1, <1>DirFetchStep, <1>DirForwardStep
  <2>2. ASSUME NEW m \in dmaReqNet, DirDMA(m)
        PROVE  ControlInv'
    <3>1. dstate[m.addr] \in {"I", "M"}
      BY <2>2 DEF DirDMA
    <3> QED  BY <2>2, <3>1, <1>DirDMAFetchStep, <1>DirDMARecallStep
  <2>3. ASSUME NEW m \in responseFromMemory, DirMemoryData(m)
        PROVE  ControlInv'
    <3>1. CASE dstate[m.addr] = "IM"
      BY <2>3, <3>1, <1>DirDataStep
    <3>2. CASE dstate[m.addr] # "IM"
      <4>1. m.addr \in Addr
        BY DEF ControlInv, Typed, MemoryMsg
      <4>2. dstate[m.addr] = "ID" /\ DoneEffect(m, m.addr) /\ UNCHANGED fwdNet
        BY <2>3, <3>2 DEF DirMemoryData, DoneEffect, l1Vars, fwdVars
      <4> QED  BY <4>1, <4>2, <1>DirDmaDoneStep
    <3> QED  BY <3>1, <3>2
  <2>4. ASSUME NEW m \in responseFromMemory, DirMemoryAck(m)
        PROVE  ControlInv'
    <3>1. m.addr \in Addr /\ Typed
      BY DEF ControlInv, Typed, MemoryMsg
    <3>2. DoneEffect(m, m.addr)
      BY <2>4 DEF DirMemoryAck, DoneEffect, l1Vars
    <3>3. CASE dstate[m.addr] = "ID_W"
      <4>1. Forward(m.addr, {}, "WB_ACK", m.requestor)
        BY <2>4, <3>3 DEF DirMemoryAck
      <4>2. UNCHANGED fwdNet
        BY <3>1, <4>1, ForwardNobody
      <4> QED  BY <3>1, <3>2, <3>3, <4>2, <1>DirDmaDoneStep
    <3>4. CASE dstate[m.addr] # "ID_W"
      <4>1. /\ Forward(m.addr, {m.requestor}, "WB_ACK", m.requestor)
            /\ dstate[m.addr] \in Returning /\ m.type = "MEMORY_WB"
        BY <2>4, <3>4 DEF DirMemoryAck, Returning
      <4> QED  BY <3>1, <3>2, <4>1, <1>DirAckStep
    <3> QED  BY <3>3, <3>4
  <2> QED
    BY <2>1, <2>2, <2>3, <2>4, <1>DirPUTXStep, <1>DirPUTXNotOwnerStep, <1>MemoryStep

<1> SUFFICES ASSUME ControlInv, [Next]_vars PROVE ControlInv'
  BY SMT
<1>0. dmaReqNet \subseteq DMARequest
  BY DEF ControlInv, Typed
<1>1. CASE UNCHANGED vars
  BY <1>0, <1>1, <1>QuietStep
     DEF vars, l1Vars, dirVars, memVars, fwdVars, dmaVars
<1>2. CASE Issue
  <2>1. ASSUME NEW c \in Caches, NEW type \in {"Load", "Store"}, NEW a \in Addr,
               MakeRequest(c, type, a)
        PROVE  ControlInv'
    BY <1>0, <2>1, <1>QuietStep
       DEF MakeRequest, dirVars, memVars, fwdVars, dmaVars
  <2>2. ASSUME NEW type \in {"READ", "WRITE"}, NEW a \in Addr, NEW t \in Transfer,
               DmaRequest(type, a, t)
        PROVE  ControlInv'
    <3>1. [type |-> type, addr |-> a, transfer |-> t] \in DMARequest
      BY DEF DMARequest
    <3>2. dmaReqNet' = dmaReqNet \union {[type |-> type, addr |-> a, transfer |-> t]}
      BY <2>2 DEF DmaRequest
    <3>3. dmaReqNet' \subseteq DMARequest
      BY <1>0, <3>1, <3>2
    <3> QED
      BY <2>2, <3>3, <1>QuietStep
         DEF DmaRequest, l1Vars, dirVars, memVars, fwdVars
  <2> QED  BY <1>2, <2>1, <2>2 DEF Issue
<1>3. CASE Protocol
  <2>1. ASSUME NEW c \in Caches, NEW d \in Dirs, Stall(c, d)
        PROVE  ControlInv'
    BY <1>0, <2>1, <1>QuietStep DEF Stall, l1Vars, dirVars, memVars, dmaVars
  <2>2. ASSUME NEW m \in dmaRespNet, DmaResponse(m)
        PROVE  ControlInv'
    BY <1>0, <2>2, <1>QuietStep
       DEF DmaResponse, l1Vars, dirVars, memVars, fwdVars
  <2>3. CASE Panic
    BY <1>0, <2>3, <1>QuietStep
       DEF Panic, l1Vars, dirVars, memVars, fwdVars, dmaVars
  <2> QED
    BY <1>3, <2>1, <2>2, <2>3, <1>ProcessorStep, <1>ForwardedStep, <1>CacheDataStep,
       <1>DirectoryStep DEF Protocol
<1> QED  BY <1>1, <1>2, <1>3 DEF Next

(* The invariant implies the property: a cache in state M is at the front, *)
(* there is one front, and a front only in an owned line.                  *)
LEMMA ControlSingle == ControlInv => SingleWriter
  BY ZenonT(30) DEF ControlInv, AllInv, LineInv, SingleWriter, Owned

(* Whatever the caches, lines, directories and DMA controllers, and in     *)
(* whatever order messages of different queues are handled: at most one    *)
(* cache can write a line, and none while the directory thinks memory has  *)
(* it (the GETX, PUTX and DMA transitions of MI_example-dir.sm and the     *)
(* forwarded ones of MI_example-cache.sm).                                 *)
THEOREM MISingleWriter == Spec => []SingleWriter
<1>1. Init => ControlInv
  BY ControlInit
<1>2. ControlInv /\ [Next]_vars => ControlInv'
  BY ControlStep
<1>3. ControlInv => SingleWriter
  BY ControlSingle
<1> QED  BY <1>1, <1>2, <1>3, PTL DEF Spec

-----------------------------------------------------------------------------
(***************************************************************************)
(* The value of a line: what a cache may read, what memory holds when the  *)
(* directory answers for a line and what a DMA read returns is the last    *)
(* value written, for any number of controllers and lines, when every DMA  *)
(* transfer covers a whole line (LineWords = 1).                           *)
(*                                                                         *)
(* ControlInv says who can hold a line: the front of those who stand in    *)
(* line for it.  Here the last value is followed from there to where it    *)
(* goes.                                                                   *)
(***************************************************************************)
\* States of a cache that has data of a line.
Holding == {"M", "MI", "MII"}

\* The last value is with the cache at the front, in the message to it, in
\* its writeback, in the write to memory and in what memory answers; and in
\* memory when the directory answers for the line.
HeldLatest ==
  \A c \in Caches, b \in Addr :
    InLine(c, b) /\ st[c][b] \in Holding => blk[c][b] = latest[b]
SentLatest == \A m \in dataNet : m.data = latest[m.addr]
PutLatest ==
  \A m \in reqNet : m.type = "PUTX" /\ st[m.requestor][m.addr] = "MI"
                      => m.data = blk[m.requestor][m.addr]
MemLatest == \A b \in Addr : dstate[b] \in {"I", "IM", "ID"} => mem[b] = latest[b]
WriteLatest == \A r \in memReq : r.type = "WRITE" => r.data = latest[r.addr]
AnswerLatest ==
  \A r \in responseFromMemory :
    IF r.type = "MEMORY_READ" THEN r.data = latest[r.addr]
    ELSE mem[r.addr] = latest[r.addr]

ValueInv == /\ HeldLatest /\ SentLatest /\ PutLatest
            /\ MemLatest /\ WriteLatest /\ AnswerLatest

\* What a step adds to the responses of DMA reads.
ReadsLatest == \A m \in dmaRespNet' \ dmaRespNet :
                 m.type = "DATA" => m.data = latest'[m.addr]

\* Nobody joins a line but those who wait for it.
NobodyJoins == \A c \in Caches, b \in Addr :
                 InLine(c, b)' /\ st[c][b] \notin Awaiting => InLine(c, b)

-----------------------------------------------------------------------------
(* The values a step leaves. *)

\* Cache c, at the front of line a, is in state M and the last value is x.
WriteEffect(c, a, x) ==
  /\ \A e \in Caches, b \in Addr :
       /\ st'[e][b] = IF e = c /\ b = a THEN "M" ELSE st[e][b]
       /\ blk'[e][b] = IF e = c /\ b = a THEN x ELSE blk[e][b]
  /\ \A b \in Addr : latest'[b] = IF b = a THEN x ELSE latest[b]
  /\ \A m \in dataNet' : m \in dataNet /\ m.addr # a
  /\ UNCHANGED <<dstate, owner, fwdNet, reqNet, mem, memReq, responseFromMemory>>

-----------------------------------------------------------------------------
(* Memory, and every step. *)

(* Every step keeps the values, and answers DMA reads with the last one.   *)
LEMMA ValueStep ==
  LineWords = 1 /\ ControlInv /\ ValueInv /\ [Next]_vars => (ValueInv' /\ ReadsLatest)

(* Only a directory lets a cache join.                                     *)
<1>QueueKept.
  ASSUME UNCHANGED <<fwdNet, dstate, owner>>
  PROVE  NobodyJoins
    BY <1>QueueKept, NoMessages DEF NobodyJoins

(* Whoever pops a message does not join.                                   *)
<1>QueuePopped.
  ASSUME ControlInv, NEW c \in Caches, NEW d \in Dirs,
         Forwarded(c, d), PopForward(c, d), UNCHANGED <<dstate, owner>>
  PROVE  NobodyJoins
  <2> USE <1>QueuePopped
  <2> PICK m : m = Head(fwdNet[d][c])
    BY SMT
  <2>1. PoppedBy(c, m)
    BY PopEffect DEF ControlInv
  <2>2. \A e, r \in Caches, b \in Addr : Passes(e, r, b)' => Passes(e, r, b)
    BY <2>1 DEF PoppedBy
  <2>3. \A e \in Caches, b \in Addr : Owns(e, b)' <=> Owns(e, b)
    BY DEF Owns
  <2> QED  BY <2>2, <2>3 DEF NobodyJoins, InLine

(* Nor does a message other than a GETX, or leaving an owned state.        *)
<1>QueueSent.
  ASSUME ControlInv, NEW a \in Addr, NEW dests, dests \subseteq Caches,
         NEW t \in {"WB_ACK", "WB_NACK", "INV"}, NEW r \in Caches \union Dirs,
         Forward(a, dests, t, r),
         \A e \in Caches, b \in Addr : Owns(e, b)' => Owns(e, b)
  PROVE  NobodyJoins
  <2> USE <1>QueueSent
  <2>1. Msg(t, a, r) \in ForwardMsg
    BY DEF Msg, ForwardMsg
  <2>2. ForwardedTo(dests, Msg(t, a, r))
    BY <2>1, ForwardArrives DEF ControlInv
  <2>3. \A b \in Addr, q \in Caches : Msg(t, a, r) # Getx(b, q)
    BY DEF Msg, Getx
  <2>4. \A e, q \in Caches, b \in Addr : Passes(e, q, b)' => Passes(e, q, b)
    BY <2>2, <2>3 DEF ForwardedTo
  <2> QED  BY <2>4 DEF NobodyJoins, InLine

(* A cache in line that does not wait has the line for itself: no data is  *)
(* under way, and the directory asks nothing of memory.                    *)
<1>Holder.
  ASSUME ControlInv, NEW c \in Caches, NEW a \in Addr,
         InLine(c, a), st[c][a] \notin Awaiting
  PROVE  /\ dstate[a] \in Owned
         /\ \A e \in Caches : InLine(e, a) /\ st[e][a] \notin Awaiting => e = c
         /\ \A m \in dataNet : m.addr # a
         /\ \A m \in memReq \union responseFromMemory : m.addr # a
  <2> USE <1>Holder
  <2>1. LineInv(a) /\ MemoryInv(a) /\ Typed
    BY DEF ControlInv, AllInv
  <2>2. \A e \in Caches : InLine(e, a) /\ st[e][a] \notin Awaiting => Front(e, a)
    BY <2>1 DEF LineInv, Front
  <2>3. dstate[a] \in Owned
    BY <2>1, <2>2 DEF LineInv
  <2>4. \A e \in Caches : InLine(e, a) /\ st[e][a] \notin Awaiting => e = c
    BY <2>1, <2>2 DEF LineInv
  <2>5. \A m \in dataNet : m.addr # a
    <3> SUFFICES ASSUME NEW m \in dataNet, m.addr = a PROVE FALSE
      BY SMT
    <3>1. m.dest \in Caches
      BY <2>1 DEF Typed, DataMsg
    <3>2. Sent(m.dest, a)
      BY DEF Sent
    <3>3. Front(m.dest, a) /\ st[m.dest][a] \in Awaiting
      BY <2>1, <3>1, <3>2 DEF LineInv
    <3> QED  BY <2>1, <2>2, <3>1, <3>3 DEF LineInv
  <2>6. \A m \in memReq \union responseFromMemory : m.addr # a
    BY <2>1, <2>3, NothingPending DEF Owned, Returning
  <2> QED  BY <2>3, <2>4, <2>5, <2>6

(* Nobody holds a line that is not owned.                                  *)
<1>NoHolder.
  ASSUME ControlInv, NEW a \in Addr, dstate[a] \notin Owned
  PROVE  /\ \A e \in Caches : InLine(e, a) => st[e][a] \in Awaiting
         /\ \A m \in dataNet : m.addr # a
  <2> USE <1>NoHolder
  <2>1. LineInv(a) /\ Typed
    BY DEF ControlInv, AllInv
  <2>2. \A e \in Caches : ~Front(e, a)
    BY <2>1 DEF LineInv
  <2>3. \A e \in Caches : InLine(e, a) => st[e][a] \in Awaiting
    BY <2>1, <2>2 DEF LineInv, Front
  <2>4. \A m \in dataNet : m.addr = a => m.dest \in Caches /\ Sent(m.dest, a)
    BY <2>1 DEF Typed, DataMsg, Sent
  <2> QED  BY <2>1, <2>2, <2>3, <2>4 DEF LineInv

(* A step that leaves memory and its requests alone keeps their values.    *)
<1>MemoryKept.
  ASSUME ValueInv,
         UNCHANGED <<dstate, mem, latest, memReq, responseFromMemory>>
  PROVE  MemLatest' /\ WriteLatest' /\ AnswerLatest'
    BY <1>MemoryKept DEF ValueInv, MemLatest, WriteLatest, AnswerLatest

(* A step that leaves the caches alone keeps theirs.                       *)
<1>CachesKept.
  ASSUME ValueInv, NobodyJoins, UNCHANGED <<st, blk, latest>>,
         dataNet' \subseteq dataNet, reqNet' \subseteq reqNet
  PROVE  HeldLatest' /\ SentLatest' /\ PutLatest'
  <2> USE <1>CachesKept
  <2>1. HeldLatest'
    BY DEF ValueInv, HeldLatest, NobodyJoins, Holding, Awaiting
  <2> QED  BY <2>1 DEF ValueInv, SentLatest, PutLatest

(* A cache asks for a line.                                                *)
<1>MissValue.
  ASSUME ControlInv, ValueInv, NEW c \in Caches, NEW a \in Addr,
         NEW s \in Awaiting, MissEffect(c, a, s)
  PROVE  ValueInv'
  <2> USE <1>MissValue
  <2>1. Typed
    BY DEF ControlInv
  <2>2. UNCHANGED <<blk, dstate, owner, mem, memReq, responseFromMemory, fwdNet,
                    dataNet, latest>>
    BY DEF MissEffect, dirVars, memVars
  <2>3. \A e \in Caches, b \in Addr :
          st'[e][b] = IF e = c /\ b = a THEN s ELSE st[e][b]
    BY <2>1 DEF MissEffect, Typed
  <2>4. s \notin Holding
    BY DEF Holding, Awaiting
  <2>5. NobodyJoins
    BY <2>2, <1>QueueKept
  <2>6. HeldLatest'
    BY <2>2, <2>3, <2>4, <2>5
       DEF ValueInv, HeldLatest, NobodyJoins, Holding, Awaiting
  <2>7. PutLatest'
    <3> SUFFICES ASSUME NEW m \in reqNet', m.type = "PUTX",
                        st'[m.requestor][m.addr] = "MI"
                 PROVE  m.data = blk'[m.requestor][m.addr]
      BY DEF PutLatest
    <3>1. m \in reqNet
      BY SMT DEF MissEffect
    <3>2. m.requestor \in Caches /\ m.addr \in Addr
      BY <2>1, <3>1, RequestFields DEF Typed
    <3>3. st[m.requestor][m.addr] = "MI"
      BY <2>3, <2>4, <3>2 DEF Holding
    <3> QED  BY <2>2, <3>1, <3>3 DEF ValueInv, PutLatest
  <2> QED  BY <2>2, <2>6, <2>7, <1>MemoryKept DEF ValueInv, SentLatest

(* A cache gives a line back: its writeback carries what it holds.         *)
<1>PutValue.
  ASSUME ControlInv, ValueInv, NEW c \in Caches, NEW a \in Addr,
         st[c][a] = "M", IssuePUT(c, a),
         UNCHANGED <<dirVars, memVars, fwdNet, dataNet, latest>>
  PROVE  ValueInv'
  <2> USE <1>PutValue
  <2>1. Typed /\ PutInv(a)
    BY DEF ControlInv, AllInv
  <2>2. UNCHANGED <<blk, dstate, owner, mem, memReq, responseFromMemory, fwdNet,
                    dataNet, latest>>
    BY DEF IssuePUT, dirVars, memVars
  <2>3. \A e \in Caches, b \in Addr :
          st'[e][b] = IF e = c /\ b = a THEN "MI" ELSE st[e][b]
    BY <2>1 DEF IssuePUT, Typed
  <2>4. NobodyJoins
    BY <2>2, <1>QueueKept
  <2>5. HeldLatest'
    BY <2>2, <2>3, <2>4, SMT DEF ValueInv, HeldLatest, NobodyJoins, Holding, Awaiting
  <2>6. PutLatest'
    <3> SUFFICES ASSUME NEW m \in reqNet', m.type = "PUTX",
                        st'[m.requestor][m.addr] = "MI"
                 PROVE  m.data = blk'[m.requestor][m.addr]
      BY DEF PutLatest
    <3>1. CASE m \in reqNet
      <4>1. m.requestor \in Caches /\ m.addr \in Addr
        BY <2>1, <3>1, RequestFields DEF Typed
      <4>2. ~(m.requestor = c /\ m.addr = a)
        BY <2>1, <3>1 DEF PutInv, Puts
      <4>3. st[m.requestor][m.addr] = "MI"
        BY <2>3, <4>1, <4>2
      <4> QED  BY <2>2, <3>1, <4>3 DEF ValueInv, PutLatest
    <3>2. CASE m \notin reqNet
      <4>1. m = [type |-> "PUTX", addr |-> a, requestor |-> c, data |-> blk[c][a]]
        BY <3>2 DEF IssuePUT
      <4> QED  BY <2>2, <4>1
    <3> QED  BY <3>1, <3>2
  <2> QED  BY <2>2, <2>5, <2>6, <1>MemoryKept DEF ValueInv, SentLatest

(* A cache hands its line on, with what it holds.                          *)
<1>FwdGETXValue.
  ASSUME ControlInv, ValueInv, NEW c \in Caches, NEW d \in Dirs, FwdGETX(c, d),
         NEW a \in Addr, NEW r \in Caches, Head(fwdNet[d][c]) = Getx(a, r)
  PROVE  ValueInv'
  <2> USE <1>FwdGETXValue
  <2> DEFINE s == IF st[c][a] = "MI" THEN "II" ELSE "I"
  <2>1. Typed /\ Getx(a, r).addr = a /\ Getx(a, r).requestor = r
    BY MessagesDiffer, SMT DEF ControlInv
  <2>2. /\ st[c][a] \in Holding /\ Forwarded(c, d) /\ PopForward(c, d)
        /\ st' = [st EXCEPT ![c][a] = s]
        /\ dataNet' = dataNet \union {[dest |-> r, addr |-> a, data |-> blk[c][a]]}
        /\ blk' = [blk EXCEPT ![c][a] = EmptyBlock]
        /\ UNCHANGED <<dstate, owner, mem, memReq, responseFromMemory, reqNet, latest>>
    <3> DEFINE m == Head(fwdNet[d][c])
    <3>1. m.addr = a /\ m.requestor = r
      BY <2>1
    <3> HIDE DEF m
    <3>2. /\ st[c][m.addr] \in Holding /\ Forwarded(c, d) /\ PopForward(c, d)
          /\ dataNet' = dataNet \union {[dest |-> m.requestor, addr |-> m.addr,
                                         data |-> blk[c][m.addr]]}
          /\ blk' = [blk EXCEPT ![c][m.addr] = EmptyBlock]
          /\ UNCHANGED <<dstate, owner, mem, memReq, responseFromMemory, reqNet,
                         latest>>
      BY DEF FwdGETX, Holding, dirVars, memVars, m
    <3>3. st' = [st EXCEPT ![c][m.addr] =
                   IF st[c][m.addr] = "MI" THEN "II" ELSE "I"]
      BY DEF FwdGETX, m
    <3> QED  BY <3>1, <3>2, <3>3
  <2>3. s \in {"I", "II"} /\ s \notin Holding
    BY DEF Holding
  <2> HIDE DEF s
  <2>4. \A e \in Caches, b \in Addr :
          /\ st'[e][b] = IF e = c /\ b = a THEN s ELSE st[e][b]
          /\ ~(e = c /\ b = a) => blk'[e][b] = blk[e][b]
    BY <2>1, <2>2 DEF Typed
  <2>5. NobodyJoins
    BY <2>2, <1>QueuePopped
  <2>6. InLine(c, a)
    <3>1. Getx(a, r) \in Fwd(c, a)
      BY <2>1, <2>2, PopEffect, SMT DEF ControlInv
    <3> QED  BY <3>1 DEF InLine, Passes
  <2>7. HeldLatest'
    BY <2>2, <2>3, <2>4, <2>5, SMT
       DEF ValueInv, HeldLatest, NobodyJoins, Holding, Awaiting
  <2>8. SentLatest'
    <3>1. blk[c][a] = latest[a]
      BY <2>2, <2>6 DEF ValueInv, HeldLatest
    <3> QED  BY <2>2, <3>1, SMT DEF ValueInv, SentLatest
  <2>9. PutLatest'
    <3> SUFFICES ASSUME NEW m \in reqNet, m.type = "PUTX",
                        st'[m.requestor][m.addr] = "MI"
                 PROVE  m.data = blk'[m.requestor][m.addr]
      BY <2>2 DEF PutLatest
    <3>1. m.requestor \in Caches /\ m.addr \in Addr
      BY <2>1, RequestFields DEF Typed
    <3>2. ~(m.requestor = c /\ m.addr = a) /\ st[m.requestor][m.addr] = "MI"
      BY <2>3, <2>4, <3>1
    <3> QED  BY <2>4, <3>1, <3>2 DEF ValueInv, PutLatest
  <2> QED  BY <2>2, <2>7, <2>8, <2>9, <1>MemoryKept DEF ValueInv

(* A cache whose writeback was answered keeps its data only if it must     *)
(* still hand it on.                                                       *)
<1>AnswerValue.
  ASSUME ControlInv, ValueInv, NEW c \in Caches, NEW d \in Dirs, NEW a \in Addr,
         NEW m, NEW s \in {"I", "MII"}, AnswerEffect(c, d, a, m, s),
         s = "MII" => UNCHANGED blk /\ st[c][a] = "MI"
  PROVE  ValueInv'
  <2> USE <1>AnswerValue
  <2>1. Typed
    BY DEF ControlInv
  <2>2. /\ Forwarded(c, d) /\ PopForward(c, d)
        /\ UNCHANGED <<dstate, owner, mem, memReq, responseFromMemory, reqNet,
                       dataNet, latest>>
    BY DEF AnswerEffect, dirVars, memVars
  <2>3. \A e \in Caches, b \in Addr :
          st'[e][b] = IF e = c /\ b = a THEN s ELSE st[e][b]
    BY <2>1 DEF AnswerEffect, Typed
  <2>4. \A e \in Caches, b \in Addr :
          ~(e = c /\ b = a) \/ s = "MII" => blk'[e][b] = blk[e][b]
    BY <2>1, SMT DEF AnswerEffect, Typed
  <2>5. NobodyJoins
    BY <2>2, <1>QueuePopped
  <2>6. HeldLatest'
    BY <2>2, <2>3, <2>4, <2>5, SMT
       DEF ValueInv, HeldLatest, NobodyJoins, Holding, Awaiting
  <2>7. PutLatest'
    <3> SUFFICES ASSUME NEW n \in reqNet, n.type = "PUTX",
                        st'[n.requestor][n.addr] = "MI"
                 PROVE  n.data = blk'[n.requestor][n.addr]
      BY <2>2 DEF PutLatest
    <3>1. n.requestor \in Caches /\ n.addr \in Addr
      BY <2>1, RequestFields DEF Typed
    <3>2. ~(n.requestor = c /\ n.addr = a) /\ st[n.requestor][n.addr] = "MI"
      BY <2>3, <3>1
    <3> QED  BY <2>4, <3>1, <3>2 DEF ValueInv, PutLatest
  <2> QED  BY <2>2, <2>6, <2>7, <1>MemoryKept DEF ValueInv, SentLatest

(* The writer is the only one to hold the line when it writes.             *)
<1>WriteValue.
  ASSUME ControlInv, ValueInv, NEW c \in Caches, NEW a \in Addr, NEW x,
         Front(c, a), WriteEffect(c, a, x)
  PROVE  ValueInv'
  <2> USE <1>WriteValue
  <2> USE DEF WriteEffect
  <2>1. Typed /\ LineInv(a) /\ MemoryInv(a)
    BY DEF ControlInv, AllInv
  <2>2. dstate[a] \in Owned
    BY <2>1 DEF LineInv
  <2>3. \A m \in memReq \union responseFromMemory : m.addr # a
    BY <2>1, <2>2, NothingPending DEF Owned, Returning
  <2>4. \A e \in Caches : InLine(e, a) /\ st[e][a] \notin Awaiting => e = c
    BY <2>1 DEF LineInv, Front
  <2>5. NobodyJoins
    BY <1>QueueKept
  <2>6. HeldLatest'
    BY <2>4, <2>5, SMT DEF ValueInv, HeldLatest, NobodyJoins, Holding, Awaiting
  <2>7. SentLatest'
    <3>1. \A m \in dataNet : m.addr \in Addr
      BY <2>1 DEF Typed, DataMsg
    <3> QED  BY <3>1 DEF ValueInv, SentLatest
  <2>8. PutLatest'
    <3> SUFFICES ASSUME NEW m \in reqNet, m.type = "PUTX",
                        st'[m.requestor][m.addr] = "MI"
                 PROVE  m.data = blk'[m.requestor][m.addr]
      BY DEF PutLatest
    <3>1. m.requestor \in Caches /\ m.addr \in Addr
      BY <2>1, RequestFields DEF Typed
    <3>2. ~(m.requestor = c /\ m.addr = a) /\ st[m.requestor][m.addr] = "MI"
      BY <3>1
    <3> QED  BY <3>1, <3>2 DEF ValueInv, PutLatest
  <2>9. MemLatest'
    BY <2>2 DEF ValueInv, MemLatest, Owned
  <2>10. \A m \in memReq \union responseFromMemory : m.addr \in Addr
    BY <2>1 DEF Typed, MemoryReq, MemoryMsg
  <2>11. WriteLatest'
    BY <2>3, <2>10 DEF ValueInv, WriteLatest
  <2>12. AnswerLatest'
    BY <2>3, <2>10 DEF ValueInv, AnswerLatest
  <2> QED  BY <2>6, <2>7, <2>8, <2>9, <2>11, <2>12 DEF ValueInv

(* A store that hits.                                                      *)
<1>StoreHitValue.
  ASSUME ControlInv, ValueInv, NEW c \in Caches, NEW a \in Addr,
         NEW w \in 1..LineWords, NEW v \in Values, StoreHit(c, a, w, v)
  PROVE  ValueInv'
  <2> USE <1>StoreHitValue
  <2> DEFINE new == [latest[a] EXCEPT ![w] = v]
  <2>1. Typed /\ LineInv(a)
    BY DEF ControlInv, AllInv
  <2>2. st[c][a] = "M" /\ Front(c, a) /\ InLine(c, a)
    BY <2>1 DEF StoreHit, LineInv, Front
  <2>3. blk[c][a] = latest[a]
    BY <2>2 DEF ValueInv, HeldLatest, Holding
  <2>4. /\ blk' = [blk EXCEPT ![c][a] = new]
        /\ latest' = [latest EXCEPT ![a] = new]
    BY <2>3 DEF StoreHit, StoreWord
  <2>5. UNCHANGED <<st, dstate, owner, mem, memReq, responseFromMemory, reqNet,
                    fwdNet, dataNet>>
    BY DEF StoreHit, dirVars, memVars, fwdVars
  <2> HIDE DEF new
  <2> PICK x : x = new
    BY SMT
  <2>6. \A m \in dataNet : m.addr # a
    BY <2>2, <1>Holder DEF Awaiting
  <2>7. WriteEffect(c, a, x)
    <3>1. \A e \in Caches, b \in Addr :
            blk'[e][b] = IF e = c /\ b = a THEN x ELSE blk[e][b]
      BY <2>1, <2>4 DEF Typed
    <3>2. \A b \in Addr : latest'[b] = IF b = a THEN x ELSE latest[b]
      BY <2>1, <2>4 DEF Typed
    <3> QED  BY <2>2, <2>5, <2>6, <3>1, <3>2 DEF WriteEffect
  <2> QED  BY <2>2, <2>7, <1>WriteValue

(* The data arrives.                                                       *)
<1>CacheDataValue.
  ASSUME ControlInv, ValueInv, NEW c \in Caches, NEW m \in dataNet,
         NEW w \in 1..LineWords, NEW v \in Values, CacheData(c, m, w, v)
  PROVE  ValueInv'
  <2> USE <1>CacheDataValue
  <2>1. Typed /\ m.addr \in Addr /\ m.dest = c
    BY DEF ControlInv, Typed, DataMsg, CacheData
  <2> PICK a \in Addr : a = m.addr
    BY <2>1
  <2>2. LineInv(a)
    BY DEF ControlInv, AllInv
  <2>3. Front(c, a) /\ \A n \in dataNet' : n \in dataNet /\ n.addr # a
    <3>1. Sent(c, a) /\ dataNet' = dataNet \ {m}
      BY <2>1 DEF Sent, CacheData
    <3> QED  BY <2>2, <3>1 DEF LineInv
  <2>4. m.data = latest[a]
    BY DEF ValueInv, SentLatest
  <2>5. UNCHANGED <<dstate, owner, mem, memReq, responseFromMemory, reqNet, fwdNet>>
    BY DEF CacheData, dirVars, memVars, fwdVars
  <2>6. PICK x : \A b \in Addr :
                   /\ latest'[b] = IF b = a THEN x ELSE latest[b]
                   /\ \A e \in Caches :
                        blk'[e][b] = IF e = c /\ b = a THEN x ELSE blk[e][b]
    <3>1. CASE st[c][a] = "IM"
      <4> DEFINE new == [latest[a] EXCEPT ![w] = v]
      <4>1. /\ blk' = [blk EXCEPT ![c][a] = new]
            /\ latest' = [latest EXCEPT ![a] = new]
        BY <2>4, <3>1 DEF CacheData, StoreWord
      <4> HIDE DEF new
      <4>2. \A b \in Addr :
              /\ latest'[b] = IF b = a THEN new ELSE latest[b]
              /\ \A e \in Caches :
                   blk'[e][b] = IF e = c /\ b = a THEN new ELSE blk[e][b]
        BY <2>1, <4>1 DEF Typed
      <4> QED  BY <4>2
    <3>2. CASE st[c][a] # "IM"
      <4>1. blk' = [blk EXCEPT ![c][a] = m.data] /\ latest' = latest
        BY <3>2 DEF CacheData
      <4>2. \A b \in Addr :
              /\ latest'[b] = IF b = a THEN m.data ELSE latest[b]
              /\ \A e \in Caches :
                   blk'[e][b] = IF e = c /\ b = a THEN m.data ELSE blk[e][b]
        BY <2>1, <2>4, <4>1 DEF Typed
      <4> QED  BY <4>2
    <3> QED  BY <3>1, <3>2
  <2>7. WriteEffect(c, a, x)
    <3>1. \A e \in Caches, b \in Addr :
            st'[e][b] = IF e = c /\ b = a THEN "M" ELSE st[e][b]
      BY <2>1 DEF CacheData, Typed
    <3> QED  BY <2>3, <2>5, <2>6, <3>1 DEF WriteEffect
  <2> QED  BY <2>3, <2>7, <1>WriteValue

(* A line is fetched from memory, or passed on to who asks.                *)
<1>DirGETXValue.
  ASSUME ControlInv, ValueInv, NEW m \in reqNet, DirGETX(m)
  PROVE  ValueInv'
  <2> USE <1>DirGETXValue
  <2>1. Typed /\ m.type = "GETX"
    BY DEF ControlInv, DirGETX
  <2>2. m.addr \in Addr /\ m.requestor \in Caches /\ m = Getx(m.addr, m.requestor)
    BY <2>1, RequestFields DEF Typed
  <2> PICK a \in Addr, r \in Caches : a = m.addr /\ r = m.requestor
    BY <2>2
  <2>3. /\ Asks(r, a) /\ AskInv(a)
        /\ reqNet' \subseteq reqNet
        /\ owner' = [owner EXCEPT ![a] = {r}]
        /\ UNCHANGED <<st, blk, mem, responseFromMemory, dataNet, latest>>
    BY <2>2 DEF Asks, ControlInv, AllInv, DirGETX, l1Vars
  <2>4. st[r][a] \in Awaiting
    BY <2>3 DEF AskInv
  <2>5. \A e \in Caches, b \in Addr : e \in owner'[b] => e \in owner[b] \/ (e = r /\ b = a)
    BY <2>1, <2>3 DEF Typed
  <2>6. CASE dstate[a] = "I"
    <3>1. /\ dstate' = [dstate EXCEPT ![a] = "IM"] /\ UNCHANGED fwdNet
          /\ memReq' = memReq \union {[type |-> "READ", addr |-> a, requestor |-> r]}
      BY <2>6 DEF DirGETX
    <3>2. \A b \in Addr : dstate'[b] = IF b = a THEN "IM" ELSE dstate[b]
      BY <2>1, <3>1 DEF Typed
    <3>3. \A e \in Caches, b \in Addr : Owns(e, b)' => Owns(e, b) \/ (e = r /\ b = a)
      BY <2>5, <3>2 DEF Owns, Owned
    <3>4. NobodyJoins
      BY <2>4, <3>1, <3>3, NoMessages DEF NobodyJoins, InLine
    <3>5. MemLatest'
      BY <2>3, <2>6, <3>2 DEF ValueInv, MemLatest
    <3>6. WriteLatest' /\ AnswerLatest'
      BY <2>3, <3>1, SMT DEF ValueInv, WriteLatest, AnswerLatest
    <3> QED  BY <2>3, <3>4, <3>5, <3>6, <1>CachesKept DEF ValueInv
  <2>7. CASE dstate[a] # "I"
    <3>1. /\ dstate[a] = "M"
          /\ Forward(a, owner[a], "GETX", r) /\ UNCHANGED <<dstate, memReq>>
      BY <2>7 DEF DirGETX
    <3>2. \A e \in Caches, b \in Addr : Owns(e, b)' => Owns(e, b) \/ (e = r /\ b = a)
      BY <2>5, <3>1 DEF Owns
    <3>3. \A e \in owner[a] : e \in Caches => InLine(e, a)
      BY <3>1 DEF InLine, Owns, Owned
    <3>4. ForwardedTo(owner[a], Getx(a, r))
      <4> PICK dests : dests = owner[a]
        BY SMT
      <4>1. dests \subseteq Caches
        BY <2>1 DEF Typed
      <4>2. Getx(a, r) = Msg("GETX", a, r)
        BY DEF Getx, Msg
      <4>3. Getx(a, r) \in ForwardMsg
        BY DEF Getx, ForwardMsg
      <4>4. Forward(a, dests, "GETX", r)
        BY <3>1
      <4> QED  BY <2>1, <4>1, <4>2, <4>3, <4>4, ForwardArrives
    <3>5. \A e, q \in Caches, b \in Addr :
            Passes(e, q, b)' => Passes(e, q, b) \/ (e \in owner[a] /\ b = a)
      <4>1. \A q \in Caches, b \in Addr : Getx(a, r) = Getx(b, q) => b = a
        BY MessagesDiffer, SMT
      <4> QED  BY <3>4, <4>1 DEF ForwardedTo
    <3>6. NobodyJoins
      BY <2>4, <3>2, <3>3, <3>5, ZenonT(30) DEF NobodyJoins, InLine
    <3> QED
      BY <2>3, <3>1, <3>6, <1>CachesKept, <1>MemoryKept DEF ValueInv
  <2> QED  BY <2>6, <2>7

(* The owner's writeback carries the last value, to memory and to the DMA  *)
(* controller that waits for it.                                           *)
<1>DirPUTXValue.
  ASSUME ControlInv, ValueInv, NEW m \in reqNet, DirPUTX(m)
  PROVE  ValueInv' /\ ReadsLatest
  <2> USE <1>DirPUTXValue
  <2>1. Typed /\ m.type = "PUTX" /\ m.requestor \in owner[m.addr]
    BY DEF ControlInv, DirPUTX, IsOwner
  <2>2. m.addr \in Addr /\ m.requestor \in Caches
    BY <2>1, RequestFields DEF Typed
  <2> PICK a \in Addr, r \in Caches : a = m.addr /\ r = m.requestor
    BY <2>2
  <2>3. LineInv(a) /\ PutInv(a) /\ Puts(r, a) /\ dstate[a] \in Owned
    BY <2>1 DEF ControlInv, AllInv, Puts, DirPUTX, Owned
  <2>4. InLine(r, a) /\ st[r][a] = "MI"
    <3>1. InLine(r, a)
      BY <2>1, <2>3 DEF InLine, Owns
    <3> QED  BY <2>3, <3>1 DEF LineInv, PutInv
  <2>5. m.data = latest[a]
    <3>1. m.data = blk[r][a]
      BY <2>1, <2>4 DEF ValueInv, PutLatest
    <3>2. blk[r][a] = latest[a]
      BY <2>4 DEF ValueInv, HeldLatest, Holding
    <3> QED  BY <3>1, <3>2
  <2>6. /\ reqNet' \subseteq reqNet
        /\ owner' = [owner EXCEPT ![a] = {}]
        /\ UNCHANGED <<st, blk, mem, responseFromMemory, dataNet, fwdNet, latest>>
    BY DEF DirPUTX, l1Vars, fwdVars
  <2>7. /\ dstate'[a] \in Returning
        /\ \A b \in Addr : b # a => dstate'[b] = dstate[b]
    BY <2>1 DEF DirPUTX, Typed, Returning
  <2>8. \A n \in memReq' : n \notin memReq /\ n.type = "WRITE" =>
                             n.addr = a /\ n.data = m.data
    BY SMT DEF DirPUTX
  <2>9. \A n \in dmaRespNet' : n \notin dmaRespNet =>
                                 n.addr = a /\ n.data = m.data
    BY SMT DEF DirPUTX
  <2>10. NobodyJoins
    <3>1. \A e \in Caches, b \in Addr : Owns(e, b)' => Owns(e, b)
      BY <2>1, <2>6, <2>7 DEF Owns, Typed
    <3> QED  BY <2>6, <3>1, NoMessages DEF NobodyJoins, InLine
  <2>11. MemLatest'
    BY <2>6, <2>7 DEF ValueInv, MemLatest, Returning
  <2>12. WriteLatest' /\ AnswerLatest'
    BY <2>5, <2>6, <2>8 DEF ValueInv, WriteLatest, AnswerLatest
  <2>13. ReadsLatest
    BY <2>5, <2>6, <2>9 DEF ReadsLatest
  <2> QED  BY <2>6, <2>10, <2>11, <2>12, <2>13, <1>CachesKept DEF ValueInv

(* A writeback that is refused changes no value.                           *)
<1>DirPUTXNotOwnerValue.
  ASSUME ControlInv, ValueInv, NEW m \in reqNet, DirPUTXNotOwner(m)
  PROVE  ValueInv'
  <2> USE <1>DirPUTXNotOwnerValue
  <2>1. m.addr \in Addr /\ m.requestor \in Caches
    BY RequestFields DEF ControlInv, Typed
  <2>2. /\ Forward(m.addr, {m.requestor}, "WB_NACK", m.requestor)
        /\ reqNet' \subseteq reqNet
        /\ UNCHANGED <<st, blk, dstate, owner, mem, memReq, responseFromMemory,
                       dataNet, latest>>
    BY DEF DirPUTXNotOwner, l1Vars, dirVars, memVars
  <2>3. \A e \in Caches, b \in Addr : Owns(e, b)' => Owns(e, b)
    BY <2>2 DEF Owns
  <2>4. NobodyJoins
    <3> DEFINE dests == {m.requestor}
    <3>1. dests \subseteq Caches /\ Forward(m.addr, dests, "WB_NACK", m.requestor)
      BY <2>1, <2>2
    <3> HIDE DEF dests
    <3> QED  BY <2>1, <2>3, <3>1, <1>QueueSent
  <2> QED  BY <2>2, <2>4, <1>CachesKept, <1>MemoryKept DEF ValueInv

(* A DMA request changes no value by itself.                               *)
<1>DirDMAValue.
  ASSUME ControlInv, ValueInv, NEW m \in dmaReqNet, DirDMA(m)
  PROVE  ValueInv'
  <2> USE <1>DirDMAValue
  <2>1. Typed /\ m.addr \in Addr
    BY DEF ControlInv, Typed, DMARequest
  <2> PICK a \in Addr : a = m.addr
    BY <2>1
  <2>2. UNCHANGED <<st, blk, owner, mem, responseFromMemory, reqNet, dataNet, latest>>
    BY DEF DirDMA, l1Vars
  <2>3. CASE dstate[a] = "I"
    <3>1. UNCHANGED fwdNet
      BY <2>3 DEF DirDMA
    <3>2. /\ dstate'[a] \in {"ID", "ID_W"}
          /\ \A b \in Addr : b # a => dstate'[b] = dstate[b]
      BY <2>1, <2>3 DEF DirDMA, Typed
    <3>3. \A n \in memReq' : n \notin memReq => n.type # "WRITE"
      BY <2>3, SMT DEF DirDMA
    <3>4. NobodyJoins
      <4>1. \A e \in Caches, b \in Addr : Owns(e, b)' => Owns(e, b)
        BY <2>2, <3>2 DEF Owns, Owned
      <4> QED  BY <3>1, <4>1, NoMessages DEF NobodyJoins, InLine
    <3>5. MemLatest'
      BY <2>2, <2>3, <3>2 DEF ValueInv, MemLatest
    <3>6. WriteLatest' /\ AnswerLatest'
      BY <2>2, <3>3 DEF ValueInv, WriteLatest, AnswerLatest
    <3> QED  BY <2>2, <3>4, <3>5, <3>6, <1>CachesKept DEF ValueInv
  <2>4. CASE dstate[a] # "I"
    <3>1. /\ dstate[a] = "M" /\ UNCHANGED memReq
          /\ Forward(a, owner[a], "INV", Home[a])
      BY <2>4 DEF DirDMA
    <3>2. /\ dstate'[a] \in {"M_DRD", "M_DWR"}
          /\ \A b \in Addr : b # a => dstate'[b] = dstate[b]
      BY <2>1, <3>1 DEF DirDMA, Typed
    <3>3. \A e \in Caches, b \in Addr : Owns(e, b)' => Owns(e, b)
      BY <2>2, <3>1, <3>2 DEF Owns, Owned
    <3>4. NobodyJoins
      <4> PICK dests : dests = owner[a]
        BY SMT
      <4>1. dests \subseteq Caches /\ Forward(a, dests, "INV", Home[a])
        BY <2>1, <3>1 DEF Typed
      <4>2. Home[a] \in Caches \union Dirs
        BY MIAssumption
      <4> QED  BY <3>3, <4>1, <4>2, <1>QueueSent
    <3>5. MemLatest'
      BY <2>2, <3>2 DEF ValueInv, MemLatest
    <3>6. WriteLatest' /\ AnswerLatest'
      BY <2>2, <3>1 DEF ValueInv, WriteLatest, AnswerLatest
    <3> QED  BY <2>2, <3>4, <3>5, <3>6, <1>CachesKept DEF ValueInv
  <2> QED  BY <2>3, <2>4

(* What memory read goes to the cache or the DMA controller that waits.    *)
<1>DirMemoryDataValue.
  ASSUME ControlInv, ValueInv, NEW m \in responseFromMemory, DirMemoryData(m)
  PROVE  ValueInv' /\ ReadsLatest
  <2> USE <1>DirMemoryDataValue
  <2>1. Typed /\ m.addr \in Addr /\ m.type = "MEMORY_READ"
    BY DEF ControlInv, Typed, MemoryMsg, DirMemoryData
  <2> PICK a \in Addr : a = m.addr
    BY <2>1
  <2>2. m.data = latest[a]
    BY <2>1 DEF ValueInv, AnswerLatest
  <2>3. /\ responseFromMemory' \subseteq responseFromMemory
        /\ UNCHANGED <<st, blk, owner, mem, memReq, reqNet, fwdNet, latest>>
    BY DEF DirMemoryData, l1Vars, fwdVars
  <2>4. WriteLatest' /\ AnswerLatest'
    BY <2>3 DEF ValueInv, WriteLatest, AnswerLatest
  <2>5. CASE dstate[a] = "IM"
    <3>1. /\ dataNet' = dataNet \union {[dest |-> m.requestor, addr |-> a,
                                         data |-> m.data]}
          /\ UNCHANGED dmaRespNet
      BY <2>5 DEF DirMemoryData
    <3>2. /\ dstate'[a] = "M"
          /\ \A b \in Addr : b # a => dstate'[b] = dstate[b]
      BY <2>1, <2>5 DEF DirMemoryData, Typed
    <3>3. \A e \in Caches : e \in owner[a] => st[e][a] \in Awaiting
      BY <2>5 DEF ControlInv, AllInv, AskInv
    <3>4. NobodyJoins
      <4>1. \A e \in Caches, b \in Addr :
              Owns(e, b)' => Owns(e, b) \/ st[e][b] \in Awaiting
        BY <2>3, <3>2, <3>3 DEF Owns
      <4> QED  BY <2>3, <4>1, NoMessages DEF NobodyJoins, InLine
    <3>5. HeldLatest'
      BY <2>3, <3>4
         DEF ValueInv, HeldLatest, NobodyJoins, Holding, Awaiting
    <3>6. SentLatest'
      BY <2>2, <2>3, <3>1, SMT DEF ValueInv, SentLatest
    <3>7. PutLatest'
      BY <2>3 DEF ValueInv, PutLatest
    <3>8. MemLatest'
      BY <2>3, <3>2 DEF ValueInv, MemLatest
    <3> QED
      BY <2>4, <3>1, <3>5, <3>6, <3>7, <3>8 DEF ValueInv, ReadsLatest
  <2>6. CASE dstate[a] # "IM"
    <3>1. /\ UNCHANGED dataNet /\ dstate[a] = "ID"
          /\ \A n \in dmaRespNet' : n \notin dmaRespNet =>
                                      n.addr = a /\ n.data = m.data
      BY <2>6, SMT DEF DirMemoryData
    <3>2. /\ dstate'[a] = "I"
          /\ \A b \in Addr : b # a => dstate'[b] = dstate[b]
      BY <2>1, <2>6 DEF DirMemoryData, Typed
    <3>3. NobodyJoins
      <4>1. \A e \in Caches, b \in Addr : Owns(e, b)' => Owns(e, b)
        BY <2>3, <3>2 DEF Owns, Owned
      <4> QED  BY <2>3, <4>1, NoMessages DEF NobodyJoins, InLine
    <3>4. MemLatest'
      BY <2>3, <3>1, <3>2 DEF ValueInv, MemLatest
    <3>5. ReadsLatest
      BY <2>2, <2>3, <3>1 DEF ReadsLatest
    <3> QED  BY <2>3, <2>4, <3>1, <3>3, <3>4, <3>5, <1>CachesKept DEF ValueInv
  <2> QED  BY <2>5, <2>6

(* Memory has written, and holds the last value.                           *)
<1>DirMemoryAckValue.
  ASSUME ControlInv, ValueInv, NEW m \in responseFromMemory, DirMemoryAck(m)
  PROVE  ValueInv' /\ ReadsLatest
  <2> USE <1>DirMemoryAckValue
  <2>1. Typed /\ m.addr \in Addr /\ m.type = "MEMORY_WB"
    BY DEF ControlInv, Typed, MemoryMsg, DirMemoryAck
  <2> PICK a \in Addr : a = m.addr
    BY <2>1
  <2>2. mem[a] = latest[a]
    BY <2>1 DEF ValueInv, AnswerLatest
  <2>3. DoneEffect(m, a)
    BY DEF DirMemoryAck, DoneEffect, l1Vars
  <2>4. /\ responseFromMemory' \subseteq responseFromMemory
        /\ UNCHANGED <<st, blk, owner, mem, memReq, reqNet, dataNet, latest>>
        /\ dstate'[a] = "I"
        /\ \A b \in Addr : b # a => dstate'[b] = dstate[b]
    BY <2>1, <2>3 DEF DoneEffect, Typed
  <2>5. \A e \in Caches, b \in Addr : Owns(e, b)' => Owns(e, b)
    BY <2>4 DEF Owns, Owned
  <2>6. NobodyJoins
    <3>1. CASE dstate[a] = "ID_W"
      <4>1. Forward(a, {}, "WB_ACK", m.requestor)
        BY <3>1 DEF DirMemoryAck
      <4>2. UNCHANGED fwdNet
        BY <2>1, <4>1, ForwardNobody
      <4> QED  BY <2>5, <4>2, NoMessages DEF NobodyJoins, InLine
    <3>2. CASE dstate[a] # "ID_W"
      <4>1. /\ Forward(a, {m.requestor}, "WB_ACK", m.requestor)
            /\ dstate[a] \in Returning
        BY <3>2 DEF DirMemoryAck, Returning
      <4>2. MemoryInv(a)
        BY DEF ControlInv, AllInv
      <4>3. m.requestor \in Caches
        BY <2>1, <4>1, <4>2 DEF MemoryInv, Returning
      <4> DEFINE dests == {m.requestor}
      <4>4. dests \subseteq Caches /\ Forward(a, dests, "WB_ACK", m.requestor)
        BY <4>1, <4>3
      <4> HIDE DEF dests
      <4> QED  BY <2>5, <4>3, <4>4, <1>QueueSent
    <3> QED  BY <3>1, <3>2
  <2>7. MemLatest'
    BY <2>2, <2>4 DEF ValueInv, MemLatest
  <2>8. WriteLatest' /\ AnswerLatest'
    BY <2>4 DEF ValueInv, WriteLatest, AnswerLatest
  <2>9. ReadsLatest
    <3>1. \A n \in dmaRespNet' : n \notin dmaRespNet => n.type = "ACK"
      BY SMT DEF DirMemoryAck
    <3> QED  BY <3>1 DEF ReadsLatest
  <2> QED  BY <2>4, <2>6, <2>7, <2>8, <2>9, <1>CachesKept DEF ValueInv

(* A transfer of a whole line is what memory writes.                       *)
<1>WholeLine.
  ASSUME LineWords = 1, NEW l, NEW k, NEW t \in Transfer
  PROVE  WritePartial(l, t) = Transferred(k, t)
  <2> USE <1>WholeLine
  <2>1. t.offset \in 0..0 /\ t.len \in 1..1
    BY SMT DEF Transfer
  <2>2. t.offset = 0 /\ t.len = 1
    BY <2>1, SMT
  <2>3. \A w \in 1..LineWords : w <= t.len /\ t.offset < w /\ w <= t.offset + t.len
    BY <2>2, SMT
  <2>4. WritePartial(l, t) = [w \in 1..LineWords |-> t.data[w]]
    BY <2>3 DEF WritePartial
  <2>5. Transferred(k, t) = [w \in 1..LineWords |-> t.data[w]]
    BY <2>3 DEF Transferred
  <2> QED  BY <2>4, <2>5

(* Memory reads and writes the last value, or takes a new one for a line   *)
(* that no cache holds.                                                    *)
<1>MemoryValue.
  ASSUME LineWords = 1, ControlInv, ValueInv, NEW r \in memReq, MemoryAccess(r)
  PROVE  ValueInv'
  <2> USE <1>MemoryValue
  <2>1. Typed /\ r \in MemoryReq
    BY DEF ControlInv, Typed
  <2>2. r.addr \in Addr /\ r.type \in {"READ", "WRITE", "PARTIAL"}
    BY <2>1 DEF MemoryReq
  <2> PICK a \in Addr : a = r.addr
    BY <2>2
  <2>3. MemoryInv(a) /\ UNCHANGED <<st, blk, dstate, owner, reqNet, fwdNet, dataNet>>
    BY DEF ControlInv, AllInv, MemoryAccess, l1Vars, dirVars, fwdVars
  <2>4. NobodyJoins
    BY <2>3, <1>QueueKept
  <2>5. memReq' \subseteq memReq /\ \A n \in memReq' : n.addr # a
    BY <2>3 DEF MemoryAccess, MemoryInv
  <2>6. \A n \in responseFromMemory' :
          \/ n \in responseFromMemory /\ n.addr # a
          \/ /\ n.addr = a
             /\ n.type = IF r.type = "READ" THEN "MEMORY_READ" ELSE "MEMORY_WB"
             /\ r.type = "READ" => n.data = mem[a]
    BY <2>3, SMT DEF MemoryAccess, MemoryInv
  <2>7. \A n \in memReq \union responseFromMemory : n.addr \in Addr
    BY <2>1 DEF Typed, MemoryReq, MemoryMsg
  <2>8. CASE r.type = "READ"
    <3>1. UNCHANGED <<mem, latest>>
      BY <2>8 DEF MemoryAccess
    <3>2. mem[a] = latest[a]
      BY <2>3, <2>8 DEF MemoryInv, ValueInv, MemLatest
    <3>3. MemLatest' /\ WriteLatest'
      BY <2>3, <2>5, <3>1 DEF ValueInv, MemLatest, WriteLatest
    <3>4. AnswerLatest'
      BY <2>6, <2>8, <3>1, <3>2 DEF ValueInv, AnswerLatest
    <3> QED  BY <2>3, <2>4, <3>1, <3>3, <3>4, <1>CachesKept DEF ValueInv
  <2>9. CASE r.type = "WRITE"
    <3>1. UNCHANGED latest /\ mem' = [mem EXCEPT ![a] = r.data]
      BY <2>9 DEF MemoryAccess
    <3>2. r.data = latest[a]
      BY <2>9 DEF ValueInv, WriteLatest
    <3>3. \A b \in Addr : mem'[b] = IF b = a THEN latest[a] ELSE mem[b]
      BY <2>1, <3>1, <3>2 DEF Typed
    <3>4. MemLatest' /\ WriteLatest'
      BY <2>3, <2>5, <3>1, <3>3 DEF ValueInv, MemLatest, WriteLatest
    <3>5. AnswerLatest'
      BY <2>6, <2>7, <2>9, <3>1, <3>3 DEF ValueInv, AnswerLatest
    <3> QED  BY <2>3, <2>4, <3>1, <3>4, <3>5, <1>CachesKept DEF ValueInv
  <2>10. CASE r.type = "PARTIAL"
    <3> DEFINE new == WritePartial(mem[a], r.transfer)
    <3>1. new = Transferred(latest[a], r.transfer)
      <4>1. r.transfer \in Transfer
        BY <2>1, <2>10, RequestData
      <4> QED  BY <4>1, <1>WholeLine
    <3> HIDE DEF new
    <3>2. mem' = [mem EXCEPT ![a] = new] /\ latest' = [latest EXCEPT ![a] = new]
      BY <2>10, <3>1 DEF MemoryAccess, new
    <3>3. \A b \in Addr : /\ mem'[b] = IF b = a THEN new ELSE mem[b]
                          /\ latest'[b] = IF b = a THEN new ELSE latest[b]
      BY <2>1, <3>2 DEF Typed
    <3>4. /\ \A e \in Caches : InLine(e, a) => st[e][a] \in Awaiting
          /\ \A n \in dataNet : n.addr # a
      <4>1. dstate[a] \notin Owned
        BY <2>3, <2>10 DEF MemoryInv, Returning, Owned
      <4> QED  BY <4>1, <1>NoHolder
    <3>5. HeldLatest'
      BY <2>3, <2>4, <3>3, <3>4
         DEF ValueInv, HeldLatest, NobodyJoins, Holding, Awaiting
    <3>6. SentLatest'
      <4>1. \A n \in dataNet : n.addr \in Addr
        BY <2>1 DEF Typed, DataMsg
      <4> QED  BY <2>3, <3>3, <3>4, <4>1 DEF ValueInv, SentLatest
    <3>7. PutLatest'
      BY <2>3 DEF ValueInv, PutLatest
    <3>8. MemLatest'
      BY <2>3, <3>3 DEF ValueInv, MemLatest
    <3>9. WriteLatest'
      BY <2>5, <2>7, <3>3 DEF ValueInv, WriteLatest
    <3>10. AnswerLatest'
      BY <2>6, <2>7, <2>10, <3>3 DEF ValueInv, AnswerLatest
    <3> QED  BY <3>5, <3>6, <3>7, <3>8, <3>9, <3>10 DEF ValueInv
  <2> QED  BY <2>2, <2>8, <2>9, <2>10

(* Steps that move no line.                                                *)
<1>QuietValue.
  ASSUME ValueInv,
         UNCHANGED <<st, blk, dstate, owner, mem, memReq, responseFromMemory,
                     reqNet, fwdNet, dataNet, latest>>
  PROVE  ValueInv'
    BY <1>QuietValue, <1>QueueKept, <1>CachesKept, <1>MemoryKept DEF ValueInv

(* The steps a cache takes for the message at the head of its queue.       *)
<1>ForwardedValue.
  ASSUME ControlInv, ValueInv, NEW c \in Caches, NEW d \in Dirs,
         FwdGETX(c, d) \/ Inv(c, d) \/ WritebackAck(c, d) \/ WritebackNack(c, d)
  PROVE  ValueInv'
  <2> USE <1>ForwardedValue
  <2> PICK m : m = Head(fwdNet[d][c])
    BY SMT
  <2>1. /\ m.addr \in Addr
        /\ m.type = "GETX" => m.requestor \in Caches /\ m = Getx(m.addr, m.requestor)
        /\ m.type = "WB_ACK" => m = Ack(m.addr, c)
        /\ m.type = "WB_NACK" => m = Nack(m.addr, c)
    BY ForwardedHead
  <2>2. CASE FwdGETX(c, d)
    <3>1. m.type = "GETX"
      BY <2>2 DEF FwdGETX
    <3> QED  BY <2>1, <2>2, <3>1, <1>FwdGETXValue
  <2>3. CASE Inv(c, d)
    <3>1. UNCHANGED <<dirVars, memVars, dataNet, latest>>
      BY <2>3 DEF Inv
    <3>2. CASE st[c][m.addr] = "M"
      <4>1. IssuePUT(c, m.addr) /\ UNCHANGED fwdNet
        BY <2>3, <3>2 DEF Inv, fwdVars
      <4> QED  BY <2>1, <3>1, <3>2, <4>1, <1>PutValue
    <3>3. CASE st[c][m.addr] # "M"
      <4>1. Forwarded(c, d) /\ PopForward(c, d) /\ UNCHANGED <<st, blk, reqNet>>
        BY <2>3, <3>3 DEF Inv, l1Vars
      <4>2. UNCHANGED <<dstate, owner, mem, memReq, responseFromMemory>>
        BY <3>1 DEF dirVars, memVars
      <4>3. NobodyJoins
        BY <4>1, <4>2, <1>QueuePopped
      <4> QED  BY <3>1, <4>1, <4>2, <4>3, <1>CachesKept, <1>MemoryKept
                  DEF ValueInv
    <3> QED  BY <3>2, <3>3
  <2>4. CASE WritebackAck(c, d)
    <3>1. m.type = "WB_ACK"
      BY <2>4 DEF WritebackAck
    <3>2. AnswerEffect(c, d, m.addr, m, "I")
      BY <2>1, <2>4, <3>1 DEF AnswerEffect, WritebackAck, dmaVars
    <3> QED  BY <2>1, <3>2, <1>AnswerValue
  <2>5. CASE WritebackNack(c, d)
    <3> DEFINE s == IF st[c][m.addr] = "MI" THEN "MII" ELSE "I"
    <3>1. /\ m.type = "WB_NACK" /\ Forwarded(c, d) /\ PopForward(c, d)
          /\ st[c][m.addr] \in {"MI", "II"}
          /\ st' = [st EXCEPT ![c][m.addr] = s]
          /\ UNCHANGED <<blk, dirVars, memVars, reqNet, dataNet, dmaReqNet, latest>>
      BY <2>5 DEF WritebackNack, dmaVars
    <3> PICK n \in {"I", "MII"} : n = s
      BY SMT
    <3>2. (n = "I" => st[c][m.addr] = "II") /\ (n = "MII" => st[c][m.addr] = "MI")
      BY <3>1
    <3>3. m = Nack(m.addr, c)
      BY <2>1, <3>1
    <3> HIDE DEF s
    <3>4. AnswerEffect(c, d, m.addr, m, n)
      BY <3>1, <3>2, <3>3 DEF AnswerEffect
    <3> QED  BY <2>1, <3>1, <3>2, <3>4, <1>AnswerValue
  <2> QED  BY <2>2, <2>3, <2>4, <2>5

(* The steps of a cache for its processor.                                 *)
<1>ProcessorValue.
  ASSUME ControlInv, ValueInv, NEW c \in Caches, NEW a \in Addr,
         \/ LoadHit(c, a)
         \/ \E w \in 1..LineWords, v \in Values : StoreHit(c, a, w, v)
         \/ \E type \in {"Load", "Store"} : Miss(c, type, a)
         \/ Replacement(c, a)
  PROVE  ValueInv'
  <2> USE <1>ProcessorValue
  <2>1. CASE LoadHit(c, a)
    BY <2>1, <1>QuietValue DEF LoadHit, dirVars, memVars, fwdVars
  <2>2. CASE \E w \in 1..LineWords, v \in Values : StoreHit(c, a, w, v)
    BY <2>2, <1>StoreHitValue
  <2>3. ASSUME NEW type \in {"Load", "Store"}, Miss(c, type, a)
        PROVE  ValueInv'
    <3> DEFINE s == IF type = "Load" THEN "IS" ELSE "IM"
    <3>1. s \in Awaiting
      BY DEF Awaiting
    <3>2. MissEffect(c, a, s)
      BY <2>3 DEF Miss, MissEffect, fwdVars, dmaVars
    <3> HIDE DEF s
    <3> QED  BY <3>1, <3>2, <1>MissValue
  <2>4. CASE Replacement(c, a)
    <3>1. UNCHANGED <<dirVars, memVars, fwdNet, dataNet, latest>>
      BY <2>4 DEF Replacement, fwdVars
    <3>2. CASE st[c][a] = "M"
      <4>1. IssuePUT(c, a)
        BY <2>4, <3>2 DEF Replacement
      <4> QED  BY <3>1, <3>2, <4>1, <1>PutValue
    <3>3. CASE st[c][a] # "M"
      <4>1. UNCHANGED <<st, blk, reqNet>>
        BY <2>4, <3>3 DEF Replacement
      <4> QED  BY <3>1, <4>1, <1>QuietValue DEF dirVars, memVars
    <3> QED  BY <3>2, <3>3
  <2> QED  BY <2>1, <2>2, <2>3, <2>4

<1> SUFFICES ASSUME LineWords = 1, ControlInv, ValueInv, [Next]_vars
             PROVE  ValueInv' /\ ReadsLatest
  OBVIOUS
<1>0. dmaRespNet' \subseteq dmaRespNet => ReadsLatest
  BY DEF ReadsLatest
<1>1. CASE UNCHANGED vars
  BY <1>0, <1>1, <1>QuietValue
     DEF vars, l1Vars, dirVars, memVars, fwdVars, dmaVars
<1>2. CASE Issue
  <2>1. ASSUME NEW c \in Caches, NEW type \in {"Load", "Store"}, NEW a \in Addr,
               MakeRequest(c, type, a)
        PROVE  ValueInv' /\ ReadsLatest
    BY <1>0, <2>1, <1>QuietValue
       DEF MakeRequest, dirVars, memVars, fwdVars, dmaVars
  <2>2. ASSUME NEW type \in {"READ", "WRITE"}, NEW a \in Addr, NEW t \in Transfer,
               DmaRequest(type, a, t)
        PROVE  ValueInv' /\ ReadsLatest
    BY <1>0, <2>2, <1>QuietValue
       DEF DmaRequest, l1Vars, dirVars, memVars, fwdVars
  <2> QED  BY <1>2, <2>1, <2>2 DEF Issue
<1>3. CASE Protocol
  <2>1. ASSUME NEW c \in Caches, NEW a \in Addr,
               \/ LoadHit(c, a)
               \/ \E w \in 1..LineWords, v \in Values : StoreHit(c, a, w, v)
               \/ \E type \in {"Load", "Store"} : Miss(c, type, a)
               \/ Replacement(c, a)
        PROVE  ValueInv' /\ ReadsLatest
    <3>1. UNCHANGED dmaRespNet
      BY <2>1 DEF LoadHit, StoreHit, Miss, Replacement, dmaVars
    <3> QED  BY <1>0, <2>1, <3>1, <1>ProcessorValue
  <2>2. ASSUME NEW c \in Caches, NEW d \in Dirs, Stall(c, d)
        PROVE  ValueInv' /\ ReadsLatest
    BY <1>0, <2>2, <1>QuietValue
       DEF Stall, l1Vars, dirVars, memVars, dmaVars
  <2>3. ASSUME NEW c \in Caches, NEW d \in Dirs,
               FwdGETX(c, d) \/ Inv(c, d) \/ WritebackAck(c, d) \/ WritebackNack(c, d)
        PROVE  ValueInv' /\ ReadsLatest
    <3>1. /\ FwdGETX(c, d) => UNCHANGED dmaVars
          /\ Inv(c, d) => UNCHANGED dmaVars
          /\ WritebackAck(c, d) => UNCHANGED dmaVars
          /\ WritebackNack(c, d) => UNCHANGED dmaVars
      BY DEF FwdGETX, Inv, WritebackAck, WritebackNack
    <3>2. UNCHANGED dmaRespNet
      BY <2>3, <3>1 DEF dmaVars
    <3> QED  BY <1>0, <2>3, <3>2, <1>ForwardedValue
  <2>4. ASSUME NEW c \in Caches, NEW m \in dataNet, NEW w \in 1..LineWords,
               NEW v \in Values, CacheData(c, m, w, v)
        PROVE  ValueInv' /\ ReadsLatest
    <3>1. UNCHANGED dmaRespNet
      BY <2>4 DEF CacheData, dmaVars
    <3> QED  BY <1>0, <2>4, <3>1, <1>CacheDataValue
  <2>5. ASSUME NEW m \in reqNet, DirGETX(m) \/ DirPUTXNotOwner(m)
        PROVE  ValueInv' /\ ReadsLatest
    <3>1. UNCHANGED dmaRespNet
      BY <2>5 DEF DirGETX, DirPUTXNotOwner, dmaVars
    <3> QED  BY <1>0, <2>5, <3>1, <1>DirGETXValue, <1>DirPUTXNotOwnerValue
  <2>6. ASSUME NEW m \in dmaReqNet, DirDMA(m)
        PROVE  ValueInv' /\ ReadsLatest
    <3>1. UNCHANGED dmaRespNet
      BY <2>6 DEF DirDMA
    <3> QED  BY <1>0, <2>6, <3>1, <1>DirDMAValue
  <2>7. ASSUME NEW r \in memReq, MemoryAccess(r)
        PROVE  ValueInv' /\ ReadsLatest
    <3>1. UNCHANGED dmaRespNet
      BY <2>7 DEF MemoryAccess, dmaVars
    <3> QED  BY <1>0, <2>7, <3>1, <1>MemoryValue
  <2>8. ASSUME NEW m \in dmaRespNet, DmaResponse(m)
        PROVE  ValueInv' /\ ReadsLatest
    BY <1>0, <2>8, <1>QuietValue
       DEF DmaResponse, l1Vars, dirVars, memVars, fwdVars
  <2>9. CASE Panic
    BY <1>0, <2>9, <1>QuietValue
       DEF Panic, l1Vars, dirVars, memVars, fwdVars, dmaVars
  <2> QED
    BY <1>3, <2>1, <2>2, <2>3, <2>4, <2>5, <2>6, <2>7, <2>8, <2>9,
       <1>DirPUTXValue, <1>DirMemoryDataValue, <1>DirMemoryAckValue, ZenonT(30) DEF Protocol
<1> QED  BY <1>1, <1>2, <1>3 DEF Next

(* At the start memory holds the last value of every line.                 *)
LEMMA ValueInit == Init => ValueInv
<1> SUFFICES ASSUME Init PROVE ValueInv
  BY SMT
<1>1. \A c \in Caches, b \in Addr : st[c][b] = "I" /\ mem[b] = latest[b]
  BY DEF Init
<1>2. HeldLatest
  BY <1>1 DEF HeldLatest, Holding
<1>3. MemLatest
  BY DEF Init, MemLatest
<1> QED
  BY <1>2, <1>3
     DEF Init, ValueInv, SentLatest, PutLatest, WriteLatest, AnswerLatest

(* Data value: for any number of controllers and lines, what a cache may   *)
(* read is the last value stored or transferred, and so is memory when the *)
(* directory has the line (u_writeDataToCache, l_queueMemoryWBRequest),    *)
(* when a transfer covers the line.                                        *)
THEOREM MIReadableIsLatest ==
  ASSUME LineWords = 1
  PROVE  Spec => []ReadableIsLatest
<1>1. Init => ControlInv /\ ValueInv
  BY ControlInit, ValueInit
<1>2. ControlInv /\ ValueInv /\ [Next]_vars => (ControlInv /\ ValueInv)'
  BY ControlStep, ValueStep
<1>3. ControlInv /\ ValueInv => ReadableIsLatest
  <2> SUFFICES ASSUME ControlInv, ValueInv, NEW a \in Addr
               PROVE  /\ \A c \in Caches : st[c][a] = "M" => blk[c][a] = latest[a]
                      /\ dstate[a] = "I" => mem[a] = latest[a]
    BY DEF ReadableIsLatest
  <2>1. \A c \in Caches : st[c][a] = "M" => InLine(c, a)
    BY DEF ControlInv, AllInv, LineInv, Front
  <2> QED  BY <2>1 DEF ValueInv, HeldLatest, MemLatest, Holding
<1> QED  BY <1>1, <1>2, <1>3, PTL DEF Spec

(* A DMA read returns the last value, from memory (dr_sendDMAData) or from *)
(* the writeback of the cache that had the line (drp_sendDMAData), for any *)
(* number of controllers and lines, when a transfer covers the line.       *)
THEOREM MIDmaReadsLatest ==
  ASSUME LineWords = 1
  PROVE  Spec => DmaReadsLatest
<1>1. Init => ControlInv /\ ValueInv
  BY ControlInit, ValueInit
<1>2. ControlInv /\ ValueInv /\ [Next]_vars => (ControlInv /\ ValueInv)'
  BY ControlStep, ValueStep
<1>3. ControlInv /\ ValueInv /\ [Next]_vars =>
        [\A m \in dmaRespNet' \ dmaRespNet :
           m.type = "DATA" => m.data = latest'[m.addr]]_vars
  BY ValueStep DEF ReadsLatest
<1> QED  BY <1>1, <1>2, <1>3, PTL DEF Spec, DmaReadsLatest

-----------------------------------------------------------------------------
(* Which events a controller can meet. *)

\* INV is under way to cache c about line a.
Recalled(c, a) == \E m \in Fwd(c, a) : m.type = "INV" /\ m.addr = a

\* Why: the directory waits for the writeback, or has had it.
Recalling(c, a) == dstate[a] \in {"M_DRD", "M_DWR"} /\ c \in owner[a]
Reason(c, a) == Recalling(c, a) \/ Returned(c, a) \/ Acked(c, a)

\* The answer to a writeback is behind every INV for its line.
AckLast(q) == \A i, j \in DOMAIN q :
                q[i].type = "WB_ACK" /\ q[j].type = "INV" /\ q[i].addr = q[j].addr
                  => j < i
AcksLast == \A d \in Dirs, c \in Caches : AckLast(fwdNet[d][c])

\* A cache that gave the line away is not told that its writeback was taken,
\* one whose writeback is refused has been told to pass the line on, and INV
\* finds a cache that writes the line back or has done so.
PairInv(c, a) ==
  /\ st[c][a] = "II" => ~Returned(c, a) /\ ~Acked(c, a)
  /\ st[c][a] = "MI" /\ Puts(c, a) => InLine(c, a)
  /\ st[c][a] = "MII" \/ (st[c][a] = "MI" /\ Nacked(c, a))
       => \E r \in Caches : Passes(c, r, a)
  /\ Recalled(c, a) => Reason(c, a)

Unowned == \A a \in Addr : dstate[a] \notin Owned \union {"IM"} => owner[a] = {}

EventInv == AcksLast /\ Unowned /\ \A c \in Caches, a \in Addr : PairInv(c, a)

\* A DMA request is with its controller, with the directory or answered, and
\* the controller waits for the answer.
Kinds == {"READ", "WRITE"}
Busy(k) == IF k = "READ" THEN "BUSY_RD" ELSE "BUSY_WR"
Answer(k) == IF k = "READ" THEN "DATA" ELSE "ACK"
ServingStates(k) == IF k = "READ" THEN {"ID", "M_DRD"}
                                  ELSE {"ID_W", "M_DWR", "M_DWRI"}
Requested(p, a, k) == \E m \in dmaReqNet :
                        m.type = k /\ m.addr = a /\ m.transfer.dma = p
Served(p, a, k) == /\ dstate[a] \in ServingStates(k)
                   /\ dtbe[a].dma = p
AnsweredTo(p, a, k) == \E m \in dmaRespNet :
                         m.type = Answer(k) /\ m.addr = a /\ m.dest = p

DmaTyped ==
  /\ dma \in [Dmas -> [Addr -> {"READY", "BUSY_RD", "BUSY_WR"}]]
  /\ dmaRespNet \subseteq DMAResponse
  /\ \A a \in Addr, k \in Kinds : dstate[a] \in ServingStates(k) => dtbe[a] \in Transfer

DmaOnce(p, a, k) ==
  /\ Requested(p, a, k) \/ Served(p, a, k) \/ AnsweredTo(p, a, k)
       => dma[p][a] = Busy(k)
  /\ Requested(p, a, k) => ~Served(p, a, k) /\ ~AnsweredTo(p, a, k)
  /\ Served(p, a, k) => ~AnsweredTo(p, a, k)

DmaInv ==
  /\ DmaTyped
  /\ \A p \in Dmas, a \in Addr, k \in Kinds : DmaOnce(p, a, k)
  /\ \A m, n \in dmaReqNet :
       m.addr = n.addr /\ m.transfer.dma = n.transfer.dma => m = n
  /\ \A m, n \in dmaRespNet : m.addr = n.addr /\ m.dest = n.dest => m = n

\* What a step may do to cache c and line a without more ado.
Kept(c, a) ==
  /\ st'[c][a] = st[c][a] \/ st'[c][a] \in {"I", "IS", "IM", "M"}
  /\ Returned(c, a)' => Returned(c, a)
  /\ Acked(c, a)' => Acked(c, a)
  /\ Nacked(c, a)' => Nacked(c, a)
  /\ Puts(c, a)' => Puts(c, a)
  /\ \A r \in Caches : Passes(c, r, a) => Passes(c, r, a)'
  /\ InLine(c, a) => InLine(c, a)'
  /\ Recalled(c, a)' => Recalled(c, a)
  /\ Reason(c, a) => Reason(c, a)'

\* What a step of a directory for line a does to the messages of the caches.
OnlyLine(a) ==
  /\ UNCHANGED st
  /\ \A b \in Addr : b # a => dstate'[b] = dstate[b] /\ owner'[b] = owner[b]
  /\ \A m : m.addr # a => /\ m \in memReq' <=> m \in memReq
                          /\ m \in responseFromMemory' <=> m \in responseFromMemory
  /\ reqNet' \subseteq reqNet
Undisturbed(e, b) ==
  /\ Acked(e, b)' <=> Acked(e, b)
  /\ Nacked(e, b)' => Nacked(e, b)
  /\ \A r \in Caches : Passes(e, r, b) => Passes(e, r, b)'
  /\ Recalled(e, b)' => Recalled(e, b)

(* Every step keeps what the controllers can meet.                         *)
LEMMA EventStep ==
  ControlInv /\ EventInv /\ [Next]_vars => EventInv'

(* Answers stay behind when a queue is popped: once one is at the head     *)
(* there is no INV for its line.                                           *)
<1>AckLastTail.
  ASSUME NEW S, NEW q \in Seq(S), q # <<>>, AckLast(q)
  PROVE  /\ AckLast(Tail(q))
         /\ Elements(Tail(q)) \subseteq Elements(q)
         /\ Head(q).type = "WB_ACK" =>
              \A x \in Elements(Tail(q)) : ~(x.type = "INV" /\ x.addr = Head(q).addr)
  <2> USE <1>AckLastTail
  <2>1. /\ Len(q) \in Nat \ {0} /\ DOMAIN q = 1..Len(q) /\ q[1] = Head(q)
        /\ DOMAIN Tail(q) = 1..(Len(q) - 1)
        /\ \A i \in 1..(Len(q) - 1) : Tail(q)[i] = q[i + 1]
    BY SMT
  <2> PICK n \in Nat \ {0} : n = Len(q)
    BY <2>1
  <2> PICK p : p = Tail(q)
    OBVIOUS
  <2> PICK h : h = Head(q)
    OBVIOUS
  <2>2. /\ DOMAIN q = 1..n /\ DOMAIN p = 1..(n - 1) /\ q[1] = h
        /\ \A i \in 1..(n - 1) : p[i] = q[i + 1]
    BY <2>1
  <2>3. \A i \in 1..(n - 1) : i + 1 \in 1..n /\ 1 \in 1..n /\ ~(i + 1 < 1)
    BY SMT
  <2>4. ASSUME NEW i \in 1..(n - 1), NEW j \in 1..(n - 1),
               p[i].type = "WB_ACK", p[j].type = "INV", p[i].addr = p[j].addr
        PROVE  j < i
    <3>1. j + 1 < i + 1
      BY <2>2, <2>3, <2>4 DEF AckLast
    <3> QED  BY <3>1, SMT
  <2>5. AckLast(p)
    BY <2>2, <2>4 DEF AckLast
  <2>6. Elements(p) = {q[i + 1] : i \in 1..(n - 1)} /\ Elements(q) = {q[i] : i \in 1..n}
    BY <2>2 DEF Elements
  <2>7. Elements(p) \subseteq Elements(q)
    BY <2>3, <2>6
  <2>8. ASSUME h.type = "WB_ACK", NEW i \in 1..(n - 1),
               q[i + 1].type = "INV", q[i + 1].addr = h.addr
        PROVE  FALSE
    BY <2>2, <2>3, <2>8 DEF AckLast
  <2>9. ASSUME h.type = "WB_ACK", NEW x \in Elements(p)
        PROVE  ~(x.type = "INV" /\ x.addr = h.addr)
    <3>1. PICK i \in 1..(n - 1) : x = q[i + 1]
      BY <2>6
    <3> QED  BY <2>8, <2>9, <3>1
  <2> QED  BY <2>5, <2>7, <2>9

(* ... and when a message is sent, if it is not an INV behind an answer.   *)
<1>AckLastAppend.
  ASSUME NEW S, NEW q \in Seq(S), NEW m \in S, AckLast(q),
         m.type = "INV" => \A x \in Elements(q) : ~(x.type = "WB_ACK" /\ x.addr = m.addr)
  PROVE  AckLast(Append(q, m))
  <2> USE <1>AckLastAppend
  <2>1. /\ Len(q) \in Nat /\ DOMAIN q = 1..Len(q)
        /\ DOMAIN Append(q, m) = 1..(Len(q) + 1)
        /\ \A i \in 1..Len(q) : Append(q, m)[i] = q[i]
        /\ Append(q, m)[Len(q) + 1] = m
    BY SMT
  <2> PICK n \in Nat : n = Len(q)
    BY <2>1
  <2> PICK p : p = Append(q, m)
    OBVIOUS
  <2>2. /\ DOMAIN q = 1..n /\ DOMAIN p = 1..(n + 1)
        /\ \A i \in 1..n : p[i] = q[i] /\ q[i] \in Elements(q)
        /\ p[n + 1] = m
    BY <2>1 DEF Elements
  <2>3. \A i \in 1..(n + 1) : i = n + 1 \/ (i \in 1..n /\ i < n + 1)
    BY SMT
  <2>4. ASSUME NEW i \in 1..(n + 1), NEW j \in 1..(n + 1),
               p[i].type = "WB_ACK", p[j].type = "INV", p[i].addr = p[j].addr
        PROVE  j < i
    <3>1. CASE j = n + 1
      <4>1. i # n + 1
        BY <2>2, <2>4, <3>1
      <4> QED  BY <2>2, <2>3, <2>4, <3>1, <4>1
    <3>2. CASE j # n + 1
      BY <2>2, <2>3, <2>4, <3>2 DEF AckLast
    <3> QED  BY <3>1, <3>2
  <2> QED  BY <2>2, <2>4 DEF AckLast

(* What is under way to the caches about INV once a cache has popped its   *)
(* head.                                                                   *)
<1>RecallPopped.
  ASSUME Typed, AcksLast, NEW c \in Caches, NEW d \in Dirs,
         NEW m, m = Head(fwdNet[d][c]), Forwarded(c, d), PopForward(c, d),
         Home[m.addr] = d
  PROVE  /\ AcksLast'
         /\ \A e \in Caches, b \in Addr : Recalled(e, b)' => Recalled(e, b)
         /\ m.type = "WB_ACK" => ~Recalled(c, m.addr)'
  <2> USE <1>RecallPopped
  <2> PICK q : q = fwdNet[d][c]
    BY SMT
  <2>1. q \in Seq(ForwardMsg) /\ q # <<>> /\ AckLast(q)
    BY ZenonT(60) DEF Typed, AcksLast, Forwarded
  <2>2. /\ AckLast(Tail(q)) /\ Elements(Tail(q)) \subseteq Elements(q)
        /\ Head(q).type = "WB_ACK" =>
             \A x \in Elements(Tail(q)) : ~(x.type = "INV" /\ x.addr = Head(q).addr)
    BY <2>1, <1>AckLastTail
  <2>3. /\ fwdNet'[d][c] = Tail(q)
        /\ \A g \in Dirs, e \in Caches :
             ~(g = d /\ e = c) => fwdNet'[g][e] = fwdNet[g][e]
    BY DEF Typed, PopForward
  <2>4. \A b \in Addr : Home[b] \in Dirs
    BY MIAssumption DEF MIAssumption
  <2>5. \A e \in Caches, b \in Addr : Fwd(e, b)' \subseteq Fwd(e, b)
    BY <2>2, <2>3, <2>4 DEF Fwd
  <2>6. AcksLast'
    BY <2>2, <2>3 DEF AcksLast
  <2>7. \A e \in Caches, b \in Addr : Recalled(e, b)' => Recalled(e, b)
    BY <2>5 DEF Recalled
  <2>8. m.type = "WB_ACK" => ~Recalled(c, m.addr)'
    <3>1. Fwd(c, m.addr)' = Elements(Tail(q))
      BY <2>3 DEF Fwd
    <3> QED  BY <2>2, <3>1 DEF Recalled
  <2> QED  BY <2>6, <2>7, <2>8

(* ... once a directory has sent a message ...                             *)
<1>RecallForwarded.
  ASSUME Typed, QueuesFormed, AcksLast,
         NEW a \in Addr, NEW dests, dests \subseteq Caches,
         NEW t, NEW r, Msg(t, a, r) \in ForwardMsg, Forward(a, dests, t, r),
         t = "INV" => \A e \in dests : ~Acked(e, a)
  PROVE  /\ AcksLast'
         /\ \A e \in Caches, b \in Addr :
              Recalled(e, b)' => Recalled(e, b) \/ (t = "INV" /\ e \in dests /\ b = a)
  <2> USE <1>RecallForwarded
  <2> PICK d : d = Home[a]
    BY SMT
  <2> PICK m : m = Msg(t, a, r)
    BY SMT
  <2>1. m \in ForwardMsg /\ m.addr = a /\ m.type = t
    BY DEF Msg
  <2>2. d \in Dirs /\ \A b \in Addr : Home[b] \in Dirs
    BY MIAssumption DEF MIAssumption
  <2>3. \A e \in Caches : fwdNet[d][e] \in Seq(ForwardMsg) /\ AckLast(fwdNet[d][e])
    BY <2>2, ZenonT(30) DEF Typed, AcksLast
  <2>4. /\ \A e \in dests : fwdNet'[d][e] = Append(fwdNet[d][e], m)
        /\ \A e \in Caches \ dests : fwdNet'[d][e] = fwdNet[d][e]
        /\ \A g \in Dirs \ {d} : fwdNet'[g] = fwdNet[g]
    BY <2>2 DEF Forward, Typed, Msg
  <2>5. ASSUME NEW e \in dests
        PROVE  AckLast(fwdNet'[d][e])
    <3>1. t = "INV" => \A x \in Elements(fwdNet[d][e]) :
                         ~(x.type = "WB_ACK" /\ x.addr = a)
      <4> SUFFICES ASSUME t = "INV", NEW x \in Elements(fwdNet[d][e]),
                          x.type = "WB_ACK", x.addr = a
                   PROVE  FALSE
        BY SMT
      <4>1. x \in ForwardMsg
        BY <2>3, SMT DEF Elements
      <4>2. x.requestor = e
        BY <2>2, SMT DEF QueuesFormed
      <4>3. x = Ack(a, e)
        BY <4>1, <4>2, ForwardFields
      <4> QED  BY <4>3 DEF Acked, Fwd
    <3>2. fwdNet[d][e] \in Seq(ForwardMsg) /\ AckLast(fwdNet[d][e])
      BY <2>3
    <3>3. AckLast(Append(fwdNet[d][e], m))
      BY <2>1, <3>1, <3>2, <1>AckLastAppend
    <3> QED  BY <2>4, <3>3
  <2>6. AcksLast'
    <3> SUFFICES ASSUME NEW g \in Dirs, NEW e \in Caches
                 PROVE  AckLast(fwdNet'[g][e])
      BY DEF AcksLast
    <3>1. CASE g = d /\ e \in dests
      BY <2>5, <3>1
    <3>2. CASE ~(g = d /\ e \in dests)
      BY <2>4, <3>2 DEF AcksLast
    <3> QED  BY <3>1, <3>2
  <2>7. ASSUME NEW e \in Caches, NEW b \in Addr, Recalled(e, b)'
        PROVE  Recalled(e, b) \/ (t = "INV" /\ e \in dests /\ b = a)
    <3>1. CASE Home[b] = d /\ e \in dests
      <4>1. Elements(Append(fwdNet[d][e], m)) = Elements(fwdNet[d][e]) \union {m}
        BY <2>1, <2>3, QueueAppend, SMT
      <4>2. Fwd(e, b)' = Fwd(e, b) \union {m}
        BY <2>4, <3>1, <4>1 DEF Fwd
      <4>3. PICK x \in Fwd(e, b)' : x.type = "INV" /\ x.addr = b
        BY <2>7 DEF Recalled
      <4>4. CASE x = m
        BY <2>1, <3>1, <4>3, <4>4
      <4>5. CASE x # m
        <5>1. x \in Fwd(e, b)
          BY <4>2, <4>5, SMT
        <5> QED  BY <4>3, <5>1 DEF Recalled
      <4> QED  BY <4>4, <4>5
    <3>2. CASE ~(Home[b] = d /\ e \in dests)
      <4>1. Fwd(e, b)' = Fwd(e, b)
        BY <2>2, <2>4, <3>2 DEF Fwd
      <4> QED  BY <2>7, <4>1 DEF Recalled
    <3> QED  BY <3>1, <3>2
  <2> QED  BY <2>6, <2>7

(* ... other than an INV ...                                               *)
<1>OtherForwarded.
  ASSUME Typed, QueuesFormed, AcksLast,
         NEW a \in Addr, NEW dests, dests \subseteq Caches,
         NEW t, NEW r, Msg(t, a, r) \in ForwardMsg, Forward(a, dests, t, r),
         t # "INV"
  PROVE  /\ ForwardedTo(dests, Msg(t, a, r))
         /\ AcksLast'
         /\ \A e \in Caches, b \in Addr : Recalled(e, b)' => Recalled(e, b)
  <2> USE <1>OtherForwarded
  <2>1. ForwardedTo(dests, Msg(t, a, r))
    BY ForwardArrives
  <2>2. /\ AcksLast'
        /\ \A e \in Caches, b \in Addr :
             Recalled(e, b)' => Recalled(e, b) \/ (t = "INV" /\ e \in dests /\ b = a)
    BY <1>RecallForwarded
  <2> QED  BY <2>1, <2>2

(* ... and when nothing is sent or popped.                                 *)
<1>RecallSame.
  ASSUME AcksLast, UNCHANGED fwdNet
  PROVE  /\ AcksLast'
         /\ \A e \in Caches, b \in Addr : Recalled(e, b)' => Recalled(e, b)
    BY <1>RecallSame DEF AcksLast, Recalled, Fwd

(* It then keeps what holds of them.                                       *)
<1>PairKept.
  ASSUME NEW c \in Caches, NEW a \in Addr, PairInv(c, a), Kept(c, a)
  PROVE  PairInv(c, a)'
  <2> USE <1>PairKept
  <2>1. st'[c][a] \in {"II", "MI", "MII"} => st'[c][a] = st[c][a]
    BY DEF Kept
  <2> QED  BY <2>1 DEF Kept, PairInv

(* What a step has to keep.                                                *)
<1>EventsKept.
  ASSUME EventInv, AcksLast', Unowned',
         \A c \in Caches, a \in Addr : Kept(c, a) \/ PairInv(c, a)'
  PROVE  EventInv'
    BY <1>EventsKept, <1>PairKept DEF EventInv

(* A step of a cache leaves the directories as they are.                   *)
<1>DirectoryKept.
  ASSUME UNCHANGED <<dstate, owner, memReq, responseFromMemory>>
  PROVE  /\ Unowned => Unowned'
         /\ \A e \in Caches, b \in Addr :
              /\ Returned(e, b)' <=> Returned(e, b)
              /\ Recalling(e, b)' <=> Recalling(e, b)
              /\ Owns(e, b)' <=> Owns(e, b)
    BY <1>DirectoryKept DEF Unowned, Returned, Recalling, Owns

(* The caches and lines it does not concern are kept.                      *)
<1>CacheKept.
  ASSUME UNCHANGED <<dstate, owner, memReq, responseFromMemory>>,
         NEW e \in Caches, NEW b \in Addr,
         st'[e][b] = st[e][b] \/ st'[e][b] \in {"I", "IS", "IM", "M"},
         Acked(e, b)' <=> Acked(e, b), Nacked(e, b)' => Nacked(e, b),
         Puts(e, b)' => Puts(e, b),
         \A r \in Caches : Passes(e, r, b) => Passes(e, r, b)',
         Recalled(e, b)' => Recalled(e, b)
  PROVE  Kept(e, b)
  <2> USE <1>CacheKept
  <2>1. /\ Returned(e, b)' <=> Returned(e, b)
        /\ Recalling(e, b)' <=> Recalling(e, b)
        /\ Owns(e, b)' <=> Owns(e, b)
    BY <1>DirectoryKept
  <2>2. InLine(e, b) => InLine(e, b)'
    BY <2>1 DEF InLine
  <2>3. Reason(e, b) => Reason(e, b)'
    BY <2>1 DEF Reason
  <2> QED  BY <2>1, <2>2, <2>3 DEF Kept

(* A step that leaves the networks alone, and each cache where it is or    *)
(* with nothing to write back.                                             *)
<1>QuietEvents.
  ASSUME EventInv, UNCHANGED <<dstate, owner, memReq, responseFromMemory, fwdNet>>,
         \A e \in Caches, b \in Addr :
           /\ st'[e][b] = st[e][b] \/ st'[e][b] \in {"I", "IS", "IM", "M"}
           /\ Puts(e, b)' => Puts(e, b)
  PROVE  EventInv'
  <2> USE <1>QuietEvents
  <2>1. AcksLast /\ Unowned
    BY DEF EventInv
  <2>2. AcksLast' /\ \A e \in Caches, b \in Addr : Recalled(e, b)' => Recalled(e, b)
    BY <2>1, <1>RecallSame
  <2>3. \A e, r \in Caches, b \in Addr :
          /\ Passes(e, r, b)' <=> Passes(e, r, b)
          /\ Acked(e, b)' <=> Acked(e, b)
          /\ Nacked(e, b)' <=> Nacked(e, b)
    BY NoMessages
  <2>4. \A e \in Caches, b \in Addr : Kept(e, b)
    BY <2>2, <2>3, <1>CacheKept
  <2>5. Unowned'
    BY <2>1, <1>DirectoryKept
  <2> QED  BY <2>2, <2>4, <2>5, <1>EventsKept

(* A cache asks for a line.                                                *)
<1>MissEvents.
  ASSUME ControlInv, EventInv, NEW c \in Caches, NEW a \in Addr,
         NEW s \in Awaiting, MissEffect(c, a, s)
  PROVE  EventInv'
  <2> USE <1>MissEvents
  <2>1. UNCHANGED <<dstate, owner, memReq, responseFromMemory, fwdNet>>
    BY DEF MissEffect, dirVars, memVars
  <2>2. \A e \in Caches, b \in Addr :
          st'[e][b] = st[e][b] \/ st'[e][b] \in {"I", "IS", "IM", "M"}
    BY DEF MissEffect, ControlInv, Typed, Awaiting
  <2>3. \A m \in reqNet' : m.type = "PUTX" => m \in reqNet
    BY SMT DEF MissEffect
  <2>4. \A e \in Caches, b \in Addr : Puts(e, b)' => Puts(e, b)
    BY <2>3 DEF Puts
  <2> QED  BY <2>1, <2>2, <2>4, <1>QuietEvents

(* A cache that has the line gives it back.                                *)
<1>PutEvents.
  ASSUME ControlInv, EventInv, NEW c \in Caches, NEW a \in Addr,
         st[c][a] = "M", IssuePUT(c, a),
         UNCHANGED <<dirVars, memVars, fwdNet>>
  PROVE  EventInv'
  <2> USE <1>PutEvents
  <2>1. Typed /\ LineInv(a) /\ PutInv(a) /\ AcksLast /\ Unowned /\ PairInv(c, a)
    BY DEF ControlInv, AllInv, EventInv
  <2>2. UNCHANGED <<dstate, owner, memReq, responseFromMemory, fwdNet>>
    BY DEF dirVars, memVars
  <2>3. \A e \in Caches, b \in Addr :
          st'[e][b] = IF e = c /\ b = a THEN "MI" ELSE st[e][b]
    BY <2>1 DEF IssuePUT, Typed
  <2>4. AcksLast' /\ \A e \in Caches, b \in Addr : Recalled(e, b)' => Recalled(e, b)
    BY <2>1, <2>2, <1>RecallSame
  <2>5. \A e, r \in Caches, b \in Addr :
          /\ Passes(e, r, b)' <=> Passes(e, r, b)
          /\ Acked(e, b)' <=> Acked(e, b)
          /\ Nacked(e, b)' <=> Nacked(e, b)
    BY <2>2, NoMessages
  <2>6. \A m \in reqNet' : m.type = "PUTX" /\ ~(m.requestor = c /\ m.addr = a)
                             => m \in reqNet
    BY SMT DEF IssuePUT
  <2>7. \A e \in Caches, b \in Addr :
          ~(e = c /\ b = a) => (Puts(e, b)' => Puts(e, b))
    BY <2>6 DEF Puts
  <2>8. \A e \in Caches, b \in Addr : ~(e = c /\ b = a) => Kept(e, b)
    BY <2>2, <2>3, <2>4, <2>5, <2>7, <1>CacheKept
  <2>9. PairInv(c, a)'
    <3>1. InLine(c, a)'
      BY <2>1, <2>2, NoMessages DEF LineInv, Front
    <3>2. ~Nacked(c, a)'
      BY <2>1, <2>5 DEF PutInv
    <3>3. Recalled(c, a)' => Reason(c, a)'
      BY <2>1, <2>2, <2>4, <2>5, <1>DirectoryKept DEF PairInv, Reason
    <3>4. st'[c][a] = "MI"
      BY <2>3
    <3> QED  BY <3>1, <3>2, <3>3, <3>4 DEF PairInv
  <2>10. Unowned'
    BY <2>1, <2>2, <1>DirectoryKept
  <2> QED  BY <2>4, <2>8, <2>9, <2>10, <1>EventsKept

(* The message a cache pops, and what is left.                             *)
<1>PopParts.
  ASSUME Typed, QueuesFormed, NEW c \in Caches, NEW d \in Dirs,
         NEW m, m = Head(fwdNet[d][c]), Forwarded(c, d), PopForward(c, d)
  PROVE  Home[m.addr] = d /\ PoppedBy(c, m) /\ m \in Fwd(c, m.addr)
    BY <1>PopParts, PopEffect, ZenonT(60)

(* A cache hands its line on: nothing of a writeback has been carried out. *)
<1>FwdGETXEvents.
  ASSUME ControlInv, EventInv, NEW c \in Caches, NEW d \in Dirs, FwdGETX(c, d),
         NEW a \in Addr, NEW r \in Caches, Head(fwdNet[d][c]) = Getx(a, r)
  PROVE  EventInv'
  <2> USE <1>FwdGETXEvents
  <2> PICK m : m = Head(fwdNet[d][c])
    OBVIOUS
  <2>1. /\ Typed /\ QueuesFormed /\ LineInv(a) /\ PutInv(a)
        /\ AcksLast /\ Unowned /\ PairInv(c, a)
    BY DEF ControlInv, AllInv, EventInv
  <2>2. m.addr = a /\ m.requestor = r /\ m = Getx(a, r)
    BY MessagesDiffer, SMT
  <2>3. /\ Forwarded(c, d) /\ PopForward(c, d)
        /\ st[c][a] \in {"M", "MI", "MII"}
        /\ st' = [st EXCEPT ![c][a] = IF st[c][a] = "MI" THEN "II" ELSE "I"]
        /\ UNCHANGED <<dstate, owner, memReq, responseFromMemory, reqNet>>
    BY <2>2 DEF FwdGETX, dirVars, memVars
  <2>4. Home[m.addr] = d /\ PoppedBy(c, m) /\ m \in Fwd(c, m.addr)
    BY <2>1, <2>3, <1>PopParts
  <2>5. AcksLast' /\ \A e \in Caches, b \in Addr : Recalled(e, b)' => Recalled(e, b)
    BY <2>1, <2>3, <2>4, <1>RecallPopped
  <2>6. \A e, q \in Caches, b \in Addr :
          /\ Passes(e, q, b)' <=> (Passes(e, q, b) /\ ~(e = c /\ b = a /\ q = r))
          /\ Acked(e, b)' <=> Acked(e, b)
          /\ Nacked(e, b)' <=> Nacked(e, b)
          /\ Puts(e, b)' <=> Puts(e, b)
    <3>1. \A e, q \in Caches, b \in Addr :
            /\ m = Getx(b, q) <=> (b = a /\ q = r)
            /\ m # Ack(b, e) /\ m # Nack(b, e)
      BY <2>2, MessagesDiffer, SMT
    <3> QED  BY <2>3, <2>4, <3>1, ZenonT(60) DEF PoppedBy, Puts
  <2>7. \A e \in Caches, b \in Addr : ~(e = c /\ b = a) => st'[e][b] = st[e][b]
    BY <2>1, <2>3 DEF Typed
  <2>8. \A e \in Caches, b \in Addr : ~(e = c /\ b = a) => Kept(e, b)
    BY <2>3, <2>5, <2>6, <2>7, <1>CacheKept
  <2>9. PairInv(c, a)'
    <3>1. Passes(c, r, a) /\ InLine(c, a)
      BY <2>2, <2>4 DEF Passes, InLine
    <3>2. ~Acked(c, a)
      BY <2>1, <3>1 DEF PutInv
    <3>3. ~Preceded(c, a)
      BY <2>1, <2>3 DEF LineInv, Awaiting
    <3>4. dstate[a] \in Owned
      BY <2>1, <3>1, <3>3 DEF LineInv, Front
    <3>5. ~Returned(c, a)
      BY <3>4 DEF Returned, Owned, Returning
    <3>6. ~Returned(c, a)' /\ ~Acked(c, a)'
      BY <2>3, <2>6, <3>2, <3>5, <1>DirectoryKept
    <3>7. st'[c][a] \in {"I", "II"}
      BY <2>1, <2>3 DEF Typed
    <3>8. Recalled(c, a)' => Reason(c, a)'
      BY <2>1, <2>3, <2>5, <2>6, <1>DirectoryKept DEF PairInv, Reason
    <3> QED  BY <3>6, <3>7, <3>8 DEF PairInv
  <2>10. Unowned'
    BY <2>1, <2>3, <1>DirectoryKept
  <2> QED  BY <2>5, <2>8, <2>9, <2>10, <1>EventsKept

(* A cache drops an INV.                                                   *)
<1>InvEvents.
  ASSUME ControlInv, EventInv, NEW c \in Caches, NEW d \in Dirs,
         Forwarded(c, d), PopForward(c, d), Head(fwdNet[d][c]).type = "INV",
         UNCHANGED <<st, dstate, owner, memReq, responseFromMemory, reqNet>>
  PROVE  EventInv'
  <2> USE <1>InvEvents
  <2> PICK m : m = Head(fwdNet[d][c])
    OBVIOUS
  <2>1. Typed /\ QueuesFormed /\ AcksLast /\ Unowned
    BY DEF ControlInv, EventInv
  <2>2. Home[m.addr] = d /\ PoppedBy(c, m)
    BY <2>1, <1>PopParts
  <2>3. AcksLast' /\ \A e \in Caches, b \in Addr : Recalled(e, b)' => Recalled(e, b)
    BY <2>1, <2>2, <1>RecallPopped
  <2>4. \A e, q \in Caches, b \in Addr :
          m # Getx(b, q) /\ m # Ack(b, e) /\ m # Nack(b, e)
    BY MessagesDiffer, SMT
  <2>5. \A e, q \in Caches, b \in Addr :
          /\ Passes(e, q, b)' <=> Passes(e, q, b)
          /\ Acked(e, b)' <=> Acked(e, b)
          /\ Nacked(e, b)' <=> Nacked(e, b)
          /\ Puts(e, b)' <=> Puts(e, b)
    BY <2>2, <2>4 DEF PoppedBy, Puts
  <2>6. \A e \in Caches, b \in Addr : Kept(e, b)
    BY <2>3, <2>5, <1>CacheKept
  <2>7. Unowned'
    BY <2>1, <1>DirectoryKept
  <2> QED  BY <2>3, <2>6, <2>7, <1>EventsKept

(* A cache learns what became of its writeback.                            *)
<1>AnswerEvents.
  ASSUME ControlInv, EventInv, NEW c \in Caches, NEW d \in Dirs, NEW a \in Addr,
         NEW m, NEW s \in {"I", "MII"}, AnswerEffect(c, d, a, m, s),
         s = "MII" => m = Nack(a, c) /\ st[c][a] = "MI"
  PROVE  EventInv'
  <2> USE <1>AnswerEvents
  <2>1. Typed /\ QueuesFormed /\ PutInv(a) /\ AcksLast /\ Unowned /\ PairInv(c, a)
    BY DEF ControlInv, AllInv, EventInv
  <2>2. /\ m = Head(fwdNet[d][c]) /\ Forwarded(c, d) /\ PopForward(c, d)
        /\ m = Ack(a, c) \/ m = Nack(a, c)
        /\ st' = [st EXCEPT ![c][a] = s]
        /\ UNCHANGED <<dstate, owner, memReq, responseFromMemory, reqNet>>
    BY DEF AnswerEffect, dirVars, memVars
  <2>3. Home[m.addr] = d /\ PoppedBy(c, m) /\ m \in Fwd(c, m.addr)
    BY <2>1, <2>2, <1>PopParts
  <2>4. m.addr = a /\ (m = Ack(a, c) => m.type = "WB_ACK")
    BY <2>2, MessagesDiffer, SMT
  <2>5. /\ AcksLast' /\ \A e \in Caches, b \in Addr : Recalled(e, b)' => Recalled(e, b)
        /\ m = Ack(a, c) => ~Recalled(c, a)'
    BY <2>1, <2>2, <2>3, <2>4, <1>RecallPopped
  <2>6. \A e, q \in Caches, b \in Addr :
          /\ Passes(e, q, b)' <=> Passes(e, q, b)
          /\ Acked(e, b)' => Acked(e, b)
          /\ Nacked(e, b)' => Nacked(e, b)
          /\ ~(e = c /\ b = a) => (Acked(e, b)' <=> Acked(e, b))
          /\ m = Nack(a, c) => (Acked(e, b)' <=> Acked(e, b))
          /\ Puts(e, b)' <=> Puts(e, b)
    <3>1. \A e, q \in Caches, b \in Addr :
            /\ m # Getx(b, q)
            /\ m = Ack(b, e) => b = a /\ e = c
            /\ m = Nack(a, c) => m # Ack(b, e)
      BY <2>2, MessagesDiffer, SMT
    <3> QED  BY <2>2, <2>3, <3>1 DEF PoppedBy, Puts
  <2>7. \A e \in Caches, b \in Addr :
          st'[e][b] = IF e = c /\ b = a THEN s ELSE st[e][b]
    BY <2>1, <2>2 DEF Typed
  <2>8. \A e \in Caches, b \in Addr : ~(e = c /\ b = a) => Kept(e, b)
    BY <2>2, <2>5, <2>6, <2>7, <1>CacheKept, ZenonT(60)
  <2>9. PairInv(c, a)'
    <3>1. st'[c][a] = s
      BY <2>7
    <3>2. s = "MII" => \E r \in Caches : Passes(c, r, a)'
      <4> SUFFICES ASSUME s = "MII" PROVE \E r \in Caches : Passes(c, r, a)'
        OBVIOUS
      <4>1. Nacked(c, a)
        BY <2>3, <2>4 DEF Nacked
      <4>2. \E r \in Caches : Passes(c, r, a)
        BY <2>1, <4>1 DEF PairInv
      <4> QED  BY <2>6, <4>2
    <3>3. Recalled(c, a)' => Reason(c, a)'
      BY <2>1, <2>2, <2>5, <2>6, <1>DirectoryKept DEF PairInv, Reason
    <3> QED  BY <3>1, <3>2, <3>3 DEF PairInv
  <2>10. Unowned'
    BY <2>1, <2>2, <1>DirectoryKept
  <2> QED  BY <2>5, <2>8, <2>9, <2>10, <1>EventsKept

(* Data reaches the cache that waits for it.                               *)
<1>CacheDataEvents.
  ASSUME ControlInv, EventInv, NEW c \in Caches, NEW m \in dataNet,
         NEW w \in 1..LineWords, NEW v \in Values, CacheData(c, m, w, v)
  PROVE  EventInv'
  <2> USE <1>CacheDataEvents
  <2>1. /\ st' = [st EXCEPT ![c][m.addr] = "M"]
        /\ UNCHANGED <<dstate, owner, memReq, responseFromMemory, reqNet, fwdNet>>
    BY DEF CacheData, dirVars, memVars, fwdVars
  <2>2. \A e \in Caches, b \in Addr :
          st'[e][b] = st[e][b] \/ st'[e][b] \in {"I", "IS", "IM", "M"}
    BY <2>1 DEF ControlInv, Typed
  <2>3. \A e \in Caches, b \in Addr : Puts(e, b)' => Puts(e, b)
    BY <2>1 DEF Puts
  <2> QED  BY <2>1, <2>2, <2>3, <1>QuietEvents

(* The other lines keep what holds of them.                                *)
<1>OtherLine.
  ASSUME NEW a \in Addr, OnlyLine(a), NEW e \in Caches, NEW b \in Addr, b # a,
         Undisturbed(e, b)
  PROVE  Kept(e, b)
  <2> USE <1>OtherLine
  <2>1. /\ Returned(e, b)' <=> Returned(e, b)
        /\ Recalling(e, b)' <=> Recalling(e, b)
        /\ Owns(e, b)' <=> Owns(e, b)
    <3>1. dstate'[b] = dstate[b] /\ owner'[b] = owner[b]
      BY DEF OnlyLine
    <3>2. (\E m \in memReq' \union responseFromMemory' : m.addr = b /\ m.requestor = e)
            <=> (\E m \in memReq \union responseFromMemory : m.addr = b /\ m.requestor = e)
      BY DEF OnlyLine
    <3> QED  BY <3>1, <3>2 DEF Returned, Recalling, Owns
  <2>2. Puts(e, b)' => Puts(e, b)
    BY DEF OnlyLine, Puts
  <2>3. InLine(e, b) => InLine(e, b)'
    BY <2>1 DEF Undisturbed, InLine
  <2>4. Reason(e, b) => Reason(e, b)'
    BY <2>1 DEF Undisturbed, Reason
  <2> QED  BY <2>1, <2>2, <2>3, <2>4 DEF Kept, OnlyLine, Undisturbed

(* So does the line itself, if no writeback is due or under way and whoever *)
(* owned the line still stands in line.                                    *)
<1>SettledLine.
  ASSUME NEW a \in Addr, OnlyLine(a), NEW e \in Caches, Undisturbed(e, a),
         {dstate[a], dstate'[a]} \cap (Returning \union {"M_DRD", "M_DWR"}) = {},
         Owns(e, a) => InLine(e, a)'
  PROVE  Kept(e, a)
  <2> USE <1>SettledLine
  <2>1. ~Returned(e, a) /\ ~Returned(e, a)' /\ ~Recalling(e, a)
    BY DEF Returned, Recalling
  <2>2. Puts(e, a)' => Puts(e, a)
    BY DEF OnlyLine, Puts
  <2>3. InLine(e, a) => InLine(e, a)'
    BY DEF Undisturbed, InLine
  <2>4. Reason(e, a) => Reason(e, a)'
    BY <2>1 DEF Undisturbed, Reason
  <2> QED  BY <2>1, <2>2, <2>3, <2>4 DEF Kept, OnlyLine, Undisturbed

(* A step of a directory that concerns no writeback.                       *)
<1>SettledEvents.
  ASSUME EventInv, NEW a \in Addr, OnlyLine(a), AcksLast',
         {dstate[a], dstate'[a]} \cap (Returning \union {"M_DRD", "M_DWR"}) = {},
         \A e \in Caches : Owns(e, a) => InLine(e, a)',
         \A e \in Caches, b \in Addr : Undisturbed(e, b),
         dstate'[a] \notin Owned \union {"IM"} => owner'[a] = {}
  PROVE  EventInv'
  <2> USE <1>SettledEvents
  <2>1. \A e \in Caches, b \in Addr : b # a => Kept(e, b)
    BY <1>OtherLine
  <2>2. \A e \in Caches : Kept(e, a)
    BY <1>SettledLine
  <2>3. Unowned'
    BY DEF Unowned, EventInv, OnlyLine
  <2> QED  BY <2>1, <2>2, <2>3, <1>EventsKept

(* Nothing is sent.                                                        *)
<1>NothingSent.
  ASSUME EventInv, UNCHANGED fwdNet
  PROVE  AcksLast' /\ \A e \in Caches, b \in Addr : Undisturbed(e, b)
  <2> USE <1>NothingSent
  <2>1. AcksLast' /\ \A e \in Caches, b \in Addr : Recalled(e, b)' => Recalled(e, b)
    BY <1>RecallSame DEF EventInv
  <2> QED  BY <2>1, NoMessages DEF Undisturbed

(* A request for a line.                                                   *)
<1>DirGETXEvents.
  ASSUME ControlInv, EventInv, NEW m \in reqNet, DirGETX(m)
  PROVE  EventInv'
  <2> USE <1>DirGETXEvents
  <2>1. Typed /\ QueuesFormed /\ AcksLast /\ m.type = "GETX"
    BY DEF ControlInv, EventInv, DirGETX
  <2>2. m.addr \in Addr /\ m.requestor \in Caches
    BY <2>1, RequestFields DEF Typed
  <2> PICK a \in Addr, r \in Caches : a = m.addr /\ r = m.requestor
    BY <2>2
  <2>3. /\ UNCHANGED <<st, responseFromMemory>> /\ reqNet' \subseteq reqNet
        /\ owner' = [owner EXCEPT ![a] = {r}]
    BY DEF DirGETX, l1Vars
  <2>4. \A b \in Addr : b # a => owner'[b] = owner[b]
    BY <2>1, <2>3 DEF Typed
  <2>5. CASE dstate[a] = "I"
    <3>1. /\ dstate' = [dstate EXCEPT ![a] = "IM"] /\ UNCHANGED fwdNet
          /\ memReq' = memReq \union {[type |-> "READ", addr |-> a, requestor |-> r]}
      BY <2>5 DEF DirGETX
    <3>2. dstate'[a] = "IM" /\ \A b \in Addr : b # a => dstate'[b] = dstate[b]
      BY <2>1, <3>1 DEF Typed
    <3>3. \A n : n.addr # a => (n \in memReq' <=> n \in memReq)
      BY <3>1, SMT
    <3>4. OnlyLine(a)
      BY <2>3, <2>4, <3>2, <3>3 DEF OnlyLine
    <3>5. \A e \in Caches : ~Owns(e, a)
      BY <2>5 DEF Owns, Owned
    <3>6. {dstate[a], dstate'[a]} \cap (Returning \union {"M_DRD", "M_DWR"}) = {}
      BY <2>5, <3>2, SMT DEF Returning
    <3> QED  BY <3>1, <3>2, <3>4, <3>5, <3>6, <1>NothingSent, <1>SettledEvents
  <2>6. CASE dstate[a] # "I"
    <3>1. /\ dstate[a] = "M" /\ Forward(a, owner[a], "GETX", r)
          /\ UNCHANGED <<dstate, memReq>>
      BY <2>6 DEF DirGETX
    <3>2. OnlyLine(a)
      BY <2>3, <2>4, <3>1 DEF OnlyLine
    <3> PICK dests : dests = owner[a]
      OBVIOUS
    <3>3. dests \subseteq Caches /\ Forward(a, dests, "GETX", r)
      BY <2>1, <3>1 DEF Typed
    <3>4. Getx(a, r) = Msg("GETX", a, r) /\ Getx(a, r) \in ForwardMsg
      BY DEF Getx, Msg, ForwardMsg
    <3>5. ForwardedTo(dests, Getx(a, r))
      BY <2>1, <3>3, <3>4, ForwardArrives
    <3>6. AcksLast' /\ \A e \in Caches, b \in Addr : Recalled(e, b)' => Recalled(e, b)
      BY <2>1, <3>3, <3>4, <1>RecallForwarded, ZenonT(60)
    <3>7. \A e \in Caches, b \in Addr : Undisturbed(e, b)
      <4>1. \A e \in Caches, b \in Addr : Getx(a, r) # Ack(b, e) /\ Getx(a, r) # Nack(b, e)
        BY MessagesDiffer, SMT
      <4> QED  BY <3>5, <3>6, <4>1, ZenonT(60) DEF ForwardedTo, Undisturbed
    <3>8. \A e \in Caches : Owns(e, a) => InLine(e, a)'
      BY <3>5 DEF Owns, ForwardedTo, InLine
    <3>9. {dstate[a], dstate'[a]} \cap (Returning \union {"M_DRD", "M_DWR"}) = {}
      BY <3>1, SMT DEF Returning
    <3>10. dstate'[a] \in Owned
      BY <3>1 DEF Owned
    <3> QED  BY <3>2, <3>6, <3>7, <3>8, <3>9, <3>10, <1>SettledEvents
  <2> QED  BY <2>5, <2>6

(* The owner's writeback: its cache still has the line.                    *)
<1>DirPUTXEvents.
  ASSUME ControlInv, EventInv, NEW m \in reqNet, DirPUTX(m)
  PROVE  EventInv'
  <2> USE <1>DirPUTXEvents
  <2>1. Typed /\ m.type = "PUTX" /\ m.requestor \in owner[m.addr]
    BY DEF ControlInv, DirPUTX, IsOwner
  <2>2. m.addr \in Addr /\ m.requestor \in Caches
    BY <2>1, RequestFields DEF Typed
  <2> PICK a \in Addr, r \in Caches : a = m.addr /\ r = m.requestor
    BY <2>2
  <2>3. /\ LineInv(a) /\ PutInv(a) /\ AskInv(a) /\ MemoryInv(a) /\ Puts(r, a)
        /\ dstate[a] \in Owned /\ \A e \in Caches : PairInv(e, a)
    BY <2>1 DEF ControlInv, EventInv, AllInv, Puts, DirPUTX, Owned
  <2>4. owner[a] = {r} /\ Owns(r, a) /\ InLine(r, a)
    <3>1. PICK q \in Caches : owner[a] = {q}
      BY <2>3 DEF AskInv
    <3>2. r \in owner[a]
      BY <2>1
    <3> QED  BY <2>3, <3>1, <3>2 DEF Owns, InLine
  <2>5. /\ UNCHANGED <<st, responseFromMemory, fwdNet>>
        /\ owner' = [owner EXCEPT ![a] = {}] /\ reqNet' = reqNet \ {m}
    BY DEF DirPUTX, l1Vars, fwdVars
  <2>6. /\ dstate'[a] \in Returning /\ owner'[a] = {}
        /\ \A b \in Addr : b # a => dstate'[b] = dstate[b] /\ owner'[b] = owner[b]
    BY <2>1, <2>5 DEF DirPUTX, Typed, Returning
  <2>7. \E n : memReq' = memReq \union {n} /\ n.addr = a /\ n.requestor = r
    <3>1. CASE dstate[a] = "M_DWR"
      <4> PICK n : n = [type |-> "PARTIAL", addr |-> a, requestor |-> r,
                        transfer |-> dtbe[a]]
        OBVIOUS
      <4>1. n.addr = a /\ n.requestor = r
        OBVIOUS
      <4>2. memReq' = memReq \union {n}
        BY <3>1 DEF DirPUTX
      <4> QED  BY <4>1, <4>2
    <3>2. CASE dstate[a] # "M_DWR"
      <4> PICK n : n = [type |-> "WRITE", addr |-> a, requestor |-> r, data |-> m.data]
        OBVIOUS
      <4>1. n.addr = a /\ n.requestor = r
        OBVIOUS
      <4>2. memReq' = memReq \union {n}
        BY <3>2 DEF DirPUTX
      <4> QED  BY <4>1, <4>2
    <3> QED  BY <3>1, <3>2
  <2>8. PICK n : memReq' = memReq \union {n} /\ n.addr = a /\ n.requestor = r
    BY <2>7
  <2>9. OnlyLine(a)
    <3>1. \A x : x.addr # a => (x \in memReq' <=> x \in memReq)
      BY <2>8
    <3> QED  BY <2>5, <2>6, <3>1 DEF OnlyLine
  <2>10. AcksLast' /\ \A e \in Caches, b \in Addr : Undisturbed(e, b)
    BY <2>5, <1>NothingSent
  <2>11. \A e \in Caches : Returned(e, a)' <=> e = r
    <3>1. \A x \in memReq \union responseFromMemory : x.addr # a
      BY <2>3, NothingPending DEF Owned, Returning
    <3> QED  BY <2>5, <2>6, <2>8, <3>1 DEF Returned
  <2>12. \A e \in Caches : ~Returned(e, a) /\ (e # r => ~Recalling(e, a) /\ ~Owns(e, a))
    BY <2>3, <2>4 DEF Returned, Recalling, Owns, Owned, Returning
  <2>13. \A e \in Caches : Puts(e, a)' => Puts(e, a) /\ e # r
    BY <2>1, <2>3, <2>5 DEF Puts, PutInv
  <2>14. ASSUME NEW e \in Caches, e # r PROVE Kept(e, a)
    <3>1. InLine(e, a) => InLine(e, a)'
      BY <2>10, <2>12, <2>14 DEF InLine, Undisturbed
    <3>2. Reason(e, a) => Reason(e, a)'
      BY <2>10, <2>12, <2>14 DEF Reason, Undisturbed
    <3> QED
      BY <2>5, <2>10, <2>11, <2>13, <2>14, <3>1, <3>2 DEF Kept, Undisturbed
  <2>15. PairInv(r, a)'
    <3>1. st'[r][a] = "MI"
      BY <2>3, <2>4, <2>5 DEF PutInv, LineInv
    <3>2. ~Nacked(r, a)'
      BY <2>3, <2>10 DEF PutInv, Undisturbed
    <3>3. Reason(r, a)'
      BY <2>11 DEF Reason
    <3> QED  BY <2>13, <3>1, <3>2, <3>3 DEF PairInv
  <2>16. \A e \in Caches, b \in Addr : b # a => Kept(e, b)
    BY <2>9, <2>10, <1>OtherLine
  <2>17. Unowned'
    BY <2>6 DEF Unowned, EventInv
  <2> QED  BY <2>10, <2>14, <2>15, <2>16, <2>17, <1>EventsKept

(* A writeback is refused only when its cache must still hand the line on, *)
(* or has done so.                                                         *)
<1>DirPUTXNotOwnerEvents.
  ASSUME ControlInv, EventInv, NEW m \in reqNet, DirPUTXNotOwner(m)
  PROVE  EventInv'
  <2> USE <1>DirPUTXNotOwnerEvents
  <2>1. /\ Typed /\ QueuesFormed /\ AcksLast /\ Unowned
        /\ m.type = "PUTX" /\ m.requestor \notin owner[m.addr]
    BY DEF ControlInv, EventInv, DirPUTXNotOwner, IsOwner
  <2>2. m.addr \in Addr /\ m.requestor \in Caches
    BY <2>1, RequestFields DEF Typed
  <2> PICK a \in Addr, r \in Caches : a = m.addr /\ r = m.requestor
    BY <2>2
  <2>3. PutInv(a) /\ PairInv(r, a) /\ Puts(r, a) /\ ~Owns(r, a)
    BY <2>1 DEF ControlInv, AllInv, EventInv, Puts, Owns
  <2> DEFINE dests == {r}
  <2>4. /\ Forward(a, dests, "WB_NACK", r) /\ reqNet' = reqNet \ {m}
        /\ UNCHANGED <<st, dstate, owner, memReq, responseFromMemory>>
    BY DEF DirPUTXNotOwner, l1Vars, dirVars, memVars
  <2>5. dests \subseteq Caches /\ \A e \in dests : e = r
    OBVIOUS
  <2> HIDE DEF dests
  <2>6. Nack(a, r) = Msg("WB_NACK", a, r) /\ Nack(a, r) \in ForwardMsg
    BY DEF Nack, Msg, ForwardMsg
  <2>7. /\ ForwardedTo(dests, Msg("WB_NACK", a, r)) /\ AcksLast'
        /\ \A e \in Caches, b \in Addr : Recalled(e, b)' => Recalled(e, b)
    BY <2>1, <2>4, <2>5, <2>6, <1>OtherForwarded
  <2>8. /\ ForwardedTo(dests, Nack(a, r)) /\ AcksLast'
        /\ \A e \in Caches, b \in Addr : Recalled(e, b)' => Recalled(e, b)
    BY <2>6, <2>7
  <2>9. \A e, q \in Caches, b \in Addr :
          /\ Passes(e, q, b)' <=> Passes(e, q, b)
          /\ Acked(e, b)' <=> Acked(e, b)
          /\ ~(e = r /\ b = a) => (Nacked(e, b)' => Nacked(e, b))
          /\ Puts(e, b)' => Puts(e, b)
    <3>1. PICK n : n = Nack(a, r)
      OBVIOUS
    <3>2. \A e, q \in Caches, b \in Addr :
            n # Getx(b, q) /\ n # Ack(b, e)
      BY <3>1, MessagesDiffer, SMT
    <3>3. \A e \in Caches, b \in Addr : ~(e = r /\ b = a) => n # Nack(b, e)
      BY <3>1, MessagesDiffer, SMT
    <3>4. \A e \in Caches, b \in Addr : Puts(e, b)' => Puts(e, b)
      BY <2>4 DEF Puts
    <3>5. ForwardedTo(dests, n)
      BY <2>8, <3>1
    <3>6. \A e, q \in Caches, b \in Addr :
            /\ Passes(e, q, b)' <=> Passes(e, q, b)
            /\ Acked(e, b)' <=> Acked(e, b)
      BY <3>2, <3>5, SMT DEF ForwardedTo
    <3>7. \A e \in Caches, b \in Addr :
            ~(e = r /\ b = a) => (Nacked(e, b)' => Nacked(e, b))
      BY <3>5, <3>3 DEF ForwardedTo
    <3> QED  BY <3>4, <3>6, <3>7
  <2>10. \A e \in Caches, b \in Addr : ~(e = r /\ b = a) => Kept(e, b)
    BY <2>4, <2>8, <2>9, <1>CacheKept
  <2>11. PairInv(r, a)'
    <3>1. st[r][a] \in {"MI", "II"}
      BY <2>3 DEF PutInv
    <3>2. st[r][a] = "MI" => \E q \in Caches : Passes(r, q, a)
      BY <2>3 DEF PairInv, InLine
    <3>3. Recalled(r, a)' => Reason(r, a)'
      BY <2>3, <2>4, <2>8, <2>9, <1>DirectoryKept DEF PairInv, Reason
    <3>4. st'[r][a] = "II" => ~Returned(r, a)' /\ ~Acked(r, a)'
      BY <2>3, <2>4, <2>9, <1>DirectoryKept DEF PairInv
    <3>5. st'[r][a] = "MI" => \E q \in Caches : Passes(r, q, a)'
      BY <2>4, <2>9, <3>2
    <3> QED  BY <2>4, <3>1, <3>3, <3>4, <3>5 DEF PairInv, InLine
  <2>12. Unowned'
    BY <2>1, <2>4, <1>DirectoryKept
  <2> QED  BY <2>8, <2>10, <2>11, <2>12, <1>EventsKept

(* A DMA request for a line that a cache has asks that cache for it.       *)
<1>DirDMAEvents.
  ASSUME ControlInv, EventInv, NEW m \in dmaReqNet, DirDMA(m)
  PROVE  EventInv'
  <2> USE <1>DirDMAEvents
  <2>1. Typed /\ QueuesFormed /\ AcksLast /\ Unowned /\ m.addr \in Addr
    BY DEF ControlInv, EventInv, Typed, DMARequest
  <2> PICK a \in Addr : a = m.addr
    BY <2>1
  <2>2. UNCHANGED <<st, owner, responseFromMemory, reqNet>>
    BY DEF DirDMA, l1Vars
  <2>3. CASE dstate[a] = "I"
    <3>1. UNCHANGED fwdNet
      BY <2>3 DEF DirDMA
    <3>2. /\ dstate'[a] \in {"ID", "ID_W"}
          /\ \A b \in Addr : b # a => dstate'[b] = dstate[b]
      BY <2>1, <2>3 DEF DirDMA, Typed
    <3>3. \A n : n.addr # a => (n \in memReq' <=> n \in memReq)
      <4> DEFINE r == IF m.type = "READ"
                      THEN [type |-> "READ", addr |-> m.addr,
                            requestor |-> m.transfer.dma]
                      ELSE [type |-> "PARTIAL", addr |-> m.addr,
                            requestor |-> m.transfer.dma, transfer |-> m.transfer]
      <4>1. memReq' = memReq \union {r}
        BY <2>3, Zenon DEF DirDMA
      <4>2. r.addr = a
        OBVIOUS
      <4> HIDE DEF r
      <4> QED  BY <4>1, <4>2, Zenon
    <3>4. OnlyLine(a)
      BY <2>2, <3>2, <3>3 DEF OnlyLine
    <3>5. \A e \in Caches : ~Owns(e, a)
      BY <2>3 DEF Owns, Owned
    <3>6. {dstate[a], dstate'[a]} \cap (Returning \union {"M_DRD", "M_DWR"}) = {}
      BY <2>3, <3>2, SMT DEF Returning
    <3>7. owner'[a] = {}
      BY <2>1, <2>2, <2>3 DEF Unowned, Owned
    <3> QED  BY <3>1, <3>4, <3>5, <3>6, <3>7, <1>NothingSent, <1>SettledEvents
  <2>4. CASE dstate[a] # "I"
    <3>1. /\ dstate[a] = "M" /\ UNCHANGED memReq
          /\ Forward(a, owner[a], "INV", Home[a])
      BY <2>4 DEF DirDMA
    <3>2. /\ dstate'[a] \in {"M_DRD", "M_DWR"}
          /\ \A b \in Addr : b # a => dstate'[b] = dstate[b]
      BY <2>1, <3>1 DEF DirDMA, Typed
    <3>3. OnlyLine(a)
      BY <2>2, <3>1, <3>2 DEF OnlyLine
    <3> PICK dests : dests = owner[a]
      OBVIOUS
    <3> PICK h : h = Home[a]
      OBVIOUS
    <3>4. /\ dests \subseteq Caches /\ Forward(a, dests, "INV", h)
          /\ Msg("INV", a, h) \in ForwardMsg
      BY <2>1, <3>1, MIAssumption DEF Typed, MIAssumption, Msg, ForwardMsg
    <3>5. \A e \in Caches : e \in dests => Owns(e, a) /\ ~Acked(e, a)
      <4>1. \A e \in Caches : e \in dests => Owns(e, a) /\ InLine(e, a)
        BY <3>1 DEF Owns, InLine, Owned
      <4> QED  BY <4>1 DEF ControlInv, AllInv, PutInv
    <3>6. ForwardedTo(dests, Msg("INV", a, h))
      BY <2>1, <3>4, ForwardArrives
    <3>7. /\ AcksLast'
          /\ \A e \in Caches, b \in Addr :
               Recalled(e, b)' => Recalled(e, b) \/ (e \in dests /\ b = a)
      BY <2>1, <3>4, <3>5, <1>RecallForwarded
    <3>8. \A e, q \in Caches, b \in Addr :
            /\ Passes(e, q, b)' <=> Passes(e, q, b)
            /\ Acked(e, b)' <=> Acked(e, b)
            /\ Nacked(e, b)' <=> Nacked(e, b)
      <4>1. \A e, q \in Caches, b \in Addr :
              /\ Msg("INV", a, h) # Getx(b, q)
              /\ Msg("INV", a, h) # Ack(b, e) /\ Msg("INV", a, h) # Nack(b, e)
        BY DEF Msg, Getx, Ack, Nack
      <4> QED  BY <3>6, <4>1, ZenonT(60) DEF ForwardedTo
    <3>9. \A e \in Caches, b \in Addr : b # a => Kept(e, b)
      BY <3>3, <3>7, <3>8, <1>OtherLine DEF Undisturbed
    <3>10. ASSUME NEW e \in Caches PROVE PairInv(e, a)'
      <4>1. PairInv(e, a) /\ ~Returned(e, a) /\ ~Recalling(e, a)
        BY <3>1 DEF EventInv, Returned, Recalling, Returning
      <4>2. /\ Owns(e, a)' <=> Owns(e, a)
            /\ InLine(e, a)' <=> InLine(e, a)
            /\ ~Returned(e, a)'
            /\ Recalling(e, a)' <=> e \in dests
            /\ Puts(e, a)' <=> Puts(e, a)
        <5>1. /\ Owns(e, a)' <=> Owns(e, a)
              /\ ~Returned(e, a)'
              /\ Recalling(e, a)' <=> e \in dests
          BY <2>2, <3>1, <3>2 DEF Owns, Owned, Returned, Recalling, Returning
        <5>2. Puts(e, a)' <=> Puts(e, a)
          BY <2>2 DEF Puts
        <5> QED  BY <3>8, <5>1, <5>2 DEF InLine
      <4>3. Recalled(e, a)' => Reason(e, a)'
        BY <3>7, <3>8, <4>1, <4>2 DEF PairInv, Reason
      <4> QED  BY <2>2, <3>8, <4>1, <4>2, <4>3 DEF PairInv
    <3>11. Unowned'
      BY <2>1, <2>2, <3>2 DEF Unowned, Owned
    <3> QED  BY <3>7, <3>9, <3>10, <3>11, <1>EventsKept
  <2> QED  BY <2>3, <2>4

(* Memory's data.                                                          *)
<1>DirMemoryDataEvents.
  ASSUME ControlInv, EventInv, NEW m \in responseFromMemory, DirMemoryData(m)
  PROVE  EventInv'
  <2> USE <1>DirMemoryDataEvents
  <2>1. Typed /\ m.addr \in Addr
    BY DEF ControlInv, Typed, MemoryMsg
  <2> PICK a \in Addr : a = m.addr
    BY <2>1
  <2>2. /\ responseFromMemory' = responseFromMemory \ {m}
        /\ UNCHANGED <<st, owner, memReq, reqNet, fwdNet>>
    BY DEF DirMemoryData, l1Vars, fwdVars
  <2>3. /\ \/ dstate[a] = "IM" /\ dstate'[a] = "M"
           \/ dstate[a] = "ID" /\ dstate'[a] = "I"
        /\ \A b \in Addr : b # a => dstate'[b] = dstate[b]
    BY <2>1 DEF DirMemoryData, Typed
  <2>4. OnlyLine(a)
    <3>1. \A n : n.addr # a => (n \in responseFromMemory' <=> n \in responseFromMemory)
      BY <2>2
    <3> QED  BY <2>2, <2>3, <3>1 DEF OnlyLine
  <2>5. \A e \in Caches : ~Owns(e, a)
    BY <2>3 DEF Owns, Owned
  <2>6. {dstate[a], dstate'[a]} \cap (Returning \union {"M_DRD", "M_DWR"}) = {}
    BY <2>3, SMT DEF Returning
  <2>7. dstate'[a] \notin Owned \union {"IM"} => owner'[a] = {}
    BY <2>2, <2>3 DEF EventInv, Unowned, Owned
  <2> QED  BY <2>2, <2>4, <2>5, <2>6, <2>7, <1>NothingSent, <1>SettledEvents

(* The answer to a writeback: its cache has not given the line away.       *)
<1>DirAckEvents.
  ASSUME ControlInv, EventInv, NEW m \in responseFromMemory, NEW a \in Addr,
         DoneEffect(m, a), dstate[a] \in Returning, m.type = "MEMORY_WB",
         Forward(a, {m.requestor}, "WB_ACK", m.requestor)
  PROVE  EventInv'
  <2> USE <1>DirAckEvents
  <2>1. /\ Typed /\ QueuesFormed /\ AcksLast /\ Unowned
        /\ MemoryInv(a) /\ PutInv(a) /\ \A e \in Caches : PairInv(e, a)
        /\ m.addr = a
    BY DEF ControlInv, AllInv, EventInv, DoneEffect
  <2>2. m.requestor \in Caches
    BY <2>1 DEF MemoryInv, Returning
  <2> PICK r \in Caches : r = m.requestor
    BY <2>2
  <2>3. /\ responseFromMemory' = responseFromMemory \ {m}
        /\ UNCHANGED <<st, owner, memReq, reqNet>>
        /\ dstate'[a] = "I" /\ \A b \in Addr : b # a => dstate'[b] = dstate[b]
    BY <2>1 DEF DoneEffect, Typed
  <2>4. OnlyLine(a)
    <3>1. \A n : n.addr # a => (n \in responseFromMemory' <=> n \in responseFromMemory)
      BY <2>1, <2>3
    <3> QED  BY <2>3, <3>1 DEF OnlyLine
  <2>5. \A e \in Caches : Returned(e, a) <=> e = r
    <3>1. \A n \in memReq \union (responseFromMemory \ {m}) : n.addr # a
      BY <2>1, Answered
    <3> QED  BY <2>1, <3>1 DEF Returned
  <2>6. \A e \in Caches : ~Returned(e, a)' /\ ~Owns(e, a) /\ ~Recalling(e, a)
    BY <2>3 DEF Returned, Owns, Recalling, Owned, Returning
  <2>7. PICK dests : dests = {r}
    OBVIOUS
  <2>8. /\ dests \subseteq Caches /\ Forward(a, dests, "WB_ACK", r)
        /\ Ack(a, r) = Msg("WB_ACK", a, r) /\ Ack(a, r) \in ForwardMsg
    BY <2>7 DEF Ack, Msg, ForwardMsg
  <2>9. /\ ForwardedTo(dests, Msg("WB_ACK", a, r)) /\ AcksLast'
        /\ \A e \in Caches, b \in Addr : Recalled(e, b)' => Recalled(e, b)
    BY <2>1, <2>8, <1>OtherForwarded
  <2>10. /\ \A e, q \in Caches, b \in Addr :
              /\ Passes(e, q, b)' <=> Passes(e, q, b)
              /\ Nacked(e, b)' <=> Nacked(e, b)
         /\ \A e \in Caches, b \in Addr :
              ~(e = r /\ b = a) => (Acked(e, b)' <=> Acked(e, b))
         /\ Acked(r, a)'
    <3>1. PICK n : n = Ack(a, r)
      OBVIOUS
    <3>2. \A e, q \in Caches, b \in Addr : n # Getx(b, q) /\ n # Nack(b, e)
      BY <3>1, MessagesDiffer, SMT
    <3>3. \A e \in Caches, b \in Addr : ~(e = r /\ b = a) => n # Ack(b, e)
      BY <3>1, MessagesDiffer, SMT
    <3>4. ForwardedTo(dests, n) /\ r \in dests
      BY <2>7, <2>8, <2>9, <3>1
    <3>5. \A e, q \in Caches, b \in Addr :
            /\ Passes(e, q, b)' <=> Passes(e, q, b)
            /\ Nacked(e, b)' <=> Nacked(e, b)
      BY <3>2, <3>4, SMT DEF ForwardedTo
    <3>6. \A e \in Caches, b \in Addr :
            ~(e = r /\ b = a) => (Acked(e, b)' <=> Acked(e, b))
      BY <3>3, <3>4 DEF ForwardedTo
    <3>7. Acked(r, a)'
      BY <3>1, <3>4 DEF ForwardedTo
    <3> QED  BY <3>5, <3>6, <3>7
  <2>11. \A e \in Caches, b \in Addr : b # a => Kept(e, b)
    BY <2>4, <2>9, <2>10, <1>OtherLine DEF Undisturbed
  <2>12. \A e \in Caches : /\ Puts(e, a)' <=> Puts(e, a)
                           /\ InLine(e, a) => InLine(e, a)'
    <3>1. \A e \in Caches : Puts(e, a)' <=> Puts(e, a)
      BY <2>3 DEF Puts
    <3> QED  BY <2>6, <2>10, <3>1 DEF InLine
  <2>13. ASSUME NEW e \in Caches, e # r PROVE Kept(e, a)
    <3>1. Reason(e, a) => Reason(e, a)'
      BY <2>5, <2>6, <2>10, <2>13 DEF Reason
    <3> QED  BY <2>3, <2>6, <2>9, <2>10, <2>12, <2>13, <3>1 DEF Kept
  <2>14. PairInv(r, a)'
    <3>1. Returned(r, a) /\ PairInv(r, a)
      BY <2>1, <2>5
    <3>2. st'[r][a] = "MI"
      BY <2>1, <2>3, <3>1 DEF PutInv, PairInv
    <3>3. ~Puts(r, a)' /\ ~Nacked(r, a)'
      BY <2>1, <2>10, <2>12, <3>1 DEF PutInv
    <3>4. Reason(r, a)'
      BY <2>10 DEF Reason
    <3> QED  BY <3>2, <3>3, <3>4 DEF PairInv
  <2>15. Unowned'
    <3>1. owner[a] = {}
      BY <2>1 DEF Unowned, Owned, Returning
    <3> QED  BY <2>1, <2>3, <3>1 DEF Unowned
  <2> QED  BY <2>9, <2>11, <2>13, <2>14, <2>15, <1>EventsKept

(* Memory has written.                                                     *)
<1>DirMemoryAckEvents.
  ASSUME ControlInv, EventInv, NEW m \in responseFromMemory, DirMemoryAck(m)
  PROVE  EventInv'
  <2> USE <1>DirMemoryAckEvents
  <2>1. Typed /\ m.addr \in Addr
    BY DEF ControlInv, Typed, MemoryMsg
  <2> PICK a \in Addr : a = m.addr
    BY <2>1
  <2>2. DoneEffect(m, a)
    BY DEF DirMemoryAck, DoneEffect, l1Vars
  <2>3. CASE dstate[a] = "ID_W"
    <3>1. Forward(a, {}, "WB_ACK", m.requestor)
      BY <2>3 DEF DirMemoryAck
    <3>2. UNCHANGED fwdNet
      BY <2>1, <3>1, ForwardNobody
    <3>3. /\ responseFromMemory' = responseFromMemory \ {m}
          /\ UNCHANGED <<st, owner, memReq, reqNet>>
          /\ dstate'[a] = "I" /\ \A b \in Addr : b # a => dstate'[b] = dstate[b]
      BY <2>1, <2>2 DEF DoneEffect, Typed
    <3>4. OnlyLine(a)
      <4>1. \A n : n.addr # a => (n \in responseFromMemory' <=> n \in responseFromMemory)
        BY <3>3
      <4> QED  BY <3>3, <4>1 DEF OnlyLine
    <3>5. \A e \in Caches : ~Owns(e, a)
      BY <2>3 DEF Owns, Owned
    <3>6. {dstate[a], dstate'[a]} \cap (Returning \union {"M_DRD", "M_DWR"}) = {}
      BY <2>3, <3>3, SMT DEF Returning
    <3>7. owner'[a] = {}
      BY <2>3, <3>3 DEF EventInv, Unowned, Owned
    <3> QED  BY <3>2, <3>4, <3>5, <3>6, <3>7, <1>NothingSent, <1>SettledEvents
  <2>4. CASE dstate[a] # "ID_W"
    <3>1. /\ Forward(a, {m.requestor}, "WB_ACK", m.requestor)
          /\ dstate[a] \in Returning /\ m.type = "MEMORY_WB"
      BY <2>4 DEF DirMemoryAck, Returning
    <3> QED  BY <2>2, <3>1, <1>DirAckEvents
  <2> QED  BY <2>3, <2>4

(* Memory answers: what the directory waits for stays the same.            *)
<1>MemoryEvents.
  ASSUME ControlInv, EventInv, NEW q \in memReq, MemoryAccess(q)
  PROVE  EventInv'
  <2> USE <1>MemoryEvents
  <2>1. \E n : /\ responseFromMemory' = responseFromMemory \union {n}
               /\ n.addr = q.addr /\ n.requestor = q.requestor
    <3>1. CASE q.type = "READ"
      <4> PICK n : n = [type |-> "MEMORY_READ", addr |-> q.addr,
                        requestor |-> q.requestor, data |-> mem[q.addr]]
        OBVIOUS
      <4>1. n.addr = q.addr /\ n.requestor = q.requestor
        OBVIOUS
      <4>2. responseFromMemory' = responseFromMemory \union {n}
        BY <3>1 DEF MemoryAccess
      <4> QED  BY <4>1, <4>2
    <3>2. CASE q.type # "READ"
      <4> PICK n : n = [type |-> "MEMORY_WB", addr |-> q.addr,
                        requestor |-> q.requestor]
        OBVIOUS
      <4>1. n.addr = q.addr /\ n.requestor = q.requestor
        OBVIOUS
      <4>2. responseFromMemory' = responseFromMemory \union {n}
        BY <3>2 DEF MemoryAccess
      <4> QED  BY <4>1, <4>2
    <3> QED  BY <3>1, <3>2
  <2>2. PICK n : /\ responseFromMemory' = responseFromMemory \union {n}
                 /\ n.addr = q.addr /\ n.requestor = q.requestor
    BY <2>1
  <2>3. memReq' = memReq \ {q} /\ UNCHANGED <<st, dstate, owner, reqNet, fwdNet>>
    BY DEF MemoryAccess, l1Vars, dirVars, fwdVars
  <2>4. \A e \in Caches, b \in Addr : Returned(e, b)' <=> Returned(e, b)
    <3> SUFFICES ASSUME NEW e \in Caches, NEW b \in Addr
                 PROVE  (\E x \in memReq' \union responseFromMemory' :
                           x.addr = b /\ x.requestor = e)
                        <=> (\E x \in memReq \union responseFromMemory :
                               x.addr = b /\ x.requestor = e)
      BY <2>3 DEF Returned
    <3> QED  BY <2>2, <2>3
  <2>5. AcksLast' /\ \A e \in Caches, b \in Addr : Undisturbed(e, b)
    BY <2>3, <1>NothingSent
  <2>6. ASSUME NEW e \in Caches, NEW b \in Addr PROVE Kept(e, b)
    <3>1. Owns(e, b)' <=> Owns(e, b)
      BY <2>3 DEF Owns
    <3>2. Recalling(e, b)' <=> Recalling(e, b)
      BY <2>3 DEF Recalling
    <3>3. InLine(e, b) => InLine(e, b)'
      BY <2>5, <3>1 DEF InLine, Undisturbed
    <3>4. Reason(e, b) => Reason(e, b)'
      BY <2>4, <2>5, <3>2 DEF Reason, Undisturbed
    <3>5. Puts(e, b)' => Puts(e, b)
      BY <2>3 DEF Puts
    <3> QED  BY <2>3, <2>4, <2>5, <3>3, <3>4, <3>5 DEF Kept, Undisturbed
  <2>7. Unowned'
    BY <2>3 DEF Unowned, EventInv
  <2> QED  BY <2>5, <2>6, <2>7, <1>EventsKept

(* The steps a cache takes for the message at the head of its queue.       *)
<1>ForwardedEvents.
  ASSUME ControlInv, EventInv, NEW c \in Caches, NEW d \in Dirs,
         FwdGETX(c, d) \/ Inv(c, d) \/ WritebackAck(c, d) \/ WritebackNack(c, d)
  PROVE  EventInv'
  <2> USE <1>ForwardedEvents
  <2> PICK m : m = Head(fwdNet[d][c])
    OBVIOUS
  <2>1. /\ m.addr \in Addr
        /\ m.type = "GETX" => m.requestor \in Caches /\ m = Getx(m.addr, m.requestor)
        /\ m.type = "WB_ACK" => m = Ack(m.addr, c)
        /\ m.type = "WB_NACK" => m = Nack(m.addr, c)
    BY ForwardedHead
  <2>2. CASE FwdGETX(c, d)
    <3>1. m.type = "GETX"
      BY <2>2 DEF FwdGETX
    <3> QED  BY <2>1, <2>2, <3>1, <1>FwdGETXEvents
  <2>3. CASE Inv(c, d)
    <3>1. m.type = "INV" /\ Forwarded(c, d) /\ UNCHANGED <<dirVars, memVars>>
      BY <2>3 DEF Inv
    <3>2. CASE st[c][m.addr] = "M"
      <4>1. IssuePUT(c, m.addr) /\ UNCHANGED fwdNet
        BY <2>3, <3>2 DEF Inv, fwdVars
      <4> QED  BY <2>1, <3>1, <3>2, <4>1, <1>PutEvents
    <3>3. CASE st[c][m.addr] # "M"
      <4>1. PopForward(c, d) /\ UNCHANGED <<st, reqNet>>
        BY <2>3, <3>3 DEF Inv, l1Vars
      <4>2. UNCHANGED <<dstate, owner, memReq, responseFromMemory>>
        BY <3>1 DEF dirVars, memVars
      <4> QED  BY <3>1, <4>1, <4>2, <1>InvEvents
    <3> QED  BY <3>2, <3>3
  <2>4. CASE WritebackAck(c, d)
    <3>1. m.type = "WB_ACK"
      BY <2>4 DEF WritebackAck
    <3>2. AnswerEffect(c, d, m.addr, m, "I")
      BY <2>1, <2>4, <3>1 DEF AnswerEffect, WritebackAck, dmaVars
    <3> QED  BY <2>1, <3>2, <1>AnswerEvents
  <2>5. CASE WritebackNack(c, d)
    <3> DEFINE s == IF st[c][m.addr] = "MI" THEN "MII" ELSE "I"
    <3>1. /\ m.type = "WB_NACK" /\ Forwarded(c, d) /\ PopForward(c, d)
          /\ st[c][m.addr] \in {"MI", "II"}
          /\ st' = [st EXCEPT ![c][m.addr] = s]
          /\ UNCHANGED <<blk, dirVars, memVars, reqNet, dataNet, dmaReqNet, latest>>
      BY <2>5 DEF WritebackNack, dmaVars
    <3> PICK n \in {"I", "MII"} : n = s
      OBVIOUS
    <3>2. (n = "I" => st[c][m.addr] = "II") /\ (n = "MII" => st[c][m.addr] = "MI")
      BY <3>1
    <3>3. m = Nack(m.addr, c)
      BY <2>1, <3>1
    <3> HIDE DEF s
    <3>4. AnswerEffect(c, d, m.addr, m, n)
      BY <3>1, <3>2, <3>3 DEF AnswerEffect
    <3> QED  BY <2>1, <3>2, <3>3, <3>4, <1>AnswerEvents
  <2> QED  BY <2>2, <2>3, <2>4, <2>5

(* A step that sends, takes and changes nothing here.                      *)
<1>IdleEvents.
  ASSUME EventInv,
         UNCHANGED <<st, dstate, owner, memReq, responseFromMemory, reqNet, fwdNet>>
  PROVE  EventInv'
  <2> USE <1>IdleEvents
  <2>1. \A e \in Caches, b \in Addr : Puts(e, b)' => Puts(e, b)
    BY DEF Puts
  <2> QED  BY <2>1, <1>QuietEvents

(* The steps of a cache for its processor.                                 *)
<1>ProcessorEvents.
  ASSUME ControlInv, EventInv, NEW c \in Caches, NEW a \in Addr,
         \/ LoadHit(c, a)
         \/ \E w \in 1..LineWords, v \in Values : StoreHit(c, a, w, v)
         \/ \E type \in {"Load", "Store"} : Miss(c, type, a)
         \/ Replacement(c, a)
  PROVE  EventInv'
  <2> USE <1>ProcessorEvents
  <2>1. CASE LoadHit(c, a)
    BY <2>1, <1>IdleEvents DEF LoadHit, dirVars, memVars, fwdVars
  <2>2. ASSUME NEW w \in 1..LineWords, NEW v \in Values, StoreHit(c, a, w, v)
        PROVE  EventInv'
    BY <2>2, <1>IdleEvents DEF StoreHit, dirVars, memVars, fwdVars
  <2>3. ASSUME NEW type \in {"Load", "Store"}, Miss(c, type, a)
        PROVE  EventInv'
    <3> DEFINE s == IF type = "Load" THEN "IS" ELSE "IM"
    <3>1. s \in Awaiting
      BY DEF Awaiting
    <3>2. MissEffect(c, a, s)
      BY <2>3 DEF Miss, MissEffect, fwdVars, dmaVars
    <3> HIDE DEF s
    <3> QED  BY <3>1, <3>2, <1>MissEvents
  <2>4. CASE Replacement(c, a)
    <3>1. UNCHANGED <<dirVars, memVars, fwdNet>>
      BY <2>4 DEF Replacement, fwdVars
    <3>2. CASE st[c][a] = "M"
      <4>1. IssuePUT(c, a)
        BY <2>4, <3>2 DEF Replacement
      <4> QED  BY <3>1, <3>2, <4>1, <1>PutEvents
    <3>3. CASE st[c][a] # "M"
      <4>1. UNCHANGED <<st, reqNet>>
        BY <2>4, <3>3 DEF Replacement
      <4> QED  BY <3>1, <4>1, <1>IdleEvents DEF dirVars, memVars
    <3> QED  BY <3>2, <3>3
  <2> QED  BY <2>1, <2>2, <2>3, <2>4

<1> SUFFICES ASSUME ControlInv, EventInv, [Next]_vars
             PROVE  EventInv'
  OBVIOUS
<1>1. CASE UNCHANGED vars
  BY <1>1, <1>IdleEvents
     DEF vars, l1Vars, dirVars, memVars, fwdVars, dmaVars
<1>2. CASE Issue
  <2>1. ASSUME NEW c \in Caches, NEW type \in {"Load", "Store"}, NEW a \in Addr,
               MakeRequest(c, type, a)
        PROVE  EventInv'
    BY <2>1, <1>IdleEvents DEF MakeRequest, dirVars, memVars, fwdVars
  <2>2. ASSUME NEW type \in {"READ", "WRITE"}, NEW a \in Addr, NEW t \in Transfer,
               DmaRequest(type, a, t)
        PROVE  EventInv'
    BY <2>2, <1>IdleEvents DEF DmaRequest, l1Vars, dirVars, memVars, fwdVars
  <2> QED  BY <1>2, <2>1, <2>2 DEF Issue
<1>3. CASE Protocol
  <2>1. ASSUME NEW c \in Caches, NEW d \in Dirs, Stall(c, d)
        PROVE  EventInv'
    BY <2>1, <1>IdleEvents DEF Stall, l1Vars, dirVars, memVars
  <2>2. ASSUME NEW m \in dmaRespNet, DmaResponse(m)
        PROVE  EventInv'
    BY <2>2, <1>IdleEvents DEF DmaResponse, l1Vars, dirVars, memVars, fwdVars
  <2>3. CASE Panic
    BY <2>3, <1>IdleEvents DEF Panic, l1Vars, dirVars, memVars, fwdVars
  <2> QED
    BY <1>3, <2>1, <2>2, <2>3, <1>ProcessorEvents, <1>ForwardedEvents, <1>CacheDataEvents,
       <1>DirGETXEvents, <1>DirPUTXEvents, <1>DirPUTXNotOwnerEvents, <1>DirDMAEvents,
       <1>DirMemoryDataEvents, <1>DirMemoryAckEvents, <1>MemoryEvents, ZenonT(30)
       DEF Protocol
<1> QED  BY <1>1, <1>2, <1>3 DEF Next

(* At the start there is nothing to meet.                                  *)
LEMMA EventInit == Init => EventInv
<1> SUFFICES ASSUME Init PROVE EventInv
  OBVIOUS
<1>1. \A c \in Caches, d \in Dirs : fwdNet[d][c] = <<>>
  BY DEF Init
<1>2. AckLast(<<>>) /\ Elements(<<>>) = {}
  BY QueueEmpty, SMT DEF AckLast
<1>3. AcksLast
  BY <1>1, <1>2 DEF AcksLast
<1>4. \A c \in Caches, a \in Addr : ~Recalled(c, a)
  BY <1>1, <1>2, MIAssumption DEF Recalled, Fwd, MIAssumption
<1>5. \A c \in Caches, a \in Addr : st[c][a] = "I" /\ owner[a] = {}
  BY DEF Init
<1>6. \A c \in Caches, a \in Addr : PairInv(c, a)
  BY <1>4, <1>5 DEF PairInv
<1>7. Unowned
  BY DEF Init, Unowned
<1> QED  BY <1>3, <1>6, <1>7 DEF EventInv

-----------------------------------------------------------------------------
(* The DMA controllers. *)

(* The fields of a DMA response.                                           *)
LEMMA ResponseFields ==
  ASSUME NEW m \in DMAResponse
  PROVE  /\ m.addr \in Addr /\ m.dest \in Dmas
         /\ \E k \in Kinds : m.type = Answer(k)
         /\ m.type \in {"DATA", "ACK"}
  BY DEF DMAResponse, Kinds, Answer

(* The fields of a response of the memory.                                 *)
LEMMA MemoryFields ==
  ASSUME NEW m \in MemoryMsg
  PROVE  m.addr \in Addr /\ (m.type = "MEMORY_READ" => m.data \in Data)
  BY DEF MemoryMsg

(* Every step preserves the state of the DMA transfers.                    *)
LEMMA DmaStep ==
  ControlInv /\ DmaInv /\ [Next]_vars => DmaInv'

(* The two kinds of request differ in all they lead to.                    *)
<1>KindsDiffer.
  /\ \A k \in Kinds : Busy(k) # "READY"
  /\ \A j, k \in Kinds : Busy(j) = Busy(k) => j = k
  /\ \A j, k \in Kinds : Answer(j) = Answer(k) => j = k
  /\ \A j, k \in Kinds : ServingStates(j) \cap ServingStates(k) # {} => j = k
    BY SMT DEF Kinds, Busy, Answer, ServingStates

(* A step that leaves the requests where they are.                         *)
<1>IdleDma.
  ASSUME DmaInv, UNCHANGED dmaVars,
         \A b \in Addr, k \in Kinds : dstate'[b] \in ServingStates(k) =>
           dstate[b] \in ServingStates(k) /\ dtbe'[b] = dtbe[b]
  PROVE  DmaInv'
  <2> USE <1>IdleDma
  <2>1. UNCHANGED <<dma, dmaReqNet, dmaRespNet>>
    BY DEF dmaVars
  <2>2. \A p \in Dmas, a \in Addr, k \in Kinds :
          /\ Requested(p, a, k)' <=> Requested(p, a, k)
          /\ AnsweredTo(p, a, k)' <=> AnsweredTo(p, a, k)
          /\ Served(p, a, k)' => Served(p, a, k)
    BY <2>1 DEF Requested, AnsweredTo, Served
  <2>3. \A p \in Dmas, a \in Addr, k \in Kinds : DmaOnce(p, a, k)'
    BY <2>1, <2>2, ZenonT(60) DEF DmaInv, DmaOnce
  <2>4. DmaTyped'
    BY <2>1 DEF DmaInv, DmaTyped
  <2> QED  BY <2>1, <2>3, <2>4 DEF DmaInv

(* A device asks.                                                          *)
<1>DmaRequestDma.
  ASSUME ControlInv, DmaInv, NEW k \in Kinds, NEW a \in Addr, NEW t \in Transfer,
         DmaRequest(k, a, t)
  PROVE  DmaInv'
  <2> USE <1>DmaRequestDma
  <2>1. PICK p \in Dmas : p = t.dma
    BY DEF Transfer
  <2>2. PICK x : x = [type |-> k, addr |-> a, transfer |-> t]
    OBVIOUS
  <2>3. x.type = k /\ x.addr = a /\ x.transfer.dma = p
    BY <2>1, <2>2
  <2>4. /\ dma[p][a] = "READY" /\ dma' = [dma EXCEPT ![p][a] = Busy(k)]
        /\ dmaReqNet' = dmaReqNet \union {x}
        /\ UNCHANGED <<dstate, dtbe, dmaRespNet>>
    BY <2>1, <2>2 DEF DmaRequest, Busy, dirVars
  <2>5. \A q \in Dmas, b \in Addr :
          dma'[q][b] = IF q = p /\ b = a THEN Busy(k) ELSE dma[q][b]
    BY <2>4 DEF DmaInv, DmaTyped
  <2>6. \A q \in Dmas, b \in Addr, j \in Kinds :
          /\ Requested(q, b, j)' => Requested(q, b, j) \/ (q = p /\ b = a /\ j = k)
          /\ AnsweredTo(q, b, j)' <=> AnsweredTo(q, b, j)
          /\ Served(q, b, j)' <=> Served(q, b, j)
    <3>1. \A q \in Dmas, b \in Addr, j \in Kinds :
            Requested(q, b, j)' => Requested(q, b, j) \/ (q = p /\ b = a /\ j = k)
      BY <2>3, <2>4, SMT DEF Requested
    <3>2. \A q \in Dmas, b \in Addr, j \in Kinds :
            /\ AnsweredTo(q, b, j)' <=> AnsweredTo(q, b, j)
            /\ Served(q, b, j)' <=> Served(q, b, j)
      BY <2>4 DEF AnsweredTo, Served
    <3> QED  BY <3>1, <3>2
  <2>7. \A j \in Kinds : ~Requested(p, a, j) /\ ~Served(p, a, j) /\ ~AnsweredTo(p, a, j)
    BY <2>4, <1>KindsDiffer DEF DmaInv, DmaOnce
  <2>8. ASSUME NEW q \in Dmas, NEW b \in Addr, NEW j \in Kinds
        PROVE  DmaOnce(q, b, j)'
    <3>1. CASE q = p /\ b = a
      BY <2>5, <2>6, <2>7, <3>1 DEF DmaOnce
    <3>2. CASE ~(q = p /\ b = a)
      BY <2>5, <2>6, <3>2, ZenonT(60) DEF DmaInv, DmaOnce
    <3> QED  BY <3>1, <3>2
  <2>9. DmaTyped'
    <3>1. Busy(k) \in {"READY", "BUSY_RD", "BUSY_WR"}
      BY DEF Busy
    <3> QED  BY <2>4, <3>1 DEF DmaInv, DmaTyped
  <2>10. \A m \in dmaReqNet : ~(m.addr = a /\ m.transfer.dma = p)
    <3>1. \A m \in dmaReqNet : m.type \in Kinds
      BY DEF ControlInv, Typed, DMARequest, Kinds
    <3> QED  BY <2>7, <3>1 DEF Requested
  <2>11. \A m, n \in dmaReqNet' :
           m.addr = n.addr /\ m.transfer.dma = n.transfer.dma => m = n
    <3> SUFFICES ASSUME NEW m \in dmaReqNet', NEW n \in dmaReqNet',
                        m.addr = n.addr, m.transfer.dma = n.transfer.dma
                 PROVE  m = n
      OBVIOUS
    <3>1. CASE m \in dmaReqNet /\ n \in dmaReqNet
      BY <3>1 DEF DmaInv
    <3>2. CASE ~(m \in dmaReqNet /\ n \in dmaReqNet)
      BY <2>3, <2>4, <2>10, <3>2
    <3> QED  BY <3>1, <3>2
  <2> QED  BY <2>4, <2>8, <2>9, <2>11 DEF DmaInv

(* A controller gets its answer.                                           *)
<1>DmaResponseDma.
  ASSUME DmaInv, NEW m \in dmaRespNet, DmaResponse(m)
  PROVE  DmaInv'
  <2> USE <1>DmaResponseDma
  <2>1. m \in DMAResponse
    BY DEF DmaInv, DmaTyped
  <2>2. PICK p \in Dmas, a \in Addr, k \in Kinds :
          p = m.dest /\ a = m.addr /\ m.type = Answer(k)
    BY <2>1, ResponseFields
  <2>3. /\ dma' = [dma EXCEPT ![p][a] = "READY"]
        /\ dmaRespNet' = dmaRespNet \ {m}
        /\ UNCHANGED <<dstate, dtbe, dmaReqNet>>
    BY <2>2 DEF DmaResponse, dirVars
  <2>4. \A q \in Dmas, b \in Addr :
          ~(q = p /\ b = a) => dma'[q][b] = dma[q][b]
    BY <2>3 DEF DmaInv, DmaTyped
  <2>5. AnsweredTo(p, a, k)
    BY <2>2 DEF AnsweredTo
  <2>6. \A q \in Dmas, b \in Addr, j \in Kinds :
          /\ Requested(q, b, j)' <=> Requested(q, b, j)
          /\ AnsweredTo(q, b, j)' => AnsweredTo(q, b, j) /\ ~(q = p /\ b = a)
          /\ Served(q, b, j)' <=> Served(q, b, j)
    <3>1. \A n \in dmaRespNet' : n \in dmaRespNet /\ ~(n.dest = p /\ n.addr = a)
      BY <2>2, <2>3 DEF DmaInv
    <3>2. \A q \in Dmas, b \in Addr, j \in Kinds :
            AnsweredTo(q, b, j)' => AnsweredTo(q, b, j) /\ ~(q = p /\ b = a)
      BY <3>1 DEF AnsweredTo
    <3> QED  BY <2>3, <3>2 DEF Requested, Served
  <2>7. \A j \in Kinds : ~Requested(p, a, j) /\ ~Served(p, a, j)
    <3>1. /\ dma[p][a] = Busy(k) /\ ~Requested(p, a, k) /\ ~Served(p, a, k)
          /\ \A j \in Kinds : Requested(p, a, j) \/ Served(p, a, j) => dma[p][a] = Busy(j)
      BY <2>5 DEF DmaInv, DmaOnce
    <3> QED  BY <3>1, <1>KindsDiffer
  <2>8. ASSUME NEW q \in Dmas, NEW b \in Addr, NEW j \in Kinds
        PROVE  DmaOnce(q, b, j)'
    <3>1. CASE q = p /\ b = a
      BY <2>6, <2>7, <3>1 DEF DmaOnce
    <3>2. CASE ~(q = p /\ b = a)
      BY <2>4, <2>6, <3>2, ZenonT(60) DEF DmaInv, DmaOnce
    <3> QED  BY <3>1, <3>2
  <2>9. DmaTyped'
    BY <2>3 DEF DmaInv, DmaTyped
  <2> QED  BY <2>3, <2>8, <2>9 DEF DmaInv

(* The directory starts on a request.                                      *)
<1>DirDMADma.
  ASSUME ControlInv, DmaInv, NEW m \in dmaReqNet, DirDMA(m)
  PROVE  DmaInv'
  <2> USE <1>DirDMADma
  <2>1. Typed /\ m.addr \in Addr /\ m.type \in Kinds /\ m.transfer \in Transfer
    BY DEF ControlInv, Typed, DMARequest, Kinds
  <2>2. m.transfer.dma \in Dmas
    BY <2>1 DEF Transfer
  <2>3. PICK p \in Dmas, a \in Addr, k \in Kinds :
          p = m.transfer.dma /\ a = m.addr /\ k = m.type
    BY <2>1, <2>2
  <2>4. /\ dtbe' = [dtbe EXCEPT ![a] = m.transfer]
        /\ dmaReqNet' = dmaReqNet \ {m} /\ UNCHANGED <<dma, dmaRespNet>>
    BY <2>3 DEF DirDMA
  <2>5. /\ dstate'[a] \in ServingStates(k)
        /\ \A b \in Addr : b # a => dstate'[b] = dstate[b]
    <3>1. PICK s : /\ s \in {IF k = "READ" THEN "ID" ELSE "ID_W",
                             IF k = "READ" THEN "M_DRD" ELSE "M_DWR"}
                   /\ dstate' = [dstate EXCEPT ![a] = s]
      BY <2>3 DEF DirDMA
    <3>2. s \in ServingStates(k)
      BY <3>1, SMT DEF ServingStates
    <3> QED  BY <2>1, <3>1, <3>2 DEF Typed
  <2>6. dtbe'[a] = m.transfer /\ \A b \in Addr : b # a => dtbe'[b] = dtbe[b]
    BY <2>1, <2>4 DEF Typed
  <2>7. \A q \in Dmas, b \in Addr, j \in Kinds :
          /\ Requested(q, b, j)' => Requested(q, b, j) /\ ~(q = p /\ b = a)
          /\ AnsweredTo(q, b, j)' <=> AnsweredTo(q, b, j)
          /\ Served(q, b, j)' => \/ b # a /\ Served(q, b, j)
                                 \/ q = p /\ b = a /\ j = k
    <3>1. \A n \in dmaReqNet' : n \in dmaReqNet /\ ~(n.addr = a /\ n.transfer.dma = p)
      BY <2>3, <2>4 DEF DmaInv
    <3>2. \A q \in Dmas, b \in Addr, j \in Kinds :
            Requested(q, b, j)' => Requested(q, b, j) /\ ~(q = p /\ b = a)
      BY <3>1 DEF Requested
    <3>3. \A j \in Kinds : dstate'[a] \in ServingStates(j) => j = k
      BY <2>5, <1>KindsDiffer, SMT
    <3>4. ASSUME NEW q \in Dmas, NEW b \in Addr, NEW j \in Kinds, Served(q, b, j)'
          PROVE  (b # a /\ Served(q, b, j)) \/ (q = p /\ b = a /\ j = k)
      <4>1. CASE b = a
        BY <2>3, <2>6, <3>3, <3>4, <4>1 DEF Served
      <4>2. CASE b # a
        BY <2>5, <2>6, <3>4, <4>2 DEF Served
      <4> QED  BY <4>1, <4>2
    <3>5. \A q \in Dmas, b \in Addr, j \in Kinds :
            AnsweredTo(q, b, j)' <=> AnsweredTo(q, b, j)
      BY <2>4 DEF AnsweredTo
    <3> QED  BY <3>2, <3>4, <3>5
  <2>8. Requested(p, a, k)
    BY <2>3 DEF Requested
  <2>9. dma[p][a] = Busy(k) /\ ~AnsweredTo(p, a, k)
    BY <2>8 DEF DmaInv, DmaOnce
  <2>10. ASSUME NEW q \in Dmas, NEW b \in Addr, NEW j \in Kinds
         PROVE  DmaOnce(q, b, j)'
    <3>1. CASE q = p /\ b = a /\ j = k
      BY <2>4, <2>7, <2>9, <3>1 DEF DmaOnce
    <3>2. CASE ~(q = p /\ b = a /\ j = k)
      <4>1. DmaOnce(q, b, j)
        BY DEF DmaInv
      <4>2. /\ Requested(q, b, j)' => Requested(q, b, j)
            /\ AnsweredTo(q, b, j)' <=> AnsweredTo(q, b, j)
            /\ Served(q, b, j)' => Served(q, b, j)
        BY <2>7, <3>2
      <4> QED  BY <2>4, <4>1, <4>2 DEF DmaOnce
    <3> QED  BY <3>1, <3>2
  <2>11. DmaTyped'
    BY <2>1, <2>4, <2>5, <2>6 DEF DmaInv, DmaTyped
  <2> QED  BY <2>4, <2>10, <2>11 DEF DmaInv

(* The directory answers.                                                  *)
<1>DmaAnswered.
  ASSUME DmaInv, NEW a \in Addr, NEW k \in Kinds, NEW x \in DMAResponse,
         dstate[a] \in ServingStates(k),
         \A j \in Kinds : dstate'[a] \notin ServingStates(j),
         \A b \in Addr : b # a => dstate'[b] = dstate[b] /\ dtbe'[b] = dtbe[b],
         x.type = Answer(k), x.addr = a, x.dest = dtbe[a].dma,
         dmaRespNet' = dmaRespNet \union {x}, UNCHANGED <<dma, dmaReqNet>>
  PROVE  DmaInv'
  <2> USE <1>DmaAnswered
  <2>1. PICK p \in Dmas : p = x.dest
    BY ResponseFields
  <2>2. Served(p, a, k)
    BY <2>1 DEF Served
  <2>3. dma[p][a] = Busy(k) /\ ~Requested(p, a, k) /\ ~AnsweredTo(p, a, k)
    BY <2>2 DEF DmaInv, DmaOnce
  <2>4. \A j \in Kinds : ~AnsweredTo(p, a, j)
    <3>1. \A j \in Kinds : AnsweredTo(p, a, j) => dma[p][a] = Busy(j)
      BY DEF DmaInv, DmaOnce
    <3> QED  BY <2>3, <3>1, <1>KindsDiffer
  <2>5. \A q \in Dmas, b \in Addr, j \in Kinds :
          /\ Requested(q, b, j)' <=> Requested(q, b, j)
          /\ AnsweredTo(q, b, j)' => AnsweredTo(q, b, j) \/ (q = p /\ b = a /\ j = k)
          /\ Served(q, b, j)' => Served(q, b, j) /\ b # a
    <3>1. \A q \in Dmas, b \in Addr, j \in Kinds :
            Requested(q, b, j)' <=> Requested(q, b, j)
      BY DEF Requested
    <3>2. ASSUME NEW q \in Dmas, NEW b \in Addr, NEW j \in Kinds, AnsweredTo(q, b, j)'
          PROVE  AnsweredTo(q, b, j) \/ (q = p /\ b = a /\ j = k)
      <4>1. PICK n \in dmaRespNet' : n.type = Answer(j) /\ n.addr = b /\ n.dest = q
        BY <3>2 DEF AnsweredTo
      <4>2. CASE n \in dmaRespNet
        BY <4>1, <4>2 DEF AnsweredTo
      <4>3. CASE n \notin dmaRespNet
        <5>1. n = x
          BY <4>3
        <5>2. Answer(j) = Answer(k) /\ b = a /\ q = p
          BY <2>1, <4>1, <5>1
        <5> QED  BY <5>2, <1>KindsDiffer
      <4> QED  BY <4>2, <4>3
    <3>3. ASSUME NEW q \in Dmas, NEW b \in Addr, NEW j \in Kinds, Served(q, b, j)'
          PROVE  Served(q, b, j) /\ b # a
      <4>1. b # a
        BY <3>3 DEF Served
      <4> QED  BY <3>3, <4>1 DEF Served
    <3> QED  BY <3>1, <3>2, <3>3
  <2>6. ASSUME NEW q \in Dmas, NEW b \in Addr, NEW j \in Kinds
        PROVE  DmaOnce(q, b, j)'
    <3>1. CASE q = p /\ b = a /\ j = k
      BY <2>3, <2>5, <3>1 DEF DmaOnce
    <3>2. CASE ~(q = p /\ b = a /\ j = k)
      BY <2>5, <3>2, ZenonT(60) DEF DmaInv, DmaOnce
    <3> QED  BY <3>1, <3>2
  <2>7. DmaTyped'
    BY DEF DmaInv, DmaTyped
  <2>8. \A n \in dmaRespNet : ~(n.addr = a /\ n.dest = p)
    <3>1. \A n \in dmaRespNet : \E j \in Kinds : n.type = Answer(j)
      BY ResponseFields DEF DmaInv, DmaTyped
    <3> QED  BY <2>4, <3>1 DEF AnsweredTo
  <2>9. \A m, n \in dmaRespNet' : m.addr = n.addr /\ m.dest = n.dest => m = n
    <3> SUFFICES ASSUME NEW m \in dmaRespNet', NEW n \in dmaRespNet',
                        m.addr = n.addr, m.dest = n.dest
                 PROVE  m = n
      OBVIOUS
    <3>1. CASE m \in dmaRespNet /\ n \in dmaRespNet
      BY <3>1 DEF DmaInv
    <3>2. CASE ~(m \in dmaRespNet /\ n \in dmaRespNet)
      BY <2>1, <2>8, <3>2
    <3> QED  BY <3>1, <3>2
  <2> QED  BY <2>6, <2>7, <2>9 DEF DmaInv

(* The owner's writeback answers a DMA read, and no other request.         *)
<1>DirPUTXDma.
  ASSUME ControlInv, DmaInv, NEW m \in reqNet, DirPUTX(m)
  PROVE  DmaInv'
  <2> USE <1>DirPUTXDma
  <2>1. Typed /\ m.addr \in Addr /\ m.data \in Data
    BY RequestFields DEF ControlInv, Typed, DirPUTX
  <2>2. PICK a \in Addr : a = m.addr
    BY <2>1
  <2>3. PICK s : dstate' = [dstate EXCEPT ![a] = s] /\
                 s = (CASE dstate[a] = "M" -> "MI" [] dstate[a] = "M_DRD" -> "M_DRDI"
                        [] dstate[a] = "M_DWR" -> "M_DWRI")
    BY <2>2 DEF DirPUTX
  <2>4. dstate'[a] = s /\ \A b \in Addr : b # a => dstate'[b] = dstate[b]
    BY <2>1, <2>3 DEF Typed
  <2>5. dstate[a] \in {"M", "M_DRD", "M_DWR"} /\ UNCHANGED <<dtbe, dma, dmaReqNet>>
    BY <2>2 DEF DirPUTX
  <2>6. CASE dstate[a] = "M_DRD"
    <3>1. PICK x : x = [type |-> "DATA", addr |-> a, dest |-> dtbe[a].dma,
                        data |-> m.data]
      OBVIOUS
    <3>2. dmaRespNet' = dmaRespNet \union {x}
      BY <2>2, <2>6, <3>1 DEF DirPUTX
    <3>3. s = "M_DRDI"
      BY <2>3, <2>6, SMT
    <3>4. PICK k \in Kinds : k = "READ"
      BY DEF Kinds
    <3>5. /\ dstate[a] \in ServingStates(k)
          /\ \A j \in Kinds : dstate'[a] \notin ServingStates(j)
      BY <2>4, <2>6, <3>3, <3>4, SMT DEF ServingStates, Kinds
    <3>6. dtbe[a].dma \in Dmas
      BY <3>5 DEF DmaInv, DmaTyped, Transfer
    <3>7. x \in DMAResponse
      BY <2>1, <3>1, <3>6 DEF DMAResponse
    <3>8. x.type = Answer(k) /\ x.addr = a /\ x.dest = dtbe[a].dma
      BY <3>1, <3>4 DEF Answer
    <3> QED  BY <2>4, <2>5, <3>2, <3>5, <3>7, <3>8, <1>DmaAnswered
  <2>7. CASE dstate[a] # "M_DRD"
    <3>1. dmaRespNet' = dmaRespNet
      BY <2>2, <2>7 DEF DirPUTX
    <3>2. \A k \in Kinds : s \in ServingStates(k) => dstate[a] \in ServingStates(k)
      BY <2>3, <2>5, <2>7, SMT DEF ServingStates, Kinds
    <3>3. \A b \in Addr, k \in Kinds : dstate'[b] \in ServingStates(k) =>
            dstate[b] \in ServingStates(k) /\ dtbe'[b] = dtbe[b]
      BY <2>4, <2>5, <3>2
    <3> QED  BY <2>5, <3>1, <3>3, <1>IdleDma DEF dmaVars
  <2> QED  BY <2>6, <2>7

(* A response of the memory ends what the directory was doing, and answers *)
(* the request it was serving.                                             *)
<1>DirMemoryDataDma.
  ASSUME ControlInv, DmaInv, NEW m \in responseFromMemory, DirMemoryData(m)
  PROVE  DmaInv'
  <2> USE <1>DirMemoryDataDma
  <2>1. Typed /\ m.addr \in Addr /\ m.data \in Data
    BY MemoryFields DEF ControlInv, Typed, DirMemoryData
  <2>2. PICK a \in Addr : a = m.addr
    BY <2>1
  <2>3. /\ dtbe' = [dtbe EXCEPT ![a] = NoTransfer] /\ UNCHANGED <<dma, dmaReqNet>>
        /\ \A b \in Addr : b # a => dtbe'[b] = dtbe[b]
    BY <2>1, <2>2 DEF DirMemoryData, Typed
  <2>4. PICK s \in {"I", "M"} : dstate' = [dstate EXCEPT ![a] = s]
    BY <2>2 DEF DirMemoryData
  <2>5. dstate'[a] = s /\ \A b \in Addr : b # a => dstate'[b] = dstate[b]
    BY <2>1, <2>4 DEF Typed
  <2>6. \A j \in Kinds : dstate'[a] \notin ServingStates(j)
    BY <2>5, SMT DEF ServingStates, Kinds
  <2>7. CASE dstate[a] = "ID"
    <3>1. PICK x : x = [type |-> "DATA", addr |-> a, dest |-> dtbe[a].dma,
                        data |-> m.data]
      OBVIOUS
    <3>2. dmaRespNet' = dmaRespNet \union {x}
      BY <2>2, <2>7, <3>1, SMT DEF DirMemoryData
    <3>4. PICK k \in Kinds : k = "READ"
      BY DEF Kinds
    <3>5. dstate[a] \in ServingStates(k)
      BY <2>7, <3>4, SMT DEF ServingStates
    <3>6. dtbe[a].dma \in Dmas
      BY <3>5 DEF DmaInv, DmaTyped, Transfer
    <3>7. x \in DMAResponse
      BY <2>1, <3>1, <3>6 DEF DMAResponse
    <3>8. x.type = Answer(k) /\ x.addr = a /\ x.dest = dtbe[a].dma
      BY <3>1, <3>4 DEF Answer
    <3> QED  BY <2>3, <2>5, <2>6, <3>2, <3>5, <3>7, <3>8, <1>DmaAnswered
  <2>8. CASE dstate[a] # "ID"
    <3>1. dmaRespNet' = dmaRespNet
      BY <2>2, <2>8 DEF DirMemoryData
    <3>3. \A b \in Addr, k \in Kinds : dstate'[b] \in ServingStates(k) =>
            dstate[b] \in ServingStates(k) /\ dtbe'[b] = dtbe[b]
      BY <2>3, <2>5, <2>6
    <3> QED  BY <2>3, <3>1, <3>3, <1>IdleDma DEF dmaVars
  <2> QED  BY <2>7, <2>8

<1>DirMemoryAckDma.
  ASSUME ControlInv, DmaInv, NEW m \in responseFromMemory, DirMemoryAck(m)
  PROVE  DmaInv'
  <2> USE <1>DirMemoryAckDma
  <2>1. Typed /\ m.addr \in Addr
    BY MemoryFields DEF ControlInv, Typed
  <2>2. PICK a \in Addr : a = m.addr
    BY <2>1
  <2>3. /\ dtbe' = [dtbe EXCEPT ![a] = NoTransfer] /\ UNCHANGED <<dma, dmaReqNet>>
        /\ \A b \in Addr : b # a => dtbe'[b] = dtbe[b]
    BY <2>1, <2>2 DEF DirMemoryAck, Typed
  <2>4. dstate' = [dstate EXCEPT ![a] = "I"]
    BY <2>2 DEF DirMemoryAck
  <2>5. dstate'[a] = "I" /\ \A b \in Addr : b # a => dstate'[b] = dstate[b]
    BY <2>1, <2>4 DEF Typed
  <2>6. \A j \in Kinds : dstate'[a] \notin ServingStates(j)
    BY <2>5, SMT DEF ServingStates, Kinds
  <2>7. CASE dstate[a] \in {"ID_W", "M_DWRI"}
    <3>1. PICK x : x = [type |-> "ACK", addr |-> a, dest |-> dtbe[a].dma]
      OBVIOUS
    <3>2. dmaRespNet' = dmaRespNet \union {x}
      BY <2>2, <2>7, <3>1 DEF DirMemoryAck
    <3>3. PICK k \in Kinds : k = "WRITE"
      BY DEF Kinds
    <3>4. dstate[a] \in ServingStates(k)
      BY <2>7, <3>3, SMT DEF ServingStates
    <3>5. dtbe[a].dma \in Dmas
      BY <3>4 DEF DmaInv, DmaTyped, Transfer
    <3>6. x \in DMAResponse
      BY <3>1, <3>5 DEF DMAResponse
    <3>7. x.type = Answer(k) /\ x.addr = a /\ x.dest = dtbe[a].dma
      BY <3>1, <3>3, SMT DEF Answer
    <3> QED  BY <2>3, <2>5, <2>6, <3>2, <3>4, <3>6, <3>7, <1>DmaAnswered
  <2>8. CASE dstate[a] \notin {"ID_W", "M_DWRI"}
    <3>1. dmaRespNet' = dmaRespNet
      BY <2>2, <2>8 DEF DirMemoryAck
    <3>2. \A b \in Addr, k \in Kinds : dstate'[b] \in ServingStates(k) =>
            dstate[b] \in ServingStates(k) /\ dtbe'[b] = dtbe[b]
      BY <2>3, <2>5, <2>6
    <3> QED  BY <2>3, <3>1, <3>2, <1>IdleDma DEF dmaVars
  <2> QED  BY <2>7, <2>8

(* Steps of the caches and of memory are not steps of a DMA transfer.      *)
<1>QuietDma.
  ASSUME DmaInv, UNCHANGED <<dirVars, dmaVars>>
  PROVE  DmaInv'
  BY <1>QuietDma, <1>IdleDma DEF dirVars

<1> SUFFICES ASSUME ControlInv, DmaInv, [Next]_vars
             PROVE  DmaInv'
  OBVIOUS
<1>1. CASE UNCHANGED vars
  BY <1>1, <1>QuietDma DEF vars
<1>2. CASE Issue
  <2>1. ASSUME NEW c \in Caches, NEW type \in {"Load", "Store"}, NEW a \in Addr,
               MakeRequest(c, type, a)
        PROVE  DmaInv'
    BY <2>1, <1>QuietDma DEF MakeRequest
  <2>2. ASSUME NEW type \in {"READ", "WRITE"}, NEW a \in Addr, NEW t \in Transfer,
               DmaRequest(type, a, t)
        PROVE  DmaInv'
    BY <2>2, <1>DmaRequestDma DEF Kinds
  <2> QED  BY <1>2, <2>1, <2>2 DEF Issue
<1>3. CASE Protocol
  <2>1. ASSUME NEW c \in Caches, NEW a \in Addr,
               \/ LoadHit(c, a)
               \/ \E w \in 1..LineWords, v \in Values : StoreHit(c, a, w, v)
               \/ \E type \in {"Load", "Store"} : Miss(c, type, a)
               \/ Replacement(c, a)
        PROVE  DmaInv'
    <3>1. UNCHANGED <<dirVars, dmaVars>>
      BY <2>1 DEF LoadHit, StoreHit, Miss, Replacement
    <3> QED  BY <3>1, <1>QuietDma
  <2>2. ASSUME NEW c \in Caches, NEW d \in Dirs,
               \/ Stall(c, d) \/ FwdGETX(c, d) \/ Inv(c, d)
               \/ WritebackAck(c, d) \/ WritebackNack(c, d)
        PROVE  DmaInv'
    <3>1. UNCHANGED <<dirVars, dmaVars>>
      BY <2>2 DEF Stall, FwdGETX, Inv, WritebackAck, WritebackNack
    <3> QED  BY <3>1, <1>QuietDma
  <2>3. ASSUME NEW c \in Caches, NEW m \in dataNet, NEW w \in 1..LineWords,
               NEW v \in Values, CacheData(c, m, w, v)
        PROVE  DmaInv'
    BY <2>3, <1>QuietDma DEF CacheData
  <2>4. ASSUME NEW m \in reqNet, DirGETX(m)
        PROVE  DmaInv'
    <3>1. m.addr \in Addr /\ Typed
      BY RequestFields DEF ControlInv, Typed
    <3>2. UNCHANGED <<dmaVars, dtbe>> /\
          (\/ UNCHANGED dstate
           \/ dstate' = [dstate EXCEPT ![m.addr] = "IM"])
      BY <2>4 DEF DirGETX
    <3>3. \A k \in Kinds : "IM" \notin ServingStates(k)
      BY SMT DEF Kinds, ServingStates
    <3>4. \A b \in Addr, k \in Kinds : dstate'[b] \in ServingStates(k) =>
            dstate[b] \in ServingStates(k) /\ dtbe'[b] = dtbe[b]
      BY <3>1, <3>2, <3>3 DEF Typed
    <3> QED  BY <3>2, <3>4, <1>IdleDma
  <2>5. ASSUME NEW m \in reqNet, DirPUTXNotOwner(m)
        PROVE  DmaInv'
    BY <2>5, <1>QuietDma DEF DirPUTXNotOwner
  <2>6. ASSUME NEW r \in memReq, MemoryAccess(r)
        PROVE  DmaInv'
    BY <2>6, <1>QuietDma DEF MemoryAccess
  <2>7. CASE Panic
    BY <2>7, <1>QuietDma DEF Panic
  <2> QED
    BY <1>3, <2>1, <2>2, <2>3, <2>4, <2>5, <2>6, <2>7, <1>DirPUTXDma, <1>DirDMADma,
       <1>DirMemoryDataDma, <1>DirMemoryAckDma, <1>DmaResponseDma, ZenonT(30) DEF Protocol
<1> QED  BY <1>1, <1>2, <1>3 DEF Next

LEMMA DmaInit == Init => DmaInv
<1> SUFFICES ASSUME Init PROVE DmaInv
  OBVIOUS
<1>1. dmaReqNet = {} /\ dmaRespNet = {} /\ \A a \in Addr : dstate[a] = "I"
  BY DEF Init
<1>2. \A k \in Kinds : "I" \notin ServingStates(k)
  BY SMT DEF Kinds, ServingStates
<1>3. \A p \in Dmas, a \in Addr, k \in Kinds :
        ~Requested(p, a, k) /\ ~Served(p, a, k) /\ ~AnsweredTo(p, a, k)
  BY <1>1, <1>2 DEF Requested, Served, AnsweredTo
<1>4. DmaTyped
  BY <1>1, <1>2 DEF Init, DmaTyped
<1> QED  BY <1>1, <1>3, <1>4 DEF DmaInv, DmaOnce

-----------------------------------------------------------------------------
(* Whether there is a transition. *)

(* Every other event has its transition.                                   *)
LEMMA EventsDefined ==
  ControlInv /\ EventInv /\ DmaInv /\ ~EveryEventDefined => Unexpected

(* A cache has a transition for whatever the directory forwards to it.     *)
<1>ForwardsDefined.
  ASSUME ControlInv, EventInv, NEW c \in Caches, NEW d \in Dirs, Forwarded(c, d)
  PROVE  ForwardDefined(Head(fwdNet[d][c]), st[c][Head(fwdNet[d][c]).addr])
  <2> USE <1>ForwardsDefined
  <2>1. PICK m : m = Head(fwdNet[d][c])
    OBVIOUS
  <2>2. m \in ForwardMsg /\ m \in Elements(fwdNet[d][c])
    <3> DEFINE q == fwdNet[d][c]
    <3>1. q \in Seq(ForwardMsg) /\ q # <<>> /\ DistinctIn(q, Single)
      BY SMT DEF ControlInv, Typed, QueuesFormed, Forwarded
    <3> HIDE DEF q
    <3>2. Head(q) \in ForwardMsg /\ Head(q) \in Elements(q)
      BY <3>1, QueuePopIn
    <3> QED  BY <2>1, <3>2, ZenonT(60) DEF q
  <2>3. /\ Home[m.addr] = d
        /\ m.type = "GETX" => m.requestor \in Caches
        /\ m.type \in {"WB_ACK", "WB_NACK"} => m.requestor = c
    <3>1. QueuesFormed
      BY DEF ControlInv
    <3>2. \A x \in Elements(fwdNet[d][c]) :
            /\ Home[x.addr] = d
            /\ x.type = "GETX" => x.requestor \in Caches
            /\ x.type \in {"WB_ACK", "WB_NACK"} => x.requestor = c
      BY <3>1, Zenon DEF QueuesFormed
    <3> QED  BY <2>2, <3>2, Zenon
  <2>4. /\ m.type \in {"GETX", "WB_ACK", "WB_NACK", "INV"} /\ m.addr \in Addr
        /\ m.type = "GETX" => m = Getx(m.addr, m.requestor)
        /\ m.type = "WB_ACK" => m = Ack(m.addr, m.requestor)
        /\ m.type = "WB_NACK" => m = Nack(m.addr, m.requestor)
    BY <2>2, ForwardFields
  <2>5. PICK a \in Addr : a = m.addr
    BY <2>4
  <2>6. m \in Fwd(c, a)
    BY <2>2, <2>3, <2>5 DEF Fwd
  <2>7. LineInv(a) /\ PutInv(a) /\ PairInv(c, a) /\ st[c][a] \in L1State
    BY DEF ControlInv, AllInv, EventInv, Typed
  <2>8. CASE m.type = "GETX"
    <3>1. Passes(c, m.requestor, a) /\ m.requestor \in Caches
      BY <2>3, <2>4, <2>5, <2>6, <2>8 DEF Passes
    <3>2. st[c][a] \notin {"I", "II"}
      BY <2>7, <3>1 DEF LineInv, InLine
    <3> QED  BY <2>1, <2>5, <2>7, <2>8, <3>2 DEF ForwardDefined, L1State
  <2>9. CASE m.type = "INV"
    <3>1. Reason(c, a)
      BY <2>5, <2>6, <2>7, <2>9 DEF Recalled, PairInv
    <3>2. CASE Recalling(c, a)
      <4>1. Owns(c, a)
        BY <3>2, SMT DEF Recalling, Owns, Owned
      <4>2. st[c][a] # "MII" /\ st[c][a] # "II"
        BY <2>7, <4>1 DEF LineInv, PairInv, InLine
      <4> QED  BY <2>1, <2>5, <2>7, <2>9, <4>2, ZenonT(60) DEF ForwardDefined, L1State
    <3>3. CASE Returned(c, a) \/ Acked(c, a)
      <4>1. st[c][a] \in {"MI", "II"} /\ st[c][a] # "II"
        BY <2>7, <3>3 DEF PutInv, PairInv
      <4> QED  BY <2>1, <2>5, <2>9, <4>1 DEF ForwardDefined
    <3> QED  BY <3>1, <3>2, <3>3 DEF Reason
  <2>10. CASE m.type = "WB_ACK"
    <3>1. Acked(c, a)
      BY <2>3, <2>4, <2>5, <2>6, <2>10 DEF Acked
    <3>2. st[c][a] \in {"MI", "II"} /\ st[c][a] # "II"
      BY <2>7, <3>1 DEF PutInv, PairInv
    <3> QED  BY <2>1, <2>5, <2>10, <3>2 DEF ForwardDefined
  <2>11. CASE m.type = "WB_NACK"
    <3>1. Nacked(c, a)
      BY <2>3, <2>4, <2>5, <2>6, <2>11 DEF Nacked
    <3>2. st[c][a] \in {"MI", "II"}
      BY <2>7, <3>1 DEF PutInv
    <3> QED  BY <2>1, <2>5, <2>11, <3>2 DEF ForwardDefined
  <2> QED  BY <2>4, <2>8, <2>9, <2>10, <2>11

(* The directory has one for each writeback but those above.               *)
<1>RequestsDefined.
  ASSUME ControlInv, EventInv, NEW m \in reqNet, ~RequestDefined(m)
  PROVE  Unexpected
  <2> USE <1>RequestsDefined
  <2>1. m.type \in {"GETX", "PUTX"} /\ m.addr \in Addr /\ dstate[m.addr] \in DirState
    BY RequestFields DEF ControlInv, Typed
  <2>2. PICK a \in Addr : a = m.addr
    BY <2>1
  <2>3. m.type = "PUTX"
    BY <2>1 DEF RequestDefined
  <2>4. CASE IsOwner(m)
    <3>1. dstate[a] \notin Owned \union {"IM"}
      BY <2>2, <2>4, Zenon DEF RequestDefined, Recycling, Owned
    <3>2. m.requestor \in owner[a] /\ owner[a] = {}
      BY <2>2, <2>4, <3>1 DEF IsOwner, EventInv, Unowned
    <3> QED  BY <3>2
  <2>5. CASE ~IsOwner(m)
    <3>1. dstate[a] \in {"M_DRD", "M_DWR", "M_DRDI", "M_DWRI"}
      BY <2>1, <2>2, <2>5, Zenon DEF RequestDefined, Recycling, DirState
    <3> QED  BY <2>2, <2>3, <2>5, <3>1 DEF Unexpected
  <2> QED  BY <2>4, <2>5

<1> SUFFICES ASSUME ControlInv, EventInv, DmaInv, ~EveryEventDefined
             PROVE  Unexpected
  OBVIOUS
<1>1. \A m \in dataNet : st[m.dest][m.addr] \in {"IS", "IM"}
  <2>1. \A m \in dataNet : m.addr \in Addr /\ m.dest \in Caches
    BY DEF ControlInv, Typed, DataMsg
  <2> QED  BY <2>1 DEF ControlInv, AllInv, LineInv, Sent, Awaiting
<1>2. \A m \in responseFromMemory : MemoryDefined(m)
  <2> SUFFICES ASSUME NEW m \in responseFromMemory PROVE MemoryDefined(m)
    OBVIOUS
  <2>1. m.addr \in Addr /\ m.type \in {"MEMORY_READ", "MEMORY_WB"}
    BY DEF ControlInv, Typed, MemoryMsg
  <2>2. IF m.type \in {"READ", "MEMORY_READ"}
        THEN dstate[m.addr] \in {"IM", "ID"}
        ELSE dstate[m.addr] \in Returning \union {"ID_W"}
    BY <2>1 DEF ControlInv, AllInv, MemoryInv
  <2> QED  BY <2>1, <2>2, SMT DEF MemoryDefined, Returning
<1>3. \A m \in dmaRespNet :
        dma[m.dest][m.addr] = IF m.type = "DATA" THEN "BUSY_RD" ELSE "BUSY_WR"
  <2> SUFFICES ASSUME NEW m \in dmaRespNet
               PROVE  dma[m.dest][m.addr] =
                        IF m.type = "DATA" THEN "BUSY_RD" ELSE "BUSY_WR"
    OBVIOUS
  <2>1. m.addr \in Addr /\ m.dest \in Dmas /\ \E k \in Kinds : m.type = Answer(k)
    BY ResponseFields DEF DmaInv, DmaTyped
  <2>2. PICK k \in Kinds : m.type = Answer(k)
    BY <2>1
  <2>3. AnsweredTo(m.dest, m.addr, k)
    BY <2>2 DEF AnsweredTo
  <2>4. dma[m.dest][m.addr] = Busy(k)
    BY <2>1, <2>3 DEF DmaInv, DmaOnce
  <2> QED  BY <2>2, <2>4, SMT DEF Answer, Busy
<1>4. ASSUME NEW m \in dmaReqNet, dstate[m.addr] \notin {"I", "M"} \union Recycling
      PROVE  Unexpected
  <2>1. m.addr \in Addr /\ dstate[m.addr] \in DirState
    BY DEF ControlInv, Typed, DMARequest
  <2>2. dstate[m.addr] \in {"M_DRD", "M_DWR", "M_DRDI", "M_DWRI"}
    BY <1>4, <2>1, SMT DEF Recycling, DirState
  <2> QED  BY <2>1, <2>2 DEF Unexpected
<1> QED
  BY <1>1, <1>2, <1>3, <1>4, <1>ForwardsDefined, <1>RequestsDefined
     DEF EveryEventDefined

(* Only Panic stops the simulation.                                        *)
LEMMA PanicsOnly ==
  ASSUME Next, ~Panic
  PROVE  UNCHANGED panicked
<1>1. CASE Issue
  BY <1>1 DEF Issue, MakeRequest, DmaRequest
<1>2. CASE Protocol
  <2>1. ASSUME NEW c \in Caches, NEW a \in Addr,
               \/ LoadHit(c, a)
               \/ \E w \in 1..LineWords, v \in Values : StoreHit(c, a, w, v)
               \/ \E type \in {"Load", "Store"} : Miss(c, type, a)
               \/ Replacement(c, a)
        PROVE  UNCHANGED panicked
    BY <2>1 DEF LoadHit, StoreHit, Miss, Replacement
  <2>2. ASSUME NEW c \in Caches, NEW d \in Dirs,
               \/ Stall(c, d) \/ FwdGETX(c, d) \/ Inv(c, d)
               \/ WritebackAck(c, d) \/ WritebackNack(c, d)
        PROVE  UNCHANGED panicked
    BY <2>2 DEF Stall, FwdGETX, Inv, WritebackAck, WritebackNack
  <2>3. ASSUME NEW m, \/ \E c \in Caches, w \in 1..LineWords, v \in Values :
                           CacheData(c, m, w, v)
                      \/ DirGETX(m) \/ DirPUTX(m) \/ DirPUTXNotOwner(m) \/ DirDMA(m)
                      \/ DirMemoryData(m) \/ DirMemoryAck(m) \/ MemoryAccess(m)
                      \/ DmaResponse(m)
        PROVE  UNCHANGED panicked
    BY <2>3 DEF CacheData, DirGETX, DirPUTX, DirPUTXNotOwner, DirDMA,
                       DirMemoryData, DirMemoryAck, MemoryAccess, DmaResponse
  <2> QED  BY <1>2, <2>1, <2>2, <2>3, ZenonT(30) DEF Protocol
<1> QED  BY <1>1, <1>2 DEF Next

(* The generated controllers meet no event without a transition, for any   *)
(* number of caches, directories, DMA controllers and lines, except while  *)
(* a directory serves a DMA request for a line that a cache had: another   *)
(* DMA request for it, or the writeback of a cache that passed it on.      *)
THEOREM MIInvalidOnlyDuringDma == Spec => []InvalidOnlyDuringDma
<1> DEFINE I == ControlInv /\ EventInv /\ DmaInv /\ InvalidOnlyDuringDma
<1>1. Init => I
  BY ControlInit, EventInit, DmaInit DEF Init, InvalidOnlyDuringDma
<1>2. I /\ [Next]_vars => I'
  <2> SUFFICES ASSUME I, [Next]_vars PROVE I'
    OBVIOUS
  <2>1. ControlInv' /\ EventInv' /\ DmaInv'
    BY ControlStep, EventStep, DmaStep
  <2>2. InvalidOnlyDuringDma'
    <3>1. CASE UNCHANGED vars
      BY <3>1
         DEF vars, InvalidOnlyDuringDma, Unexpected, IsOwner, dirVars, dmaVars
    <3>2. CASE Next
      <4>1. ~panicked
        BY <3>2 DEF Next
      <4>2. CASE Panic
        <5>1. Unexpected
          BY <4>2, EventsDefined DEF Panic
        <5>2. UNCHANGED <<dstate, owner, dmaReqNet, reqNet>>
          BY <4>2 DEF Panic, dirVars, dmaVars
        <5>3. Unexpected'
          BY <5>1, <5>2 DEF Unexpected, IsOwner
        <5> QED  BY <5>3 DEF InvalidOnlyDuringDma
      <4>3. CASE ~Panic
        <5>1. UNCHANGED panicked
          BY <3>2, <4>3, PanicsOnly
        <5> QED  BY <4>1, <5>1 DEF InvalidOnlyDuringDma
      <4> QED  BY <4>2, <4>3
    <3> QED  BY <3>1, <3>2
  <2> QED  BY <2>1, <2>2
<1>3. I => InvalidOnlyDuringDma
  OBVIOUS
<1> QED  BY <1>1, <1>2, <1>3, PTL DEF Spec

\* Without DMA a directory is in one of the states of the coherence protocol.
NoDma == \A a \in Addr : dstate[a] \in {"I", "M", "IM", "MI"}

(* Every step of a system without DMA controllers keeps it so.             *)
LEMMA NoDmaStep ==
  ASSUME Dmas = {}, ControlInv, NoDma, [Next]_vars
  PROVE  NoDma'
<1> DEFINE S == {"I", "M", "IM", "MI"}
<1> USE DEF NoDma
<1>1. Typed /\ dmaReqNet = {}
  BY DEF ControlInv, Typed, DMARequest, Transfer
<1>2. ASSUME NEW a \in Addr, NEW s \in S, dstate' = [dstate EXCEPT ![a] = s]
      PROVE  NoDma'
  BY <1>1, <1>2 DEF Typed
<1>3. ASSUME NEW m \in reqNet, DirGETX(m) PROVE NoDma'
  <2>1. m.addr \in Addr
    BY <1>1, RequestFields DEF Typed
  <2>2. UNCHANGED dstate \/ dstate' = [dstate EXCEPT ![m.addr] = "IM"]
    BY <1>3 DEF DirGETX
  <2> QED  BY <1>2, <2>1, <2>2
<1>4. ASSUME NEW m \in reqNet, DirPUTX(m) PROVE NoDma'
  <2>1. m.addr \in Addr
    BY <1>1, RequestFields DEF Typed
  <2>2. PICK s : /\ dstate' = [dstate EXCEPT ![m.addr] = s]
                 /\ s = (CASE dstate[m.addr] = "M" -> "MI"
                           [] dstate[m.addr] = "M_DRD" -> "M_DRDI"
                           [] dstate[m.addr] = "M_DWR" -> "M_DWRI")
    BY <1>4 DEF DirPUTX
  <2>3. dstate[m.addr] \in S /\ dstate[m.addr] \in {"M", "M_DRD", "M_DWR"}
    BY <1>4, <2>1 DEF DirPUTX
  <2>4. s = "MI"
    BY <2>2, <2>3, SMT
  <2> QED  BY <1>2, <2>1, <2>2, <2>4
<1>5. ASSUME NEW m \in responseFromMemory, DirMemoryData(m) \/ DirMemoryAck(m)
      PROVE  NoDma'
  <2>1. m.addr \in Addr
    BY <1>1, MemoryFields DEF Typed
  <2>2. PICK s \in S : dstate' = [dstate EXCEPT ![m.addr] = s]
    BY <1>5 DEF DirMemoryData, DirMemoryAck
  <2> QED  BY <1>2, <2>1, <2>2
<1>6. CASE UNCHANGED vars
  BY <1>6 DEF vars, dirVars
<1>7. CASE Issue
  BY <1>7 DEF Issue, MakeRequest, DmaRequest, dirVars
<1>8. CASE Protocol
  <2>1. ASSUME UNCHANGED dirVars PROVE NoDma'
    BY <2>1 DEF dirVars
  <2> QED
    BY <1>1, <1>3, <1>4, <1>5, <1>8, <2>1, ZenonT(60)
       DEF Protocol, LoadHit, StoreHit, Miss, Replacement, Stall, FwdGETX, Inv,
           WritebackAck, WritebackNack, CacheData, DirPUTXNotOwner,
           MemoryAccess, DmaResponse, Panic
<1> QED  BY <1>6, <1>7, <1>8 DEF Next

(* Without DMA controllers MI_example is complete: its caches and          *)
(* directories have a transition for every event they meet, whatever their *)
(* number and the order in which the networks deliver.                     *)
THEOREM MINoInvalidTransition ==
  ASSUME Dmas = {}
  PROVE  Spec => []NoInvalidTransition
<1>1. Init => ControlInv /\ NoDma
  BY ControlInit DEF Init, NoDma
<1>2. ControlInv /\ NoDma /\ [Next]_vars => (ControlInv /\ NoDma)'
  BY ControlStep, NoDmaStep
<1>3. NoDma /\ InvalidOnlyDuringDma => NoInvalidTransition
  BY SMT DEF NoDma, InvalidOnlyDuringDma, Unexpected, NoInvalidTransition
<1> QED  BY <1>1, <1>2, <1>3, MIInvalidOnlyDuringDma, PTL DEF Spec
=============================================================================
