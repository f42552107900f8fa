------------------------------ MODULE MIExample ------------------------------
(***************************************************************************)
(* The MI_example coherence protocol of Ruby: the L1 cache, directory and  *)
(* DMA controllers of src/src/mem/protocol/MI_example-{cache,dir,dma}.sm,  *)
(* the sequencers that feed them and the memory behind the directories.    *)
(*                                                                         *)
(* Every virtual network is ordered between two controllers                *)
(* (configs/ruby/MI_example.py).  Only on the forward network (vnet 3) can *)
(* two messages for one line be under way to one controller, and only      *)
(* there does a stalled message hold back the others, so the forward       *)
(* network is a queue for each pair and the other networks are sets.       *)
(***************************************************************************)
EXTENDS Integers, Sequences, FiniteSets

CONSTANTS Caches, Dmas, Dirs, Addr,
          Home,            \* mapAddressToMachine: the directory of a line
          Accesses,        \* <<controller, operation, line>>: the workload
          CacheEntries,    \* entries of a cache (one set)
          MaxOutstanding,  \* max_outstanding_requests of a sequencer
          LineWords,       \* words of a line
          Values           \* what a word can hold

ASSUME MIAssumption == /\ Home \in [Addr -> Dirs]
                       /\ CacheEntries \in Nat \ {0}
                       /\ MaxOutstanding \in Nat \ {0}
                       /\ LineWords \in Nat \ {0}
                       /\ Values # {}

VARIABLES
  mandatory,  \* mandatoryQueue of each L1 controller
  st,         \* getState of a line in an L1
  entry,      \* lines with a cache entry in an L1
  blk,        \* DataBlk of the entry, or of the TBE once the entry is gone;
              \* EmptyBlock when the line has neither, or gave its data away
  dstate, owner, dtbe,          \* the directories, by line
  mem, memReq, responseFromMemory,
  reqNet, fwdNet, dataNet,      \* vnets 2, 3 and 4
  stalled,    \* directory whose forwarded message blocks forwardToCache
  dma, dmaReqNet, dmaRespNet,   \* DMA controllers, vnets 0 and 1
  panicked,   \* a controller met "Invalid transition"
  latest      \* history: the last value written to each line

l1Vars  == <<mandatory, st, entry, blk>>
dirVars == <<dstate, owner, dtbe>>
memVars == <<mem, memReq, responseFromMemory>>
fwdVars == <<fwdNet, stalled>>
dmaVars == <<dma, dmaReqNet, dmaRespNet>>
vars == <<l1Vars, dirVars, memVars, reqNet, fwdVars, dataNet, dmaVars,
          panicked, latest>>

Data == [1..LineWords -> Values]
\* A new DataBlock, and the initial memory.
EmptyBlock == [w \in 1..LineWords |-> CHOOSE v \in Values : TRUE]
L1State == {"I", "II", "M", "MI", "MII", "IS", "IM"}
DirState == {"I", "M", "M_DRD", "M_DWR", "M_DWRI", "M_DRDI",
             "IM", "MI", "ID", "ID_W"}

\* A DMA transfer covers len words of its line from offset on.
Transfer == {t \in [dma : Dmas, offset : 0..(LineWords - 1),
                    len : 1..LineWords, data : Data] :
               t.offset + t.len <= LineWords}

RequestMsg  == [type : {"GETX"}, addr : Addr, requestor : Caches]
  \union [type : {"PUTX"}, addr : Addr, requestor : Caches, data : Data]
ForwardMsg  == [type : {"GETX", "WB_ACK", "WB_NACK", "INV"}, addr : Addr,
                requestor : Caches \union Dirs]
DataMsg     == [dest : Caches, addr : Addr, data : Data]
DMARequest  == [type : {"READ", "WRITE"}, addr : Addr, transfer : Transfer]
DMAResponse == [type : {"DATA"}, addr : Addr, dest : Dmas, data : Data]
  \union [type : {"ACK"}, addr : Addr, dest : Dmas]
MemoryReq   == [type : {"READ"}, addr : Addr, requestor : Caches \union Dmas]
  \union [type : {"WRITE"}, addr : Addr, requestor : Caches, data : Data]
  \union [type : {"PARTIAL"}, addr : Addr, requestor : Caches \union Dmas,
          transfer : Transfer]
MemoryMsg   == [type : {"MEMORY_READ"}, addr : Addr,
                requestor : Caches \union Dmas, data : Data]
  \union [type : {"MEMORY_WB"}, addr : Addr, requestor : Caches \union Dmas]

\* The TBE of a directory that does not stand for a DMA transfer.
NoTransfer == <<>>

\* Every variable ranges over its type.
TypeOK ==
  /\ mandatory \in [Caches -> Seq([type : {"Load", "Store"}, addr : Addr])]
  /\ st \in [Caches -> [Addr -> L1State]]
  /\ entry \in [Caches -> SUBSET Addr]
  /\ blk \in [Caches -> [Addr -> Data]]
  /\ dstate \in [Addr -> DirState]
  /\ owner \in [Addr -> SUBSET Caches]
  /\ dtbe \in [Addr -> Transfer \union {NoTransfer}]
  /\ mem \in [Addr -> Data]
  /\ memReq \subseteq MemoryReq
  /\ responseFromMemory \subseteq MemoryMsg
  /\ reqNet \subseteq RequestMsg
  /\ fwdNet \in [Dirs -> [Caches -> Seq(ForwardMsg)]]
  /\ stalled \in [Caches -> SUBSET Dirs]
  /\ dataNet \subseteq DataMsg
  /\ dma \in [Dmas -> [Addr -> {"READY", "BUSY_RD", "BUSY_WR"}]]
  /\ dmaReqNet \subseteq DMARequest
  /\ dmaRespNet \subseteq DMAResponse
  /\ panicked \in BOOLEAN
  /\ latest \in [Addr -> Data]

Init ==
  /\ mandatory = [c \in Caches |-> <<>>]
  /\ st = [c \in Caches |-> [a \in Addr |-> "I"]]
  /\ entry = [c \in Caches |-> {}]
  /\ mem = [a \in Addr |-> EmptyBlock]
  /\ blk = [c \in Caches |-> [a \in Addr |-> EmptyBlock]]
  /\ latest = mem
  /\ dstate = [a \in Addr |-> "I"]
  /\ owner = [a \in Addr |-> {}]
  /\ dtbe = [a \in Addr |-> NoTransfer]
  /\ memReq = {} /\ responseFromMemory = {}
  /\ reqNet = {} /\ dataNet = {}
  /\ fwdNet = [d \in Dirs |-> [c \in Caches |-> <<>>]]
  /\ stalled = [c \in Caches |-> {}]
  /\ dma = [p \in Dmas |-> [a \in Addr |-> "READY"]]
  /\ dmaReqNet = {} /\ dmaRespNet = {}
  /\ panicked = FALSE

------------------------------------------------------------------------------
(* The L1 cache controller. *)

\* Lines a sequencer has a request for: still queued, or missed and waiting.
Outstanding(c) == {mandatory[c][i].addr : i \in DOMAIN mandatory[c]}
                  \union {a \in Addr : st[c][a] \in {"IS", "IM"}}

\* Sequencer::makeRequest.  A second request for a line is Aliased, and one
\* past the limit is refused.
MakeRequest(c, type, a) ==
  /\ <<c, type, a>> \in Accesses
  /\ a \notin Outstanding(c)
  /\ Cardinality(Outstanding(c)) < MaxOutstanding
  /\ mandatory' = [mandatory EXCEPT ![c] = Append(@, [type |-> type, addr |-> a])]
  /\ UNCHANGED <<st, entry, blk, dirVars, memVars, reqNet, fwdVars, dataNet,
                 dmaVars, panicked, latest>>

\* Event Load, Ifetch or Store at the head of mandatoryQueue_in.
MandatoryHead(c, type, a) ==
  /\ mandatory[c] # <<>>
  /\ Head(mandatory[c]) = [type |-> type, addr |-> a]

\* transition(M, {Load, Ifetch})
LoadHit(c, a) ==
  /\ MandatoryHead(c, "Load", a)
  /\ st[c][a] = "M"
  /\ mandatory' = [mandatory EXCEPT ![c] = Tail(@)]
  /\ UNCHANGED <<st, entry, blk, dirVars, memVars, reqNet, fwdVars, dataNet,
                 dmaVars, panicked, latest>>

\* writeCallback: the store of v is merged into word w of the line.
StoreWord(c, a, line, w, v) ==
  LET new == [line EXCEPT ![w] = v]
  IN  /\ blk' = [blk EXCEPT ![c][a] = new]
      /\ latest' = [latest EXCEPT ![a][w] = v]

\* transition(M, Store)
StoreHit(c, a, w, v) ==
  /\ MandatoryHead(c, "Store", a)
  /\ st[c][a] = "M"
  /\ StoreWord(c, a, blk[c][a], w, v)
  /\ mandatory' = [mandatory EXCEPT ![c] = Tail(@)]
  /\ UNCHANGED <<st, entry, dirVars, memVars, reqNet, fwdVars, dataNet,
                 dmaVars, panicked>>

\* transition(I, Store, IM) and transition(I, {Load, Ifetch}, IS), when the
\* line has an entry or there is room for one.
Miss(c, type, a) ==
  /\ MandatoryHead(c, type, a)
  /\ st[c][a] = "I"
  /\ a \in entry[c] \/ Cardinality(entry[c]) < CacheEntries
  /\ st' = [st EXCEPT ![c][a] = IF type = "Load" THEN "IS" ELSE "IM"]
  /\ entry' = [entry EXCEPT ![c] = @ \union {a}]
  /\ reqNet' = reqNet \union {[type |-> "GETX", addr |-> a, requestor |-> c]}
  /\ mandatory' = [mandatory EXCEPT ![c] = Tail(@)]
  /\ UNCHANGED <<blk, dirVars, memVars, fwdVars, dataNet, dmaVars, panicked, latest>>

Mut_IssuePUT(c, a) ==
  /\ st' = [st EXCEPT ![c][a] = "MI"]
  /\ entry' = [entry EXCEPT ![c] = @ \ {a}]
  /\ reqNet' = reqNet \union {[type |-> "PUTX", addr |-> a, requestor |-> c,
                               data |-> EmptyBlock]}
  /\ UNCHANGED <<mandatory, blk>>

\* b_issuePUT; the entry goes and its data stays in the TBE.
IssuePUT(c, a) ==
  /\ st' = [st EXCEPT ![c][a] = "MI"]
  /\ entry' = [entry EXCEPT ![c] = @ \ {a}]
  /\ reqNet' = reqNet \union {[type |-> "PUTX", addr |-> a, requestor |-> c,
                               data |-> blk[c][a]]}
  /\ UNCHANGED <<mandatory, blk>>

\* Event Replacement for the victim cacheProbe picks: the request at the head
\* has no entry and there is no room.  The request stays at the head.
Replacement(c, victim) ==
  /\ mandatory[c] # <<>>
  /\ Head(mandatory[c]).addr \notin entry[c]
  /\ Cardinality(entry[c]) = CacheEntries
  /\ victim \in entry[c]
  /\ \/ /\ st[c][victim] = "M"
        /\ IssuePUT(c, victim)
     \/ /\ st[c][victim] = "I"
        /\ entry' = [entry EXCEPT ![c] = @ \ {victim}]
        /\ UNCHANGED <<st, blk, mandatory, reqNet>>
  /\ UNCHANGED <<dirVars, memVars, fwdVars, dataNet, dmaVars, panicked, latest>>

\* The message of directory d at the head of forwardToCache.  A stalled
\* message of another directory keeps the head.
Forwarded(c, d) == /\ fwdNet[d][c] # <<>>
                   /\ stalled[c] \subseteq {d}

\* o_popForwardedRequestQueue
PopForward(c, d) ==
  /\ fwdNet' = [fwdNet EXCEPT ![d][c] = Tail(@)]
  /\ stalled' = [stalled EXCEPT ![c] = {}]

\* transition({IS, IM}, {Fwd_GETX, Inv}): z_stall leaves the message at the
\* head, and nothing behind it is seen until it goes.
Stall(c, d) ==
  /\ Forwarded(c, d)
  /\ stalled[c] = {}
  /\ Head(fwdNet[d][c]).type \in {"GETX", "INV"}
  /\ st[c][Head(fwdNet[d][c]).addr] \in {"IS", "IM"}
  /\ stalled' = [stalled EXCEPT ![c] = {d}]
  /\ UNCHANGED <<l1Vars, dirVars, memVars, reqNet, fwdNet, dataNet, dmaVars,
                 panicked, latest>>

\* transition(M, Fwd_GETX, I), transition(MI, Fwd_GETX, II) and
\* transition(MII, Fwd_GETX, I).  From M the entry stays, in state I.
FwdGETX(c, d) ==
  LET m == Head(fwdNet[d][c])
  IN  /\ Forwarded(c, d)
      /\ m.type = "GETX"
      /\ st[c][m.addr] \in {"M", "MI", "MII"}
      /\ st' = [st EXCEPT ![c][m.addr] = IF @ = "MI" THEN "II" ELSE "I"]
      /\ dataNet' = dataNet \union {[dest |-> m.requestor, addr |-> m.addr,
                                     data |-> blk[c][m.addr]]}
      /\ blk' = [blk EXCEPT ![c][m.addr] = EmptyBlock]
      /\ PopForward(c, d)
      /\ UNCHANGED <<mandatory, entry, dirVars, memVars, reqNet, dmaVars,
                     panicked, latest>>

\* transition(M, {Replacement,Inv}, MI), which does not pop the message, and
\* transition(MI, Inv) and transition(I, Inv), which do.
Inv(c, d) ==
  LET m == Head(fwdNet[d][c])
  IN  /\ Forwarded(c, d)
      /\ m.type = "INV"
      /\ \/ /\ st[c][m.addr] = "M"
            /\ IssuePUT(c, m.addr)
            /\ UNCHANGED fwdVars
         \/ /\ st[c][m.addr] \in {"I", "MI"}
            /\ PopForward(c, d)
            /\ UNCHANGED <<l1Vars, reqNet>>
      /\ UNCHANGED <<dirVars, memVars, dataNet, dmaVars, panicked, latest>>

\* transition(MI, Writeback_Ack, I)
WritebackAck(c, d) ==
  LET m == Head(fwdNet[d][c])
  IN  /\ Forwarded(c, d)
      /\ m.type = "WB_ACK"
      /\ st[c][m.addr] = "MI"
      /\ st' = [st EXCEPT ![c][m.addr] = "I"]
      /\ blk' = [blk EXCEPT ![c][m.addr] = EmptyBlock]
      /\ PopForward(c, d)
      /\ UNCHANGED <<mandatory, entry, dirVars, memVars, reqNet, dataNet,
                     dmaVars, panicked, latest>>

\* transition(MI, Writeback_Nack, MII) and transition(II, Writeback_Nack, I)
WritebackNack(c, d) ==
  LET m == Head(fwdNet[d][c])
  IN  /\ Forwarded(c, d)
      /\ m.type = "WB_NACK"
      /\ st[c][m.addr] \in {"MI", "II"}
      /\ st' = [st EXCEPT ![c][m.addr] = IF @ = "MI" THEN "MII" ELSE "I"]
      /\ PopForward(c, d)
      /\ UNCHANGED <<mandatory, entry, blk, dirVars, memVars, reqNet, dataNet,
                     dmaVars, panicked, latest>>

\* transition(IS, Data, M) and transition(IM, Data, M): the waiting load or
\* store completes with the data that came.
CacheData(c, m, w, v) ==
  /\ m \in dataNet
  /\ m.dest = c
  /\ st[c][m.addr] \in {"IS", "IM"}
  /\ st' = [st EXCEPT ![c][m.addr] = "M"]
  /\ IF st[c][m.addr] = "IM"
     THEN StoreWord(c, m.addr, m.data, w, v)
     ELSE /\ blk' = [blk EXCEPT ![c][m.addr] = m.data]
          /\ UNCHANGED latest
  /\ dataNet' = dataNet \ {m}
  /\ UNCHANGED <<mandatory, entry, dirVars, memVars, reqNet, fwdVars, dmaVars,
                 panicked>>

------------------------------------------------------------------------------
(* The directory controller.  A request in a state that recycles it stays  *)
(* in its network and is looked at again.                                  *)

\* Forward the message to every cache in destinations.
Forward(a, destinations, type, requestor) ==
  fwdNet' = [fwdNet EXCEPT ![Home[a]] = [c \in Caches |->
               IF c \in destinations
               THEN Append(@[c], [type |-> type, addr |-> a, requestor |-> requestor])
               ELSE @[c]]]

\* transition(I, GETX, IM) and transition(M, GETX, M)
DirGETX(m) ==
  /\ m \in reqNet
  /\ m.type = "GETX"
  /\ \/ /\ dstate[m.addr] = "I"
        /\ dstate' = [dstate EXCEPT ![m.addr] = "IM"]
        /\ memReq' = memReq \union {[type |-> "READ", addr |-> m.addr,
                                     requestor |-> m.requestor]}
        /\ UNCHANGED fwdNet
     \/ /\ dstate[m.addr] = "M"
        /\ Forward(m.addr, owner[m.addr], "GETX", m.requestor)
        /\ UNCHANGED <<dstate, memReq>>
  /\ owner' = [owner EXCEPT ![m.addr] = {m.requestor}]
  /\ reqNet' = reqNet \ {m}
  /\ UNCHANGED <<l1Vars, dtbe, mem, responseFromMemory, stalled, dataNet,
                 dmaVars, panicked, latest>>

Mut_IsOwner(m) == TRUE

\* requestQueue_in: a PUTX of anyone but the owner is PUTX_NotOwner.
IsOwner(m) == m.requestor \in owner[m.addr]

\* transition(M, PUTX, MI), transition(M_DRD, PUTX, M_DRDI) and
\* transition(M_DWR, PUTX, M_DWRI).  For a DMA read the data also goes to the
\* DMA controller; for a DMA write only the words of the TBE go to memory.
DirPUTX(m) ==
  /\ m \in reqNet
  /\ m.type = "PUTX"
  /\ IsOwner(m)
  /\ dstate[m.addr] \in {"M", "M_DRD", "M_DWR"}
  /\ dstate' = [dstate EXCEPT ![m.addr] =
                  CASE @ = "M" -> "MI" [] @ = "M_DRD" -> "M_DRDI"
                    [] @ = "M_DWR" -> "M_DWRI"]
  /\ owner' = [owner EXCEPT ![m.addr] = {}]
  /\ memReq' = memReq \union
       {IF dstate[m.addr] = "M_DWR"
        THEN [type |-> "PARTIAL", addr |-> m.addr, requestor |-> m.requestor,
              transfer |-> dtbe[m.addr]]
        ELSE [type |-> "WRITE", addr |-> m.addr, requestor |-> m.requestor,
              data |-> m.data]}
  /\ dmaRespNet' = IF dstate[m.addr] = "M_DRD"
                   THEN dmaRespNet \union
                          {[type |-> "DATA", addr |-> m.addr,
                            dest |-> dtbe[m.addr].dma, data |-> m.data]}
                   ELSE dmaRespNet
  /\ reqNet' = reqNet \ {m}
  /\ UNCHANGED <<l1Vars, dtbe, mem, responseFromMemory, fwdVars, dataNet,
                 dma, dmaReqNet, panicked, latest>>

Mut_DirPUTXNotOwner(m) ==
  /\ m \in reqNet
  /\ m.type = "PUTX"
  /\ ~IsOwner(m)
  /\ dstate[m.addr] \in {"M", "I"}
  /\ reqNet' = reqNet \ {m}
  /\ UNCHANGED <<l1Vars, dirVars, memVars, fwdVars, dataNet, dmaVars,
                 panicked, latest>>

\* transition(M, PUTX_NotOwner, M) and transition(I, PUTX_NotOwner, I)
DirPUTXNotOwner(m) ==
  /\ m \in reqNet
  /\ m.type = "PUTX"
  /\ ~IsOwner(m)
  /\ dstate[m.addr] \in {"M", "I"}
  /\ Forward(m.addr, {m.requestor}, "WB_NACK", m.requestor)
  /\ reqNet' = reqNet \ {m}
  /\ UNCHANGED <<l1Vars, dirVars, memVars, stalled, dataNet, dmaVars,
                 panicked, latest>>

\* transition(I, DMA_READ, ID), transition(I, DMA_WRITE, ID_W),
\* transition(M, DMA_READ, M_DRD) and transition(M, DMA_WRITE, M_DWR)
DirDMA(m) ==
  LET read == m.type = "READ"
  IN  /\ m \in dmaReqNet
      /\ \/ /\ dstate[m.addr] = "I"
            /\ dstate' = [dstate EXCEPT ![m.addr] = IF read THEN "ID" ELSE "ID_W"]
            /\ memReq' = memReq \union
                 {IF read
                  THEN [type |-> "READ", addr |-> m.addr,
                        requestor |-> m.transfer.dma]
                  ELSE [type |-> "PARTIAL", addr |-> m.addr,
                        requestor |-> m.transfer.dma, transfer |-> m.transfer]}
            /\ UNCHANGED fwdNet
         \/ /\ dstate[m.addr] = "M"
            /\ dstate' = [dstate EXCEPT ![m.addr] = IF read THEN "M_DRD" ELSE "M_DWR"]
            /\ Forward(m.addr, owner[m.addr], "INV", Home[m.addr])
            /\ UNCHANGED memReq
      /\ dtbe' = [dtbe EXCEPT ![m.addr] = m.transfer]
      /\ dmaReqNet' = dmaReqNet \ {m}
      /\ UNCHANGED <<l1Vars, owner, mem, responseFromMemory, reqNet, stalled,
                     dataNet, dma, dmaRespNet, panicked, latest>>

\* transition(IM, Memory_Data, M) and transition(ID, Memory_Data, I)
DirMemoryData(m) ==
  /\ m \in responseFromMemory
  /\ m.type = "MEMORY_READ"
  /\ \/ /\ dstate[m.addr] = "IM"
        /\ dstate' = [dstate EXCEPT ![m.addr] = "M"]
        /\ dataNet' = dataNet \union
             {[dest |-> m.requestor, addr |-> m.addr, data |-> m.data]}
        /\ UNCHANGED dmaRespNet
     \/ /\ dstate[m.addr] = "ID"
        /\ dstate' = [dstate EXCEPT ![m.addr] = "I"]
        /\ dmaRespNet' = dmaRespNet \union
             {[type |-> "DATA", addr |-> m.addr, dest |-> dtbe[m.addr].dma,
               data |-> m.data]}
        /\ UNCHANGED dataNet
  /\ dtbe' = [dtbe EXCEPT ![m.addr] = NoTransfer]
  /\ responseFromMemory' = responseFromMemory \ {m}
  /\ UNCHANGED <<l1Vars, owner, mem, memReq, reqNet, fwdVars, dma, dmaReqNet,
                 panicked, latest>>

\* transition(MI, Memory_Ack, I), transition(M_DRDI, Memory_Ack, I),
\* transition(M_DWRI, Memory_Ack, I) and transition(ID_W, Memory_Ack, I)
DirMemoryAck(m) ==
  /\ m \in responseFromMemory
  /\ m.type = "MEMORY_WB"
  /\ dstate[m.addr] \in {"MI", "M_DRDI", "M_DWRI", "ID_W"}
  /\ dstate' = [dstate EXCEPT ![m.addr] = "I"]
  /\ Forward(m.addr, IF dstate[m.addr] = "ID_W" THEN {} ELSE {m.requestor},
             "WB_ACK", m.requestor)
  /\ dmaRespNet' = IF dstate[m.addr] \in {"ID_W", "M_DWRI"}
                   THEN dmaRespNet \union
                     {[type |-> "ACK", addr |-> m.addr, dest |-> dtbe[m.addr].dma]}
                   ELSE dmaRespNet
  /\ dtbe' = [dtbe EXCEPT ![m.addr] = NoTransfer]
  /\ responseFromMemory' = responseFromMemory \ {m}
  /\ UNCHANGED <<l1Vars, owner, mem, memReq, reqNet, stalled, dataNet, dma,
                 dmaReqNet, panicked, latest>>

------------------------------------------------------------------------------
(* Memory, and the DMA sequencers and controllers. *)

Mut_WritePartial(line, t) ==
  [w \in 1..LineWords |-> IF w < t.len THEN t.data[w] ELSE line[w]]

\* queueMemoryWritePartial writes the first len words of the block at the line
\* address it is given, whatever the offset of the transfer.
WritePartial(line, t) ==
  [w \in 1..LineWords |-> IF w <= t.len THEN t.data[w] ELSE line[w]]

\* What the device asked for: its words, at its offset.
Transferred(line, t) ==
  [w \in 1..LineWords |->
     IF t.offset < w /\ w <= t.offset + t.len THEN t.data[w] ELSE line[w]]

\* The memory carries out a request and answers it.
MemoryAccess(r) ==
  /\ r \in memReq
  /\ memReq' = memReq \ {r}
  /\ mem' = CASE r.type = "READ" -> mem
              [] r.type = "WRITE" -> [mem EXCEPT ![r.addr] = r.data]
              [] r.type = "PARTIAL" ->
                   [mem EXCEPT ![r.addr] = WritePartial(@, r.transfer)]
  /\ latest' = IF r.type = "PARTIAL"
               THEN [latest EXCEPT ![r.addr] = Transferred(@, r.transfer)]
               ELSE latest
  /\ responseFromMemory' = responseFromMemory \union
       {IF r.type = "READ"
        THEN [type |-> "MEMORY_READ", addr |-> r.addr, requestor |-> r.requestor,
              data |-> mem[r.addr]]
        ELSE [type |-> "MEMORY_WB", addr |-> r.addr, requestor |-> r.requestor]}
  /\ UNCHANGED <<l1Vars, dirVars, reqNet, fwdVars, dataNet, dmaVars, panicked>>

\* A device fills in the words it writes.
FilledIn(type, t) ==
  \A w \in 1..LineWords : \/ t.data[w] = EmptyBlock[w]
                          \/ type = "WRITE" /\ t.offset < w /\ w <= t.offset + t.len

\* DMASequencer::makeRequest, then transition(READY, ReadRequest, BUSY_RD) or
\* transition(READY, WriteRequest, BUSY_WR).  A line in use is Aliased.
DmaRequest(type, a, t) ==
  /\ <<t.dma, type, a>> \in Accesses
  /\ dma[t.dma][a] = "READY"
  /\ FilledIn(type, t)
  /\ Cardinality({b \in Addr : dma[t.dma][b] # "READY"}) < MaxOutstanding
  /\ dma' = [dma EXCEPT ![t.dma][a] = IF type = "READ" THEN "BUSY_RD" ELSE "BUSY_WR"]
  /\ dmaReqNet' = dmaReqNet \union {[type |-> type, addr |-> a, transfer |-> t]}
  /\ UNCHANGED <<l1Vars, dirVars, memVars, reqNet, fwdVars, dataNet, dmaRespNet,
                 panicked, latest>>

\* transition(BUSY_RD, Data, READY) and transition(BUSY_WR, Ack, READY)
DmaResponse(m) ==
  /\ m \in dmaRespNet
  /\ dma[m.dest][m.addr] = IF m.type = "DATA" THEN "BUSY_RD" ELSE "BUSY_WR"
  /\ dma' = [dma EXCEPT ![m.dest][m.addr] = "READY"]
  /\ dmaRespNet' = dmaRespNet \ {m}
  /\ UNCHANGED <<l1Vars, dirVars, memVars, reqNet, fwdVars, dataNet, dmaReqNet,
                 panicked, latest>>

------------------------------------------------------------------------------
(* Events for which a controller's state declares no transition. *)

ForwardDefined(m, s) ==
  CASE m.type = "GETX"    -> s \in {"IS", "IM", "M", "MI", "MII"}
    [] m.type = "INV"     -> s \in {"IS", "IM", "M", "MI", "I"}
    [] m.type = "WB_ACK"  -> s = "MI"
    [] m.type = "WB_NACK" -> s \in {"MI", "II"}

Recycling == {"IM", "MI", "ID", "ID_W"}

RequestDefined(m) ==
  \/ m.type = "GETX"
  \/ dstate[m.addr] \in Recycling
  \/ dstate[m.addr] \in IF IsOwner(m)
                        THEN {"M", "M_DRD", "M_DWR"} ELSE {"M", "I"}

MemoryDefined(m) ==
  dstate[m.addr] \in IF m.type = "MEMORY_READ"
                     THEN {"IM", "ID"} ELSE {"MI", "M_DRDI", "M_DWRI", "ID_W"}

EveryEventDefined ==
  /\ \A c \in Caches, d \in Dirs :
       Forwarded(c, d) =>
         ForwardDefined(Head(fwdNet[d][c]), st[c][Head(fwdNet[d][c]).addr])
  /\ \A m \in dataNet : st[m.dest][m.addr] \in {"IS", "IM"}
  /\ \A m \in reqNet : RequestDefined(m)
  /\ \A m \in dmaReqNet : dstate[m.addr] \in {"I", "M"} \union Recycling
  /\ \A m \in responseFromMemory : MemoryDefined(m)
  /\ \A m \in dmaRespNet :
       dma[m.dest][m.addr] = IF m.type = "DATA" THEN "BUSY_RD" ELSE "BUSY_WR"

\* panic("Invalid transition") of the generated controllers.
Panic ==
  /\ ~EveryEventDefined
  /\ panicked' = TRUE
  /\ UNCHANGED <<l1Vars, dirVars, memVars, reqNet, fwdVars, dataNet, dmaVars, latest>>

------------------------------------------------------------------------------
Issue ==
  \/ \E c \in Caches, type \in {"Load", "Store"}, a \in Addr : MakeRequest(c, type, a)
  \/ \E type \in {"READ", "WRITE"}, a \in Addr, t \in Transfer : DmaRequest(type, a, t)

Protocol ==
  \/ \E c \in Caches, a \in Addr :
       \/ LoadHit(c, a)
       \/ \E w \in 1..LineWords, v \in Values : StoreHit(c, a, w, v)
       \/ \E type \in {"Load", "Store"} : Miss(c, type, a)
       \/ Replacement(c, a)
  \/ \E c \in Caches, d \in Dirs :
       \/ Stall(c, d)
       \/ FwdGETX(c, d)
       \/ Inv(c, d)
       \/ WritebackAck(c, d)
       \/ WritebackNack(c, d)
  \/ \E c \in Caches, m \in dataNet, w \in 1..LineWords, v \in Values :
       CacheData(c, m, w, v)
  \/ \E m \in reqNet : DirGETX(m) \/ DirPUTX(m) \/ DirPUTXNotOwner(m)
  \/ \E m \in dmaReqNet : DirDMA(m)
  \/ \E m \in responseFromMemory : DirMemoryData(m) \/ DirMemoryAck(m)
  \/ \E r \in memReq : MemoryAccess(r)
  \/ \E m \in dmaRespNet : DmaResponse(m)
  \/ Panic

Next == ~panicked /\ (Issue \/ Protocol)

Spec == Init /\ [][Next]_vars
FairSpec == Spec /\ WF_vars(~panicked /\ Protocol)

------------------------------------------------------------------------------
\* Single writer: a line is readable and writable in at most one cache, and in
\* none while a directory hands it to memory or to a DMA controller
\* (MI_example-cache.sm, AccessPermission:Read_Write of state M only).
SingleWriter ==
  \A a \in Addr : \A c, e \in Caches :
    /\ st[c][a] = "M" /\ st[e][a] = "M" => c = e
    /\ st[c][a] = "M" => dstate[a] \in {"M", "M_DRD", "M_DWR"}

\* Data value: what a cache can read is the last value stored or transferred,
\* and so is memory when the directory holds the line (u_writeDataToCache,
\* l_queueMemoryWBRequest).
ReadableIsLatest ==
  \A a \in Addr :
    /\ \A c \in Caches : st[c][a] = "M" => blk[c][a] = latest[a]
    /\ dstate[a] = "I" => mem[a] = latest[a]

\* A DMA read returns the last value, wherever the line was: the data the
\* directory sends is the latest when it sends it (dr_sendDMAData,
\* drp_sendDMAData).
DmaReadsLatest ==
  [][\A m \in dmaRespNet' \ dmaRespNet :
       m.type = "DATA" => m.data = latest'[m.addr]]_vars

\* No request is outstanding in a sequencer.
Quiet == /\ \A c \in Caches : Outstanding(c) = {}
         /\ \A p \in Dmas, a \in Addr : dma[p][a] = "READY"

\* No protocol deadlock: once the processors and devices stop issuing, every
\* request completes, whatever was stalled or recycled (Sequencer::wakeup
\* panics with "Possible Deadlock detected").
RequestsComplete == <>[][~Issue]_vars => <>[](Quiet \/ panicked)

\* No controller meets an event its state has no transition for: the generated
\* code ends the simulation there (StateMachine.py, "Invalid transition").
NoInvalidTransition == ~panicked

\* The only such events: while a directory serves a DMA request for a line that
\* a cache had, another DMA request for it, or the writeback of a cache that no
\* longer owns it (MI_example-dir.sm has no transition for DMA_READ, DMA_WRITE
\* and PUTX_NotOwner in M_DRD, M_DWR, M_DRDI and M_DWRI).
Unexpected ==
  \E a \in Addr :
    /\ dstate[a] \in {"M_DRD", "M_DWR", "M_DRDI", "M_DWRI"}
    /\ \/ \E m \in dmaReqNet : m.addr = a
       \/ \E m \in reqNet : m.type = "PUTX" /\ m.addr = a /\ ~IsOwner(m)

\* The simulation ends for no other reason.
InvalidOnlyDuringDma == panicked => Unexpected
==============================================================================
