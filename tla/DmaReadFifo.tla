----------------------------- MODULE DmaReadFifo ----------------------------
(***************************************************************************)
(* The buffered DMA reader (class DmaReadFifo, src/src/dev/dma_device.cc)  *)
(* under a device like the HDLCD controller, which starts the next line    *)
(* from onEndOfBlock.  A block is read ahead by up to maxPending requests  *)
(* whose data arrive in any order and enter the FIFO in request order.     *)
(*                                                                         *)
(* Data are counted in words.  Word <<f, k>> is the k-th word of the f-th  *)
(* block; addresses are offsets in the block.  resumeFill may call         *)
(* onEndOfBlock, which may call startFill: `callback` says that the engine *)
(* is inside that call and inDmaDone that dmaDone has yet to look for      *)
(* onIdle; nothing else runs then.                                         *)
(***************************************************************************)
EXTENDS Queues, Integers

CONSTANTS
    fifoSize, maxReqSize, maxPending,
    watermark,      \* the cache line size, for the functional path
    BlockSizes,     \* sizes of the blocks the device asks for
    GetSizes,       \* sizes of its reads
    MaxBlocks       \* bound on the number of blocks

ASSUME FifoAssumption ==
    /\ {fifoSize, maxReqSize, maxPending, watermark, MaxBlocks} \subseteq Nat \ {0}
    /\ BlockSizes \subseteq Nat \ {0} /\ GetSizes \subseteq Nat \ {0}

VARIABLES
    buffer,            \* the words in the FIFO
    block,             \* the number of the current block
    nextAddr, endAddr,
    pendingRequests,   \* requests in the order they were sent
    freeRequests,      \* number of unused DmaDoneEvents
    drainState,
    callback,          \* "none", or inside onEndOfBlock
    inDmaDone,         \* dmaDone is at the call of resumeFill
    bypassCaches,      \* sys->bypassCaches()
    stopped,           \* the whole system is drained, nothing is simulated
    aborted,           \* the block that was current at the last flush
    lastRead,          \* the last word the device got, <<0, 0>> after a flush
    idleOwed,          \* auxiliary: requests were sent since the last onIdle
    silentEnd          \* auxiliary: since the last request the engine was
                       \* stopped, or its block ended in functional mode,
                       \* with nothing under way

fillVars == <<buffer, block, nextAddr, endAddr, pendingRequests, freeRequests,
              callback, inDmaDone, idleOwed, silentEnd>>
vars == <<buffer, block, nextAddr, endAddr, pendingRequests, freeRequests,
          callback, inDmaDone, idleOwed, silentEnd, drainState, lastRead, aborted,
          bypassCaches, stopped>>

Init ==
    /\ buffer = <<>> /\ block = 0
    /\ nextAddr = 0 /\ endAddr = 0
    /\ pendingRequests = <<>> /\ freeRequests = maxPending
    /\ drainState = "Running" /\ callback = "none" /\ inDmaDone = FALSE
    /\ bypassCaches \in BOOLEAN /\ stopped = FALSE
    /\ lastRead = <<0, 0>> /\ aborted = 0 /\ idleOwed = FALSE /\ silentEnd = FALSE

atEndOfBlock == nextAddr = endAddr
isActive == ~(pendingRequests = <<>> /\ atEndOfBlock)

-----------------------------------------------------------------------------
(*                              Filling                                    *)

Least(m, n) == IF m < n THEN m ELSE n
Words(b, from, to) == [k \in 1..(to - from) |-> <<b, from + k>>]
WordsOf(r) == Words(r.block, r.from, r.to)

(* All that the requests asked for.                                        *)
Asked(pend) == Joined([i \in DOMAIN pend |-> WordsOf(pend[i])])

SizePending(pend) == Len(Asked(pend))

Mut_Fits(total) == total <= fifoSize + 1

Mut_FitsStrictly(total) == total < fifoSize

(* A request is sent only if the FIFO has room for all that is under way.  *)
Fits(total) == total <= fifoSize

SentUpTo(n, next, end) == Least(next + n * maxReqSize, end)

(* resumeFillTiming sends as many requests as there are free events, data  *)
(* left in the block and room in the FIFO.                                 *)
CanSend(n, buf, pend, free, next, end) ==
    /\ n <= free
    /\ next + (n - 1) * maxReqSize < end
    /\ Fits(Len(buf) + SizePending(pend) + SentUpTo(n, next, end) - next)
NumSent(buf, pend, free, next, end) ==
    CHOOSE n \in 0..free :
        /\ \A m \in 1..n : CanSend(m, buf, pend, free, next, end)
        /\ ~CanSend(n + 1, buf, pend, free, next, end)

resumeFillTiming(buf, pend, free, b, next, end) ==
    LET n == NumSent(buf, pend, free, next, end)
        Request(i) == [block |-> b, from |-> SentUpTo(i - 1, next, end),
                       to |-> SentUpTo(i, next, end), done |-> FALSE,
                       canceled |-> FALSE]
    IN  /\ buffer' = buf
        /\ pendingRequests' = pend \o [i \in 1..n |-> Request(i)]
        /\ freeRequests' = free - n
        /\ nextAddr' = SentUpTo(n, next, end)
        /\ idleOwed' = (idleOwed \/ n > 0)
        /\ silentEnd' = (silentEnd /\ n = 0)

(* With the caches bypassed the data are read from memory at once.         *)
resumeFillFunctional(buf, pend, free, b, next, end) ==
    LET space == fifoSize - Len(buf)
        size == IF space >= watermark \/ fifoSize < watermark
                THEN Least(space, end - next) ELSE 0
    IN  /\ buffer' = buf \o Words(b, next, next + size)
        /\ nextAddr' = next + size
        /\ pendingRequests' = pend /\ freeRequests' = free
        /\ silentEnd' = (silentEnd \/ next + size = end)
        /\ UNCHANGED idleOwed

(* Nothing is fetched in the Draining state.                               *)
MayFetch(ds) == ds # "Draining"

(* resumeFill on the given values of the members.  If the block ends here, *)
(* onEndOfBlock is called.                                                 *)
resumeFill(buf, pend, free, b, next, end, ds) ==
    /\ block' = b /\ endAddr' = end
    /\ \/ /\ ~MayFetch(ds)
          /\ buffer' = buf /\ pendingRequests' = pend /\ freeRequests' = free
          /\ nextAddr' = next /\ callback' = "none"
          /\ UNCHANGED <<idleOwed, silentEnd>>
       \/ /\ MayFetch(ds)
          /\ IF bypassCaches
             THEN resumeFillFunctional(buf, pend, free, b, next, end)
             ELSE resumeFillTiming(buf, pend, free, b, next, end)
          /\ callback' = IF next # end /\ nextAddr' = end THEN "onEndOfBlock"
                                                          ELSE "none"

-----------------------------------------------------------------------------
(*                          Calls by the device                            *)

Ready == ~stopped /\ callback = "none" /\ ~inDmaDone

startFill(size) ==
    /\ Ready /\ atEndOfBlock
    /\ block < MaxBlocks
    /\ resumeFill(buffer, pendingRequests, freeRequests, block + 1, 0, size, drainState)
    /\ UNCHANGED <<drainState, lastRead, aborted, inDmaDone, bypassCaches, stopped>>

(* Requests under way complete, but their data are dropped.                *)
Canceled(pend) == [i \in DOMAIN pend |-> [pend[i] EXCEPT !.canceled = TRUE]]

(* stopFill, alone or, as in abortFrame, followed by flush.  It does not   *)
(* call onIdle, even if nothing is under way.                              *)
stopFill(flush) ==
    /\ Ready
    /\ nextAddr' = endAddr
    /\ pendingRequests' = Canceled(pendingRequests)
    /\ buffer' = IF flush THEN <<>> ELSE buffer
    /\ lastRead' = IF flush THEN <<0, 0>> ELSE lastRead
    /\ aborted' = IF flush THEN block ELSE aborted
    /\ silentEnd' = (silentEnd \/ pendingRequests = <<>>)
    /\ UNCHANGED <<idleOwed, block, endAddr, freeRequests, callback, inDmaDone, drainState,
                   bypassCaches, stopped>>

(* tryGet; when the FIFO holds too little nothing happens.                 *)
tryGet(len) ==
    /\ Ready
    /\ Len(buffer) >= len
    /\ lastRead' = buffer[len]
    /\ resumeFill(SubSeq(buffer, len + 1, Len(buffer)), pendingRequests,
                  freeRequests, block, nextAddr, endAddr, drainState)
    /\ UNCHANGED <<drainState, aborted, inDmaDone, bypassCaches, stopped>>

(* The destructor disowns requests under way; the HDLCD controller makes a *)
(* new engine whenever it is enabled.  The new one takes the state of the  *)
(* drain manager: during a drain that is Draining, also if the old engine  *)
(* had drained.                                                            *)
Recreate ==
    /\ Ready
    /\ drainState' = IF drainState = "Running" THEN "Running" ELSE "Draining"
    /\ buffer' = <<>> /\ nextAddr' = 0 /\ endAddr' = 0
    /\ pendingRequests' = <<>> /\ freeRequests' = maxPending
    /\ lastRead' = <<0, 0>> /\ aborted' = block /\ idleOwed' = FALSE
    /\ silentEnd' = FALSE
    /\ UNCHANGED <<block, callback, inDmaDone, bypassCaches, stopped>>

-----------------------------------------------------------------------------
(*                         Responses and callbacks                         *)

Mut_SplitDone(pend) ==
    <<SelectSeq(pend, LAMBDA r : r.done), SelectSeq(pend, LAMBDA r : ~r.done)>>

(* handlePending takes the finished requests at the front, and leaves one  *)
(* that finished before an earlier request.                                *)
SplitDone(pend) ==
    LET n == CHOOSE k \in 0..Len(pend) :
                 /\ \A j \in 1..k : pend[j].done
                 /\ k < Len(pend) => ~pend[k + 1].done
    IN  <<SubSeq(pend, 1, n), SubSeq(pend, n + 1, Len(pend))>>

Mut_Kept(r) == WordsOf(r)

Kept(r) == IF r.canceled THEN <<>> ELSE WordsOf(r)

(* What the requests bring to the FIFO.                                    *)
Wanted(pend) == Joined([i \in DOMAIN pend |-> Kept(pend[i])])

(* DmaDoneEvent::process and dmaDone up to the return of resumeFill:       *)
(* handlePending moves the finished requests at the front to the FIFO.     *)
dmaDone(i) ==
    LET split == SplitDone([pendingRequests EXCEPT ![i].done = TRUE])
        rest == split[2]
        ds == IF rest = <<>> /\ drainState = "Draining" THEN "Drained" ELSE drainState
    IN  /\ Ready
        /\ i \in DOMAIN pendingRequests /\ ~pendingRequests[i].done
        /\ drainState' = ds
        /\ resumeFill(buffer \o Wanted(split[1]), rest, freeRequests + Len(split[1]), block,
                      nextAddr, endAddr, ds)
        /\ inDmaDone' = TRUE
        /\ UNCHANGED <<lastRead, aborted, bypassCaches, stopped>>

Mut_IsIdle == ~isActive /\ drainState = "Running"

IsIdle == ~isActive

(* The end of dmaDone: onIdle is called if the engine was left inactive.   *)
EndDmaDone ==
    /\ inDmaDone /\ callback = "none"
    /\ inDmaDone' = FALSE
    /\ idleOwed' = (idleOwed /\ ~IsIdle)
    /\ UNCHANGED <<buffer, block, nextAddr, endAddr, pendingRequests, freeRequests,
                   callback, silentEnd, drainState, lastRead, aborted, bypassCaches, stopped>>

(* onEndOfBlock returns, the frame being complete ...                      *)
EndOfFrame ==
    /\ callback = "onEndOfBlock"
    /\ callback' = "none"
    /\ UNCHANGED <<buffer, block, nextAddr, endAddr, pendingRequests, freeRequests,
                   inDmaDone, idleOwed, silentEnd, drainState, lastRead, aborted,
                   bypassCaches, stopped>>

(* ... or starts the next line, which may end its block in turn.           *)
NextLine(size) ==
    /\ callback = "onEndOfBlock"
    /\ block < MaxBlocks
    /\ resumeFill(buffer, pendingRequests, freeRequests, block + 1, 0, size, drainState)
    /\ UNCHANGED <<drainState, lastRead, aborted, inDmaDone, bypassCaches, stopped>>

-----------------------------------------------------------------------------
(*                               Draining                                  *)

NothingPending == pendingRequests = <<>>

(* A round of DrainManager::tryDrain; when all objects answer Drained the  *)
(* simulation stops.                                                       *)
drain ==
    /\ Ready
    /\ \/ /\ NothingPending
          /\ drainState' = "Drained"
          /\ stopped' \in BOOLEAN
       \/ /\ ~NothingPending
          /\ drainState' = "Draining"
          /\ UNCHANGED stopped
    /\ UNCHANGED fillVars
    /\ UNCHANGED <<lastRead, aborted, bypassCaches>>

(* The system resumes, possibly after a switch to or from bypassing.       *)
Resume ==
    /\ stopped
    /\ stopped' = FALSE
    /\ drainState' = "Running"
    /\ bypassCaches' \in BOOLEAN
    /\ UNCHANGED fillVars
    /\ UNCHANGED <<lastRead, aborted>>

Next ==
    \/ \E size \in BlockSizes : startFill(size) \/ NextLine(size)
    \/ \E flush \in BOOLEAN : stopFill(flush)
    \/ \E len \in GetSizes : tryGet(len)
    \/ \E i \in DOMAIN pendingRequests : dmaDone(i)
    \/ EndDmaDone \/ EndOfFrame \/ Recreate
    \/ drain \/ Resume

Spec == Init /\ [][Next]_vars

(* Every request is answered, callbacks return and a stopped simulation is *)
(* resumed.  Nothing is asked of the device: it need not read.             *)
FairSpec ==
    /\ Spec
    /\ WF_vars(\E i \in DOMAIN pendingRequests : dmaDone(i))
    /\ WF_vars(EndDmaDone) /\ WF_vars(EndOfFrame) /\ WF_vars(Resume)

-----------------------------------------------------------------------------
(*                              Properties                                 *)

WordSet == (0..MaxBlocks) \X Nat
RequestSet == [block : 1..MaxBlocks, from : Nat, to : Nat, done : BOOLEAN,
               canceled : BOOLEAN]
Stream == buffer \o Wanted(pendingRequests)

(* Type invariant: a block is never fetched past its end, and the pool of  *)
(* DmaDoneEvents never runs below zero or above its size.                  *)
TypeOK ==
    /\ buffer \in Seq(WordSet) /\ block \in 0..MaxBlocks
    /\ nextAddr \in 0..endAddr /\ endAddr \in BlockSizes \cup {0}
    /\ pendingRequests \in Seq(RequestSet) /\ freeRequests \in 0..maxPending
    /\ drainState \in {"Running", "Draining", "Drained"}
    /\ callback \in {"none", "onEndOfBlock"} /\ inDmaDone \in BOOLEAN
    /\ bypassCaches \in BOOLEAN /\ stopped \in BOOLEAN
    /\ lastRead \in WordSet /\ aborted \in 0..MaxBlocks
    /\ idleOwed \in BOOLEAN /\ silentEnd \in BOOLEAN

(* Fifo::write panics on "Trying to overfill FIFO buffer": the FIFO has    *)
(* room for everything under way, requests canceled, finished early or     *)
(* sent for an earlier block included, no request slot is lost, and        *)
(* resumeFillFunctional, which fills it at once, finds nothing under way   *)
(* although the mode is switched inside a block.                           *)
NeverOverfilled ==
    /\ Len(buffer) + SizePending(pendingRequests) <= fifoSize
    /\ freeRequests + Len(pendingRequests) = maxPending
    /\ bypassCaches => pendingRequests = <<>>

(* What the device read last, what the FIFO holds and what is under way    *)
(* follow each other in the order of the addresses, without gaps, up to    *)
(* the next address to fetch; a new block may only follow a finished or a  *)
(* stopped one from its first word.  Responses arrive in any order.        *)
DataInOrder ==
    LET words == IF lastRead = <<0, 0>> THEN Stream ELSE <<lastRead>> \o Stream
    IN  /\ \A i \in 1..(Len(words) - 1) :
              \/ words[i + 1] = <<words[i][1], words[i][2] + 1>>
              \/ words[i + 1][1] > words[i][1] /\ words[i + 1][2] = 1
        /\ words # <<>> /\ ~atEndOfBlock /\ words[Len(words)][1] = block
           => words[Len(words)][2] = nextAddr

(* After abortFrame (stopFill and flush) the FIFO holds no word of the     *)
(* blocks up to the aborted one, not even once late responses arrive.      *)
AbortedDataDropped == \A w \in Elements(buffer) : w[1] > aborted

(* An inactive engine that sent requests has called onIdle, whether it was *)
(* stopped with requests under way, drained or ran to the end, with one    *)
(* exception, which the code has and the comment on onIdle ("called when   *)
(* the DMA engine becomes idle") does not: nothing calls it when the       *)
(* engine ends its block outside dmaDone, because stopFill finds nothing   *)
(* under way (the FIFO was full) or the rest was read functionally.        *)
IdleReported == Ready /\ ~isActive /\ idleOwed => silentEnd

(* An engine with requests under way comes to hold enough for any read     *)
(* that leaves room for a request, or to the end of the block.  (One that  *)
(* was created during a drain and started before it is asked to drain      *)
(* sends no request, and nothing wakes it but stopFill.)                   *)
ReadsSatisfiable ==
    pendingRequests # <<>> ~> (~isActive \/ \A len \in GetSizes : Len(buffer) >= len)
=============================================================================
