# Verification of gem5-Aladdin

TLA+ models, model-checking runs and machine-checked proofs for parts of the
gem5-Aladdin simulator in `src/`: its memory-system plumbing, a coherence
protocol, draining, and the two ways of simulating in parallel. Every definition
is translated from the code; `PROJECT.json` gives for each one the lines it
models.

## 1. The system

gem5 is a discrete-event simulator: objects connected by ports, and a timing
protocol between two peers in which a receiver may *refuse* a packet
(`recvTimingReq`/`recvTimingResp` return `false`) and then *owes* the sender a
retry (`sendRetryReq`/`sendRetryResp`). The sender must send nothing more until
the retry arrives. Calls are synchronous, so a peer may re-enter the caller
before the call returns. What is hard in this code is exactly that: every
handler leaves half-finished business (a packet in a list, a scheduled event, an
owed retry, a reserved slot) that some later handler must pick up, in an order
nobody wrote down. Coherence controllers, event queues on several threads and
simulations distributed over processes add messages that cross each other,
barriers and lost connections.

| part | state | interacts with | modelled in | proved in |
|---|---|---|---|---|
| Bridge (`mem/bridge`) | request and response lists, `outstandingResponses`, `retryReq`, two send events | master above, slave below | `Bridge` | `BridgeProofs` |
| Non-coherent crossbar (`mem/noncoherent_xbar`, `mem/xbar`) | per layer: state, `waitingForLayer`, `waitingForPeer`, release event; `routeTo` | masters, memories, drain manager | `NoncoherentXBar` | `XBarProofs` |
| Packet queue (`mem/packet_queue`) | `transmitList`, send event, `waitingOnRetry` | the port's peer, drain manager | `PacketQueue`, `OrderedChannel` | `PacketQueueProofs` |
| DMA port (`dev/dma_device`, `DmaPort`) | a list per channel, `currChannel`, `inRetry`, two counters, delayed writes | device, memory, drain manager | `DmaPort` | `DmaPortProofs` |
| Buffered DMA reader (`DmaReadFifo`) | FIFO, `nextAddr`/`endAddr`, pending and free requests | display controller, `DmaPort`, drain manager | `DmaReadFifo` | `DmaReadFifoProofs` |
| Drain manager (`sim/drain`, `python/m5/simulate.py`) | `_count`, `_state`, the registered objects, each object's state | every Drainable, the script | `DrainManager` | `DrainProofs` |
| Ruby's MI_example protocol (`mem/protocol/MI_example-*.sm`) | L1 states and entries, directory states, owners and TBEs, memory queue, three networks | sequencers, DMA devices | `MIExample` | `MIProofs` |
| Distributed simulation (`dev/net/dist_iface`, `tcp_iface`) | the `Sync` object of each process, its sync event, votes for checkpoint, exit and stop | node and switch processes, the pseudo instructions | `DistSync` | model-checked |
| Event queues on several threads (`sim/simulate`, `eventq`, `global_event`) | a queue, an asynchronous queue and a tick per thread, `globalQMutex`, barriers | threads, the script | `ParallelSim` | model-checked |
| Other Ruby protocols, SimpleMemory, coherent crossbar, caches, DRAM controller, VirtIO, CPU models, Aladdin, scripts | | | section 7 | |

The behaviours that make these parts hard are listed at their lines under
`hazards` in `PROJECT.json`:

- an owed wake-up that is lost, or given twice: an event scheduled while a
  retry is pending, a waiting list with nothing left to serve it;
- state tested before a synchronous call and used after it (a queue that still
  holds the packet being sent, a counter not yet decremented);
- responses out of order, and those of cancelled work arriving late;
- coherence messages that cross: a writeback and a forwarded request, a
  DMA request and an invalidation;
- a drain that completes while work is hidden in a place it does not look, or
  never completes because the signal was tied to a state that was passed by;
- global events scheduled by two threads at once, and barriers some of whose
  participants have left or have died;
- resource limits: response slots, outstanding requests, FIFO space.

## 2. Modules and the code

Common conventions.

- *Time.* A scheduled event is a flag and may fire at any later step, so every
  delay and every order of events at different objects is covered. Three modules
  are *about* times and keep them: `PacketQueue`, as distances from `curTick()`,
  which is all its code compares, and `DistSync` and `ParallelSim`, as ticks.
- *Data.* Packets are model values; what the code asks of them (needs a
  response, destination, address) are constant functions or sets.
- *Peers* that are not under study are nondeterministic within the timing
  protocol: they accept or refuse, and owe a retry after a refusal.
- *Assertions.* An `assert` or `panic` that other code could trip is either a
  conjunct of an invariant over the states in which the call is possible, or
  sets a variable (`assertFailed`, `panicked`, `failed`), after which the
  simulator, or the process, does nothing more.
- *Constructor parameters* (`forceOrder`, `invalidateOnWrite`) are variables
  chosen in `Init` and never changed, so that one run covers every value.
- Definitions called `Mut_...` are wrong versions of the definition that
  follows them. They are not used by any specification; replacing the
  definition by one must break the property that `PROJECT.json` pairs with it.

**`Bridge`.** `reqList`, `respList`, `outstandingResponses`, `retryReq` and the
two `...SendEvent` flags are the fields of `BridgeSlavePort` and
`BridgeMasterPort`. A send is one action per outcome of the peer's answer, and a
master stalled earlier may send again from inside `sendTimingResp`, i.e. before
the response leaves the queue. `masterWaiting`, `respRefused`, `reqRefused` and
`atSlave` are the peers.

**`NoncoherentXBar`.** A layer is named by its destination port, as in the code
(one `ReqLayer` per master port, one `RespLayer` per slave port). `Send` and
`SendRefused` are `recvTimingReq`/`recvTimingResp` with their outcomes;
`releaseLayer` and `recvReqRetry` include the whole of `retryWaiting`: the port
at the front is retried inside the call and may send to the layer at once, or
not, in which case the code keeps the layer occupied for a cycle and tries the
next one. The state `RETRY` exists only inside that call and is not a
state of the model.

**`PacketQueue`** and **`OrderedChannel`.** `schedSendTiming` inserts from the
back, behind packets with an earlier time or, with `forceOrder`, behind the last
packet for the same address; `processSendEvent`/`retry` send the head; an
accepting peer may queue more packets before `sendDeferredPacket` schedules the
next send (`inSend`). `OrderedChannel` is what its users rely on: one
FIFO per address that delivers. The refinement mapping `chanBar` joins the
packets of each address in `transmitList`.

**`DmaPort`.** The version changed for Aladdin: several channels, round robin,
`maxRequests` outstanding, invalidations before writes. A transfer is split into
`Chunks[a]` packets; its `DmaReqState` counts the chunks answered. Both
memory modes are modelled, with the switch between them in a drained system.

**`DmaReadFifo`.** Words carry their block and offset, so that order, gaps and
leftovers of an aborted block can be expressed. The device is the HDLCD
controller, the one user in the tree: it starts the next line from
`onEndOfBlock`, aborts a frame with `stopFill` and `flush`, and replaces the
engine (`Recreate`), also in the middle of a drain, after which the new engine is
Draining before it was asked. Two auxiliary variables serve `IdleReported`:
`idleOwed` (requests were sent since `onIdle` was last called) and `silentEnd`
(the engine was stopped with nothing under way, or its block ended in functional
mode); no guard reads them.

**`DrainManager`.** The places of `simulate.py` (`instantiate`, `simulate`,
`tryDrain`, `wait`, `drained`, `resuming`) drive `tryDrain`, `FinishedDrain` and
`resume`. An object is a worker that is busy or not; `Feeds` says which object
may give work to which, also to one that has already reported Drained. Objects
are constructed (`Create`) and destroyed (`Destroy`) at any time the simulation
runs, drains included: a guest's `clone`, `execve` or write to the HDLCD's
command register does it. A new object takes the manager's state without being
counted; a destroyed one is only unregistered. `lost` is auxiliary: the objects
destroyed between being counted and signalling. `TakesWork` is what the code of
the objects guarantees, not the manager: one that is Draining and idle starts
nothing, as in `DmaReadFifo::resumeFill`. `resume` visits the objects one at a
time (`dmDrainResume`), and a visit may replace an object by a new one, as
`HDLcd::drainResume` does, which the loop then has to find. The registered
objects are a set: any order of visits is covered, and skipping an object in a
pass too, but not the iterators of the vector (section 3).

**`MIExample`.** One action per transition of the cache, directory and DMA state
machines, each with all of its SLICC actions. Messages are records; the forward
network is a queue for each pair of controllers, because it is the only one where
the order of two messages, or a stalled one at the head, matters. `blk` is the
data of a cache entry or of the TBE that replaces it, `dtbe` the DMA transfer a
directory remembers. An event without a transition sets `panicked`, as the
generated code panics. `latest` is a history variable: the last value stored or
transferred. `MakeRequest` is the sequencer with its limit and its refusal of a
second request for a line; `Accesses` is the workload.

**`DistSync`.** A process has a simulation thread (`SimThread`), a receiver
thread per connection (`RecvThread`) and, when a connection is lost, a receiver
on its way to `Sync::abort` (`Abort`). `pc` and `ctx` say where the simulation
thread is and who called `Sync::run`; `do`, `need` and `num` are the votes for
checkpoint, exit and stop; `chan` the messages of a TCP connection, sync
messages and packets together in order. `program` is the sequence of pseudo
instructions of the job (`m5 toggle_sync`, `checkpoint`, `exit`, each also in
its immediate form where it has one). `failed` collects the assertions that did
not hold; the process ends there. Ticks are unsigned: in `Quantum` a difference
below zero is larger than any tick. A process drains before a checkpoint, and
the script's `drain()` drops any exit event that it meets then (`ExitDropped`).
A switch process has no events of its own, so one that no longer synchronises
comes to the end-of-simulation event (`LimitReached`).

**`ParallelSim`.** `queue` is the two-level list of a thread as the order it
stands for; `Simulate`, `EnterLoop`, `Serve...`, `LockGlobal`/`ScheduleGlobal`
(`BaseGlobalEvent::schedule` one queue at a time under `globalQMutex`),
`Arrive`/`Perform` (the two barriers of a `BarrierEvent`) and `Return` are the
steps of a thread between which others may run.

`Queues` holds the operators on sequences that the models and the proofs share
(`Elements`, `Distinct`, `Joined`), `QueueLemmas` the lemmas about them. The
`MC...` modules give the constants their values.

## 3. Runs

| run | instance | checks |
|---|---|---|
| `bridge` | 4 packets, one without response, 2 slots each way | response space is always reserved; each non-empty queue has exactly one wake-up; no retry is lost or futile; stalled masters and accepted requests make progress |
| `noncoherent_xbar` | 3 masters, 2 memories of one packet, 4 packets, 2 layers that drain | a refused port waits in exactly one place, that place has a wake-up, every refused port is retried, drains complete |
| `packet_queue` | 3 packets, 2 addresses, times up to 3 ahead, both orders | sent when due, refused packets stay first, drains not forgotten, refines `OrderedChannel` (liveness included) |
| `dma_port` | 4 transfers, one of two lines, 3 channels, 2 outstanding, with and without invalidation, one invalidating write at a time | counters exact and bounded, the sender is never stuck and never looks at an empty channel, completion means done, data after invalidation, no channel starves |
| `dma_read_fifo` | FIFO of 5 words, requests of 2, 3 pending, 3 blocks of 1 or 3 words | never overfilled, in order, nothing of an aborted frame, idleness reported but in two named cases, reads can be satisfied |
| `drain` | chain of 3 objects and two with a limited life | a Drained system is quiescent, the counter is what is still owed, no panic, resumes finish, and so do drains unless a counted object is destroyed |
| `mi_example` | 2 caches of one entry, a DMA controller, a directory, 2 lines, 2 values | single writer, data values, what DMA reads return, every request completes |
| `dist_sync` | 2 nodes and a switch with different repeats, four jobs, at most one process lost | packets in time and barriers matching but in the named jobs, no assertion fails but the named ones, every job ends unless a peer is lost to a process in `start` |
| `parallel_sim` | 2 threads, quantum 2, two calls of `simulate()`, one cross event, two exits | nothing in the past, one global event at a time, queues in step on return, every call returns |
| `dma_wrong_write_released` | two invalidating writes at once | *violated*: data precedes its invalidation |
| `mi_invalid_transition` | as `mi_example`, with one cache | *violated*: the directory meets an event it has no transition for |
| `dist_lost_peer` | as `dist_sync` | *violated*: a process hangs when its peer is lost |

### What the three violated runs say

Each contradicts a comment or an assertion in the tree; the quotations are
under `findings`.

1. `sendDataAfterInvalidate` (`dma_device.cc:307`) releases the front of
   `outstandingRequests`, whichever invalidation has completed. With one
   invalidating write at a time (`SerialWrites`) this cannot happen: that is how
   `dma_port` runs, and what the theorems on transfers assume.
2. In the states in which the MI_example directory serves a DMA request for an
   owned line it recycles GETX only; another DMA request or a stale writeback
   for the line is an invalid transition (`MI_example-dir.sm:486`). The
   properties of `mi_example` cover the behaviours up to there.
   `MIInvalidOnlyDuringDma` (section 4) shows that these are the only such events,
   and `MINoInvalidTransition` that there are none without DMA controllers.
3. The receiver thread that notices a lost connection takes the event queue's
   lock before it aborts the barrier (`dist_iface.cc:688`), and a simulation
   thread that waits in `SyncEvent::start` holds that lock. `JobEnds` of
   `dist_sync` excludes exactly this case.

### Findings of passing runs

Here the property states what the code does, with its exceptions, and the
repository says something else.

- *Drain manager* (`DrainFinishes`). `~Drainable` only unregisters the object
  (`drain.cc:203`-`206`). If it was counted and has not signalled, `_count` never
  returns to zero and the drain never ends, although `drain.hh:209` says that
  simulation stops when the set of non-drained objects becomes empty. The HDLCD does this
  when its command register is written during a drain (`hdlcd.cc:408`, `488`).
  `CountIsOwed` and the theorem `DrainStuck` say exactly what happens.
- *DmaReadFifo* (`IdleReported`). `onIdle` is only called from `dmaDone`. An
  engine stopped with a full FIFO and nothing under way, and one whose block ends
  in functional mode, become inactive without it; `dma_device.hh:498` knows no
  exception.
- *PacketQueue* (`RefusedStaysFirst`). The comment on `retry()`
  (`packet_queue.hh:202`) says that it does not necessarily send the refused
  packet again. It does: the refused packet was due, and a later insertion, which
  is never for an earlier tick, goes behind it.

### Other disagreements and limits

- *Crossbar.* `Layer::drain` (`xbar.cc:586`-`589`) only looks at the layer's
  state; its comment says it should check that no one waits, and `xbar.hh:115`
  that it does. The waiter is served after resuming.
- *DmaPort.* The port reports Drained when `pendingCount` is zero
  (`dma_device.cc:125`), which it also is between the last invalidation response
  and the write that it delayed. All invalidations share one event
  (`dma_device.cc:200`): two that complete before it fires schedule it twice.
- *DmaReadFifo.* An engine created and started during a drain fetches nothing
  (`dma_device.cc:509`), and neither drain nor resume starts it: it is starved
  until the next `stopFill`. `ReadsSatisfiable` is therefore about engines with a
  request under way.
- *Drain manager.* `resume` iterates over a vector (`drain.cc:121`) to which
  `HDLcd::drainResume` may append (`hdlcd.cc:205`); when the vector has no room
  this invalidates the iterators, which no property here covers. An object that
  is Draining when constructed and signals without having been asked would be
  taken for a counted one. `DmaCallback` (`dma_device.hh:268`) could be such an
  object; nothing in the tree uses it, and the model has none.
- *MI_example.* With two directories (`Home <- TwoHomes`, `Accesses <- All`) a
  forwarded request that stalls at the head of a cache's queue can hold back the
  one that another cache waits for, in a cycle; `RequestsComplete` is checked with
  one directory. A DMA write of part of a line is written at the line's address
  (`queueMemoryWritePartial`), and if a cache owns the line the rest of its data
  is lost (`MI_example-dir.sm:569`); the data properties are about transfers of
  whole lines (`LineWords = 1`) and do not show this.
- *dist-gem5.* Jobs can trip assertions, and `Known` in `DistSync` says which job
  can trip which:
  - a checkpoint and a stop agreed on at the same barrier: `assert(!doCkpt)` in
    `start`, because the switch starts again before it checkpoints;
  - an immediate checkpoint: the switch may see the request too early, while it
    reads the outcome of the previous barrier, and drains alone; barriers then
    mismatch and packets come late. `PacketsPunctual` and `BarrierAgreed` are
    about jobs without one;
  - an immediate exit by a node that does not synchronise: `assert(!doExit)` in
    `start`, by the same race;
  - any job, when a connection is lost just before a barrier:
    `assert(!isAbort)` in `SyncNode::run`.

  After a collective checkpoint the request stays pending, so a second one is
  ignored; the jobs have one each. `when() - repeat` in `pushPacket`
  (`dist_iface.cc:510`) wraps if the first sync is before the repeat:
  `DistAssumption` asks for `sync_start` of at least the repeat, as in the
  defaults (5.2 s and 10 us); with `SyncStart = 1` TLC finds `PacketsPunctual`
  violated.
  A switch that drops the exit event of a lost peer in a drain leaves the other
  node waiting in its checkpoint barrier. `JobEnds` holds because such a switch
  runs out of events and ends; with periodic events of its own it would not
  (without `LimitReached` TLC finds `JobEnds` violated). The switch of
  `configs/dist/sw.py` drains at once and drops nothing.

### Bounds

Bounds are chosen so that each limit is met and exceeded by one contender.

- `bridge`: four packets for two slots, so a slot is missing in each direction,
  and one request that reserves none.
- `noncoherent_xbar`: three masters for one memory give a waiting list of two
  behind a port waiting for the peer, and two memories answer one master.
- `packet_queue`: two packets for one address and one for another, with times
  apart by more than one tick, so that forced order and order of time disagree.
- `dma_port`: one transfer more than channels, so that a channel holds packets
  of two transfers, and more packets than `maxRequests`.
- `dma_read_fifo`: the last request of a block is shorter than the others, blocks
  can end in the request that starts them, and space and request slots can both
  be what runs out; three blocks (`MaxBlocks`) are enough for an aborted one, its
  successor, and the late responses of the first.
- `drain`: a chain of three needs up to four rounds.
- `mi_example`: a cache with one entry for two lines must replace, so a
  writeback crosses the other cache's request and the DMA transfers; `Accesses`
  lets one cache replace and the other compete.
- `dist_sync`: the switch proposes a longer repeat (3) than the nodes (2), and the
  link delay (3) and the first sync (3) are just enough for it; jobs switch the
  synchronisation on and off, checkpoint and exit, collectively and at once, with
  and without synchronisation. `MaxGap` bounds how far nodes drift apart between
  instructions, `MaxCrashes` the processes lost, `Talking` the connections that
  carry packets.
- `parallel_sim`: `simulate(1)` ends inside a quantum and `simulate(6)` spans
  three; both threads can ask for an exit at the same time (`MaxExits`), and a
  second call (`MaxCalls`) starts from what the first left.

No state constraint is used. The type invariants, kept out of the runs in favour
of the other properties, hold in the same instances; those of `Bridge`,
`DrainManager` and `DmaPort` are proved. Deadlock is checked in the passing runs
but for `mi_example`, where a panic ends the simulation, and `dist_sync`, where
the job ends.

### Fairness

Weak fairness of *scheduled events* (the event queue runs every event), of
*answers* (a memory answers what it accepted), of *owed retries* (part of the
port protocol) and of *threads* (the host schedules them). Refusals need more
than that:

- `Bridge` and `DmaPort` ask that a packet that is offered is accepted in the
  end (weak fairness of the accepting outcome); `PacketQueue` asks for strong
  fairness of the accepting outcome, because refusals disable and re-enable it.
- In the crossbar the memories' refusals follow from their capacity, so nothing
  is assumed about acceptance; memories use their retries at once, as
  `SimpleMemory::recvRespRetry` and `PacketQueue::retry` do. *Masters* are not
  assumed to do anything: `RefusedAreRetried` holds although a master may ignore
  the retry it gets. (It is false if memories may ignore theirs too.)
- `MIExample` asks only that some controller or network step is taken while one
  is possible (every wakeup is a scheduled event); `RequestsComplete` is about
  behaviours in which the processors stop issuing.
- No fairness is assumed for the start of new work: not for the device's
  transfers, reads or blocks, the calls of `drain` or `simulate()`, nor for
  crashes and lost connections.
- `DrainCompletes` (crossbar) excludes only behaviours in which masters go
  on sending of their own accord for ever.

## 4. What is proved

TLAPS checks these for every value of the constants that satisfies the `ASSUME`
of the module (finite sets of packets, transfers or objects, positive limits,
constant functions with their types). Some theorems have a further hypothesis,
written in them: `SerialWrites` in part of `DmaPortProofs`, and in `MIProofs` `LineWords = 1` or `Dmas = {}`. Each
inductive invariant was first checked by TLC on the instance of the run.

**`BridgeProofs`.** The inductive invariant is `TypeOK`, `PacketsOnce`,
`ResponseSpaceReserved`, `HeadHasOneWakeup` and `NoLostRetry` together.
None is inductive alone: the counter is exact only if a packet is in one place
(`PacketsOnce`), a packet stays in one place only if sends happen with a packet
at hand (`HeadHasOneWakeup`), and `NoLostRetry` needs the exact count, since
what releases a stalled master is a packet in flight. Theorems: `BridgeTypeOK`,
`BridgeResponseSpace` (`recvTimingResp`, which never refuses, always finds room),
`BridgeWakeup`, `BridgeRetry`, and the action property `BridgeRetrySucceeds` (the
comment that the retried request "will definitely be possible to accept").

**`XBarProofs`.** Every step changes one layer. `StepWaits` and its companions
say what such a step may do: a port joins those that wait and becomes refused,
leaves both, or stays in both; every action is shown to be one of these.
The invariant adds `Routed` to the two properties: only because `routeTo` is
exact is the layer known that a response takes. Theorems: `XBarRefusedWaitOnce`,
`XBarWaitersHaveWakeup`, `XBarRouted` (the assertions on `routeTo`).

**`DmaPortProofs`.** *Sending side*, no assumption on the device (`Core`): queues
are sets of places, so that queueing and sending are counted; a retry is owed
only below `maxRequests`, which is why sending on a retry without looking at the
limit is safe; and when a send is due the current channel holds a packet, because
the round robin ends on the nearest channel that is not empty and
`queueDmaAction` fills the current channel first when all are empty. Theorems:
`DmaSenderWakeup`, `DmaCountersNeverWrap`. *Transfers*, under `SerialWrites`
(`Serial`): each packet is in one place, `numBytes` and the packets not answered
make up the transfer, and a transfer goes through its phases in order. Theorems:
`DmaPendingAccounted`, `DmaCompletionMeansDone`, `DmaDataAfterInvalidation`.
Without `SerialWrites` the last one is false (`dma_wrong_write_released`).

**`DmaReadFifoProofs`.** All four properties follow from `IInv`, whose main part
`Good` says that what the members hold fits together: room for everything
under way, and the last word read, the FIFO and the wanted words of the pending
requests in one unbroken order up to `nextAddr`, all after the aborted block.
`resumeFill` keeps `Good` from any values that fit, in timing and in functional
mode, so an action only has to show that the values it passes fit. The words of
the pending requests are a join of sequences (`Joined`); a response in the
middle changes one part (`JoinedConcat`). Theorems: `FifoNeverOverfilled`,
`FifoDataInOrder`, `FifoAbortedDataDropped`, and `FifoIdleReported` with its two
exceptions.

**`DrainProofs`**, for any objects, constructed and destroyed at any time.
`DrainInv` records what each place of the script knows: the counter is the number
of objects that owe a signal plus those that were `lost`, outside `wait` it is
zero, in `wait` the exit event is pending exactly when it is zero, and a Drained
system is quiescent. The cardinality is carried over `tryDrain`,
`signalDrainDone`, `Create` and `Destroy`. Theorems: `DrainInvariant`,
`DrainQuiescence`, `DrainCount` (`CountIsOwed`), `DrainNoPanic`, `DrainStuck` (once
an object is lost the script waits for ever) and `DrainAllResumed` (resume leaves
nobody behind, which follows from its last pass).

**`PacketQueueProofs`.** `QueueInv` adds to the properties that a scheduled event
is for a packet and not before its time, *inside an accepted send as well*;
without it a packet queued from inside the send could leave an event too early
for the new head. Theorems: `QueueSendsOnlyWhenDue`, `QueueSendsInTime`,
`QueueDrainNotForgotten` and the action property `QueueRefusedStaysFirst`.
`QueueImplementsChannel` is the refinement, safety part: `Spec` implements
`Channel!Ordered`. An insertion with forced order goes behind every entry of its
address, so the address's channel is appended to and the others stay;
sending the head takes the head of its channel; time and retries leave the
packets alone.

**`MIProofs`**, for any caches, lines, directories, DMA controllers and memory
latency. The caches that own a line or were told to pass it on (a forwarded GETX
is in their queue) *stand in line* for it: the GETX names the next, and only the
front can hold the data. `ControlInv` says of each line who stands there and in
which state (`LineInv`), what a request not yet served implies (`AskInv`), that a
writeback is in one place (`PutInv`) and that the directory has one access to
memory at a time (`MemoryInv`); `SingleWriter` follows. `ValueInv` follows the
last value written through the places it can be in: the holder, the data message,
the writeback, the write to memory, the answer of memory, and memory itself while
the directory is in I, IM or ID. Theorems: `MISingleWriter`; with `LineWords = 1`
(DMA transfers of whole lines; section 3 says why) `MIReadableIsLatest` and the
action property `MIDmaReadsLatest`: the data the directory sends to a DMA device
are the latest when it sends them. They cover behaviours up to an invalid
transition, where the simulator ends.

When that can be is the subject of the second half of the module. `EventInv` says
what the messages under way imply of the state they will find: the answer to a
writeback is behind every INV for its line (`AcksLast`), a cache that gave the line
away gets no acknowledgement and one that is refused has been told to pass the
line on, an INV finds a cache that writes the line back or has done so
(`PairInv`), and a directory without an owner state has no owner (`Unowned`).
`DmaInv` says that a DMA request is in one place (asked, served or answered) and
that its controller waits for the answer of its kind. From these and `ControlInv`,
every event has a transition but the two kinds of section 3:
`MIInvalidOnlyDuringDma`. No run checks this one; TLC agreed with it, and with
`EventInv` and `DmaInv`, on the instance of `mi_example` (585,652 states).
With `Dmas = {}` the directory stays in the states I, M, IM and MI, so
`MINoInvalidTransition`: the caches and directories have a transition for every
event they meet.

**`QueueLemmas`.** What `Append` and `Tail` do to the elements, the length and
the distinctness of a queue, and the lemmas on joined sequences. Induction over
data is not available to these provers in general; here `LeastNat`, a least
element of a non-empty set of numbers (from the well-foundedness of `<`), stands
in for it: a least counterexample is refuted. It is how the recursive function
behind `Joined` is shown to compute the concatenation.

### Only model-checked

- Every liveness property (`RequestsComplete` of bridge and MI_example,
  `RefusedAreRetried`, `DrainCompletes`, `TransfersComplete`, `ReadsSatisfiable`,
  `DrainFinishes`, `JobEnds`, `SimulateReturns`, and the fairness of
  `OrderedChannel` in `ImplementsChannel`): fairness and `ENABLED` are beyond
  TLAPS.
- The safety of `DistSync` (`PacketsPunctual`, `BarrierAgreed`,
  `AssertionsHold`) and `ParallelSim` (`NothingInThePast`,
  `OneGlobalEventAtATime`, `ReturnsInStep`). Their invariants relate every
  message under way to the places of all processes and threads, and those of
  `ParallelSim` go through sorted insertion by `SelectSeq` and a fold, whose
  recursive definitions the provers cannot unfold.

## 5. How to run

In this directory, with the community modules on the library path:

    tlc -config MCBridge.cfg MCBridge          # likewise for the other runs
    tlapm BridgeProofs.tla                     # likewise for the other proof modules

`PROJECT.json` lists the module and the configuration of every run. The longest
runs are `mi_example`, `dist_sync` and `parallel_sim` (some minutes at most), the
longest proof is `MIProofs` (about a quarter of an hour), then
`DmaReadFifoProofs` and `DmaPortProofs` (under ten minutes each).

## 6. What the models leave out of the parts they cover

- Latencies, and therefore anything that depends on their values (other than in
  the three modules about times); statistics; packet contents other than the
  words of `DmaReadFifo` and `MIExample`.
- `recvFunctional`, `recvAtomic` (except `DmaPort`'s atomic mode, which drives
  its state) and address ranges, which do not change the state modelled.
- `NoncoherentXBar`: the address map is a constant `Dst`; range changes happen
  before the simulation starts.
- `DmaPort`: transfers of zero bytes (an assertion) and without completion event.
- `DrainManager`: checkpoint files, forking and CPU switching, which happen in a
  drained system and are for this protocol the identity.
- `MIExample`: LL/SC, locked read-modify-write, functional accesses, requests
  that span lines, and the generated wake-up code (each ready message may be
  served next).
- `DistSync`: the queue of received packets that wait for their tick, with the
  bandwidth they take; checkpointed state; setting up the connections. Assumed of
  the jobs: no packets while the nodes are not synchronised or after `m5 exit`,
  nothing left inside the switch when the synchronisation stops, and a drain
  shorter than a quantum, which the comment in `SyncEvent::process` asks for. A
  connection has one packet under way at a time.
- `ParallelSim`: events from asynchronous signals, squashed and managed events,
  and checkpointed events.

## 7. Not modelled, and why

- *Other Ruby protocols and the Ruby network*: some dozen transient states per
  controller; an exhaustive run of a useful instance is out of reach. Of the
  network `MIExample` takes the order that its configuration asks for.
- *SimpleMemory*: its response queue and its two retries repeat what
  `PacketQueue` and `NoncoherentXBar` model; the crossbar's memories refuse and
  retry as it does.
- *Coherent crossbar, snoop filter, classic caches*: the crossbar adds snoops to
  the layers of `NoncoherentXBar` and means something only with the caches behind
  it, which are several thousand lines with most of their state in data.
- *DRAM controller*: beyond its queues it is arithmetic on bank and power-state
  times; a model without real times would say nothing about it.
- *VirtIO and other devices*: their counterpart is a guest driver outside the tree.
- *CPU models*: correct with respect to instruction sets the tree only defines by
  the decoders themselves.
- *Aladdin*: a submodule whose directory is empty here; the changes made to gem5
  for it (channels and invalidations of `DmaPort`) are modelled.
- *Configuration scripts, SLICC compiler*: sequential programs that run before
  the simulation.
