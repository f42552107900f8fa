------------------------------- MODULE DistSync -------------------------------
(***************************************************************************)
(* Distributed gem5 (src/src/dev/net/dist_iface.cc, tcp_iface.cc): node    *)
(* processes and a switch process simulate in lock step.  A process runs   *)
(* its simulation thread and one receiver thread for each TCP connection;  *)
(* all of them share the process's Sync object under its lock.  A barrier  *)
(* (Sync::run) is a SyncReq from every node to the switch and a SyncAck    *)
(* back; barriers start the synchronisation, repeat it periodically, and   *)
(* quiet the network before a checkpoint is written.                       *)
(***************************************************************************)
EXTENDS Integers, Sequences, SequencesExt, FiniteSets

CONSTANTS Nodes, Switch,
          SyncStart,    \* sync_start of the switch
          Repeat,       \* sync_repeat of each process
          LinkDelay,    \* ticks a packet spends on the simulated link
          PseudoOp,     \* syncStartOnPseudoOp: nodes wait for m5 toggle_sync
          Programs,     \* sequences of pseudo instructions a job may consist of
          Talking,      \* bound: the connections packets are sent on
          MaxGap,       \* bound: ticks a node runs between two of them
          MaxCrashes    \* bound: processes that end on their own

Procs == Nodes \union {Switch}
Links == (Nodes \X {Switch}) \union ({Switch} \X Nodes)

ASSUME DistAssumption ==
  /\ Switch \notin Nodes
  /\ SyncStart \in Nat
  /\ Repeat \in [Procs -> Nat \ {0}]
  /\ LinkDelay \in Nat
  /\ PseudoOp \in BOOLEAN /\ Talking \subseteq Links
  /\ Programs \subseteq Seq({"toggle", "ckpt", "ckptNow", "exit", "exitNow"})
  /\ \A p \in Procs : Repeat[p] <= LinkDelay
  \* the defaults are far apart; see Quantum
  /\ \A p \in Procs : Repeat[p] <= SyncStart

VARIABLES
  clock,      \* curTick() of each process
  when,       \* syncEvent->when(), the tick it was last scheduled for
  scheduled,  \* syncEvent->scheduled()
  repeat,     \* syncEvent->repeat
  pc,         \* where the simulation thread is
  ctx,        \* who called Sync::run: startup(), start(), process() or
              \* drainComplete()
  waitNum, nextAt, nextRepeat, isAbort,   \* class Sync
  do,         \* doCkpt, doExit and doStopSync
  need,       \* needCkpt, needExit and needStopSync of a node
  num,        \* numCkptReq, numExitReq and numStopSyncReq of the switch
  exiting,    \* an exit event is scheduled at the current tick
  aborting,   \* a receiver thread is about to call Sync::abort
  chan,       \* messages under way on each connection
  ended,      \* peers whose receiver thread has finished
  program,    \* the job: every node executes it
  ip,         \* next pseudo instruction of a node
  gap,        \* ticks since the last one
  resume,     \* tick from which a process executes events again, or Off
              \* when its thread contexts are suspended
  thenExit,   \* readyToExit goes on with this request when start() returns
  crashes,
  failed      \* assertions that did not hold

syncVars == <<waitNum, nextAt, nextRepeat, isAbort>>
recvVars == <<chan, ended, aborting>>
progVars == <<program, ip, gap, resume, thenExit>>
eventVars == <<when, scheduled, repeat>>
vars == <<clock, eventVars, pc, ctx, syncVars, do, need, num, exiting,
          recvVars, progVars, crashes, failed>>

Off == -1
Flags == {"ckpt", "exit", "stop"}
ReqType == {"none", "pending", "collective", "immediate"}
SyncMsg == [type : {"sync"}, tick : Nat, repeat : Nat, req : [Flags -> ReqType]]
DataMsg == [type : {"data"}, tick : Nat]

\* Every variable ranges over its type.
TypeOK ==
  /\ clock \in [Procs -> Nat]
  /\ when \in [Procs -> Nat] /\ scheduled \in [Procs -> BOOLEAN]
  /\ repeat \in [Procs -> Nat]
  /\ pc \in [Procs -> {"sim", "enter", "wait", "done", "drain", "dead"}]
  /\ ctx \in [Procs -> {"startup", "start", "periodic", "ckpt"}]
  /\ waitNum \in [Procs -> 0..Cardinality(Nodes)]
  /\ nextAt \in [Procs -> Nat] /\ nextRepeat \in [Procs -> Nat]
  /\ isAbort \in [Procs -> BOOLEAN]
  /\ exiting \in [Procs -> BOOLEAN] /\ aborting \in [Procs -> BOOLEAN]
  /\ do \in [Procs -> [Flags -> BOOLEAN]]
  /\ need \in [Nodes -> [Flags -> ReqType]]
  /\ num \in [Flags -> 0..Cardinality(Nodes)]
  /\ chan \in [Links -> Seq(SyncMsg \union DataMsg)]
  /\ ended \in [Procs -> SUBSET Procs]
  /\ program \in Programs
  /\ ip \in [Nodes -> 1..(Len(program) + 1)] /\ gap \in [Nodes -> 0..MaxGap]
  /\ resume \in [Procs -> Nat \union {Off}] /\ thenExit \in [Nodes -> ReqType]

\* startup(): in pseudo-op mode only the switch starts to synchronise; the
\* nodes do so when their programs ask for it.
Init ==
  /\ clock = [p \in Procs |-> 0]
  /\ when = [p \in Procs |-> 0] /\ scheduled = [p \in Procs |-> FALSE]
  /\ pc = [p \in Procs |-> IF PseudoOp /\ p # Switch THEN "sim" ELSE "enter"]
  /\ ctx = [p \in Procs |-> "startup"]
  /\ waitNum = [p \in Procs |-> IF p = Switch THEN Cardinality(Nodes) ELSE 0]
  /\ nextAt = [p \in Procs |-> SyncStart]
  /\ nextRepeat = Repeat
  /\ repeat = [p \in Procs |-> IF PseudoOp /\ p # Switch THEN 0 ELSE Repeat[p]]
  /\ isAbort = [p \in Procs |-> FALSE]
  /\ exiting = [p \in Procs |-> FALSE] /\ aborting = [p \in Procs |-> FALSE]
  /\ do = [p \in Procs |-> [f \in Flags |-> FALSE]]
  /\ need = [n \in Nodes |-> [f \in Flags |-> "none"]]
  /\ num = [f \in Flags |-> 0]
  /\ chan = [l \in Links |-> <<>>]
  /\ ended = [p \in Procs |-> {}]
  /\ program \in Programs
  /\ ip = [n \in Nodes |-> 1] /\ gap = [n \in Nodes |-> 0]
  /\ resume = [p \in Procs |-> 0]
  /\ thenExit = [n \in Nodes |-> "none"]
  /\ crashes = 0 /\ failed = {}

Peers(p) == IF p = Switch THEN Nodes ELSE {Switch}

Popped(p, q) == [chan EXCEPT ![q, p] = Tail(@)]

\* The process ends, with c as what was sent: nothing of its state matters any
\* more, and nobody reads what is sent to it.
Dies(p, c) ==
  /\ pc' = [pc EXCEPT ![p] = "dead"]
  /\ chan' = [l \in Links |-> IF l[2] = p THEN <<>> ELSE c[l]]
  /\ clock' = [clock EXCEPT ![p] = 0] /\ when' = [when EXCEPT ![p] = 0]
  /\ nextAt' = [nextAt EXCEPT ![p] = 0]
  /\ nextRepeat' = [nextRepeat EXCEPT ![p] = 0]
  /\ waitNum' = [waitNum EXCEPT ![p] = 0] /\ repeat' = [repeat EXCEPT ![p] = 0]
  /\ ctx' = [ctx EXCEPT ![p] = "startup"]
  /\ scheduled' = [scheduled EXCEPT ![p] = FALSE]
  /\ isAbort' = [isAbort EXCEPT ![p] = FALSE]
  /\ exiting' = [exiting EXCEPT ![p] = FALSE]
  /\ aborting' = [aborting EXCEPT ![p] = FALSE]
  /\ ended' = [ended EXCEPT ![p] = {}] /\ resume' = [resume EXCEPT ![p] = 0]
  /\ do' = [do EXCEPT ![p] = [f \in Flags |-> FALSE]]
  /\ need' = [n \in Nodes |-> IF n = p THEN [f \in Flags |-> "none"]
                                       ELSE need[n]]
  /\ thenExit' = [n \in Nodes |-> IF n = p THEN "none" ELSE thenExit[n]]
  /\ ip' = [n \in Nodes |-> IF n = p THEN 1 ELSE ip[n]]
  /\ gap' = [n \in Nodes |-> IF n = p THEN 0 ELSE gap[n]]
  /\ UNCHANGED <<num, program>>

\* Assertions that do not hold end the process.
Fail(p, why) == /\ Dies(p, chan) /\ failed' = failed \union why
                /\ crashes' = crashes

(***************************************************************************)
(* The simulation between two barriers.                                    *)
(***************************************************************************)
Executing(p) == /\ pc[p] = "sim"
                /\ resume[p] # Off /\ clock[p] >= resume[p]

\* The event queue goes on to the next tick.  Synchronised processes stop at
\* syncEvent; while a process drains for a checkpoint the code relies on the
\* drain being over before the next one.
Advance(p) ==
  /\ ~exiting[p]
  /\ \/ pc[p] = "sim" /\ IF scheduled[p] THEN clock[p] < when[p] ELSE p # Switch
     \/ pc[p] = "drain" /\ scheduled[p] /\ clock[p] + 1 < when[p]
  /\ IF Executing(p) /\ p # Switch /\ ip[p] <= Len(program)
     THEN gap[p] < MaxGap /\ gap' = [gap EXCEPT ![p] = @ + 1]
     ELSE gap' = gap
  /\ clock' = [clock EXCEPT ![p] = @ + 1]
  /\ UNCHANGED <<eventVars, pc, ctx, syncVars, do, need, num, exiting,
                 recvVars, program, ip, resume, thenExit, crashes, failed>>

\* packetOut(): one packet at a time on a connection; a job sends nothing
\* while its nodes are not synchronised and after its m5 exit.
PacketOut(p, q) ==
  /\ \/ Executing(p) /\ scheduled[p]
     \/ pc[p] = "drain" /\ resume[p] # Off /\ clock[p] >= resume[p]
  /\ <<p, q>> \in Talking /\ pc[q] # "dead"
  /\ p # Switch => ip[p] <= Len(program)
  /\ \A i \in DOMAIN chan[p, q] : chan[p, q][i].type # "data"
  /\ chan' = [chan EXCEPT ![p, q] =
                Append(@, [type |-> "data", tick |-> clock[p]])]
  /\ UNCHANGED <<clock, eventVars, pc, ctx, syncVars, do, need, num,
                 exiting, ended, aborting, progVars, crashes, failed>>

Instruction(n, ops) ==
  /\ Executing(n) /\ ip[n] <= Len(program) /\ program[ip[n]] \in ops
  /\ ip' = [ip EXCEPT ![n] = @ + 1] /\ gap' = [gap EXCEPT ![n] = 0]
  /\ UNCHANGED <<clock, when, scheduled, syncVars, do, num, exiting, recvVars,
                 program, crashes, failed>>

\* The value requestCkpt and requestExit leave in needCkpt and needExit.
Requested(old, req) == IF old = "none" \/ req = "immediate" THEN req ELSE old

\* m5 checkpoint: a zero delay asks for a collective checkpoint.
ReadyToCkpt(n) ==
  /\ Instruction(n, {"ckpt", "ckptNow"})
  /\ need' = [need EXCEPT ![n]["ckpt"] = Requested(@,
                IF program[ip[n]] = "ckpt" THEN "collective" ELSE "immediate")]
  /\ UNCHANGED <<pc, ctx, repeat, resume, thenExit>>

\* SyncEvent::start up to the call of run.
EnterStart(p) == /\ pc' = [pc EXCEPT ![p] = "enter"]
                 /\ ctx' = [ctx EXCEPT ![p] = "start"]
                 /\ repeat' = [repeat EXCEPT ![p] = nextRepeat[p]]

\* m5 exit: a node that is not synchronised starts to synchronise first.
ReadyToExit(n) ==
  LET req == IF program[ip[n]] = "exit" THEN "collective" ELSE "immediate" IN
  /\ Instruction(n, {"exit", "exitNow"})
  /\ IF ~scheduled[n]
     THEN /\ EnterStart(n)
          /\ thenExit' = [thenExit EXCEPT ![n] = req]
          /\ need' = need
     ELSE /\ need' = [need EXCEPT ![n]["exit"] = Requested(@, req)]
          /\ UNCHANGED <<pc, ctx, repeat, thenExit>>
  /\ resume' = resume

\* m5 toggle_sync: ask for a collective stop and suspend the thread contexts,
\* or start to synchronise.
ToggleSync(n) ==
  /\ Instruction(n, {"toggle"})
  /\ IF ~scheduled[n]
     THEN EnterStart(n) /\ UNCHANGED <<need, resume>>
     ELSE /\ need' = [need EXCEPT ![n]["stop"] = "collective"]
          /\ resume' = [resume EXCEPT ![n] = Off]
          /\ UNCHANGED <<pc, ctx, repeat>>
  /\ thenExit' = thenExit

\* SyncEvent::process up to the call of run; the event queue is unlocked.
\* An exit event scheduled since then for this tick is served first.
SyncEvent(p) ==
  /\ pc[p] = "sim" /\ ~exiting[p] /\ scheduled[p] /\ clock[p] = when[p]
  /\ scheduled' = [scheduled EXCEPT ![p] = FALSE]
  /\ pc' = [pc EXCEPT ![p] = "enter"]
  /\ ctx' = [ctx EXCEPT ![p] = "periodic"]
  /\ UNCHANGED <<clock, when, repeat, syncVars, do, need, num, exiting, recvVars,
                 progVars, crashes, failed>>

\* The system is drained and serialize() calls Sync::drainComplete.
Drained(p) ==
  /\ pc[p] = "drain"
  /\ pc' = [pc EXCEPT ![p] = IF do[p]["ckpt"] THEN "enter" ELSE "sim"]
  /\ ctx' = [ctx EXCEPT ![p] = "ckpt"]
  /\ UNCHANGED <<clock, eventVars, syncVars, do, need, num, exiting,
                 recvVars, progVars, crashes, failed>>

\* The exit event is served and the simulation script ends the process.
ExitSimLoop(p) ==
  /\ pc[p] = "sim" /\ exiting[p]
  /\ Dies(p, chan) /\ UNCHANGED <<crashes, failed>>

\* The exit event is served while the script simulates to get the system
\* drained: the loop in drain() only looks for "Finished drain".
ExitDropped(p) ==
  /\ pc[p] = "drain" /\ exiting[p]
  /\ exiting' = [exiting EXCEPT ![p] = FALSE]
  /\ UNCHANGED <<clock, eventVars, pc, ctx, syncVars, do, need, num, recvVars,
                 progVars, crashes, failed>>

\* A switch that no longer synchronises runs out of events and comes to
\* simulate_limit_event: only packets make it schedule others.
LimitReached(p) ==
  /\ p = Switch /\ pc[p] = "sim" /\ ~scheduled[p] /\ ~exiting[p]
  /\ Dies(p, chan) /\ UNCHANGED <<crashes, failed>>

\* m5 fail, or the process is killed.
Crash(p) ==
  /\ pc[p] # "dead" /\ crashes < MaxCrashes
  /\ crashes' = crashes + 1
  /\ Dies(p, chan) /\ failed' = failed

(***************************************************************************)
(* Sync::run, the barrier.                                                 *)
(***************************************************************************)
SyncMessage(tick, next_repeat, req) ==
  [type |-> "sync", tick |-> tick, repeat |-> next_repeat, req |-> req]

\* sendCmd() to the peers in S; chan with the message added.
SendCmd(p, S, msg) ==
  [l \in Links |-> IF l[1] = p /\ l[2] \in S /\ pc[l[2]] # "dead"
                   THEN Append(chan[l], msg) ELSE chan[l]]

\* sendTCP(): writing to a connection whose peer is gone may still succeed, or
\* fail and panic after the message went to some of the other peers.
SendFails(p, msg) ==
  /\ \E q \in Peers(p) : pc[q] = "dead"
  /\ \E S \in SUBSET {q \in Peers(p) : pc[q] # "dead"} :
       Dies(p, SendCmd(p, S, msg))
  /\ UNCHANGED <<crashes, failed>>

Mut_Sent(req) == req

\* A request that has been sent is pending.
Sent(req) == [f \in Flags |-> IF req[f] = "none" THEN "none" ELSE "pending"]

\* SyncNode::run up to the wait: the requests travel with the message once.
NodeRun(n) ==
  LET msg == SyncMessage(clock[n], nextRepeat[n], need[n]) IN
  /\ pc[n] = "enter"
  /\ IF isAbort[n] \/ waitNum[n] # 0 THEN Fail(n, {"run"}) ELSE
     \/ SendFails(n, msg)
     \/ /\ waitNum' = [waitNum EXCEPT ![n] = 1]
        /\ need' = [need EXCEPT ![n] = Sent(@)]
        /\ chan' = SendCmd(n, {Switch}, msg)
        /\ pc' = [pc EXCEPT ![n] = "wait"]
        /\ UNCHANGED <<clock, eventVars, ctx, nextAt, nextRepeat,
                       isAbort, do, num, exiting, ended, aborting, progVars,
                       crashes, failed>>

\* SyncSwitch::run: every request is in, decide and acknowledge.
SwitchRun ==
  LET d == [f \in Flags |-> do[Switch][f] \/ num[f] = Cardinality(Nodes)]
      msg == SyncMessage(nextAt[Switch], nextRepeat[Switch],
                         [f \in Flags |-> IF d[f] THEN "immediate" ELSE "none"])
  IN /\ pc[Switch] = "enter" /\ waitNum[Switch] = 0 /\ ~isAbort[Switch]
     /\ IF ctx[Switch] = "periodic" /\ nextAt[Switch] # clock[Switch]
        THEN Fail(Switch, {"tick"}) ELSE
        \/ SendFails(Switch, msg)
        \/ /\ waitNum' = [waitNum EXCEPT ![Switch] = Cardinality(Nodes)]
           /\ do' = [do EXCEPT ![Switch] = d]
           /\ num' = [f \in Flags |-> IF d[f] /\ f # "exit" THEN 0 ELSE num[f]]
           /\ chan' = SendCmd(Switch, Nodes, msg)
           /\ pc' = [pc EXCEPT ![Switch] = "done"]
           /\ UNCHANGED <<clock, eventVars, ctx, nextAt, nextRepeat,
                          isAbort, need, exiting, ended, aborting, progVars,
                          crashes, failed>>

\* run() is about to return true.
Returning(p) ==
  IF p = Switch THEN pc[p] = "done"
                ELSE pc[p] = "wait" /\ waitNum[p] = 0 /\ ~isAbort[p]

\* The assertions of SyncEvent::start that do not hold after its barrier.
NotExpected(p) ==
  {f \in Flags : do[p][f]}
    \union {a \in {"nextAt"} : nextAt[p] < clock[p]}
    \union {a \in {"nextRepeat"} : nextRepeat[p] > repeat[p]}

\* SyncEvent::start after its barrier, and its callers: a toggle suspends the
\* thread contexts until the first sync is over, an exit asks for the exit.
Started(p) ==
  /\ Returning(p) /\ ctx[p] \in {"startup", "start"}
  /\ IF NotExpected(p) # {} THEN Fail(p, NotExpected(p))
     ELSE /\ when' = [when EXCEPT ![p] = nextAt[p]]
          /\ scheduled' = [scheduled EXCEPT ![p] = TRUE]
          /\ pc' = [pc EXCEPT ![p] = "sim"]
          /\ IF p # Switch /\ thenExit[p] # "none"
             THEN /\ need' = [need EXCEPT ![p]["exit"] =
                                 Requested(@, thenExit[p])]
                  /\ thenExit' = [thenExit EXCEPT ![p] = "none"]
                  /\ resume' = resume
             ELSE /\ resume' = [resume EXCEPT ![p] = nextAt[p] + 1]
                  /\ UNCHANGED <<need, thenExit>>
          /\ UNCHANGED <<clock, repeat, ctx, syncVars, do, num, exiting, recvVars,
                         program, ip, gap, crashes, failed>>

Mut_NextSync(p) == clock[p] + nextRepeat[p] + 1

Mut_OwnRepeat(p) == clock[p] + Repeat[p]

\* The tick of the next periodic sync.
NextSync(p) == clock[p] + nextRepeat[p]

\* exitSimLoop("checkpoint") makes the script drain the system.
AfterSync(p) == IF do[p]["ckpt"] THEN "drain" ELSE "sim"

\* SyncEvent::process after its barrier.  Nothing else happens at this tick:
\* syncEvent has the last priority.  An exit event overtakes a checkpoint.
Synced(p) ==
  /\ Returning(p) /\ ctx[p] = "periodic"
  /\ IF nextAt[p] # clock[p] /\ p # Switch THEN Fail(p, {"tick"}) ELSE
     /\ IF do[p]["exit"]
        THEN /\ exiting' = [exiting EXCEPT ![p] = TRUE]
             /\ pc' = [pc EXCEPT ![p] = "sim"]
             /\ UNCHANGED <<eventVars, do, ctx, resume>>
        ELSE IF do[p]["stop"]
        THEN /\ do' = [do EXCEPT ![p]["stop"] = FALSE]
             /\ IF p = Switch
                THEN EnterStart(p) /\ resume' = resume
                ELSE /\ pc' = [pc EXCEPT ![p] = AfterSync(p)]
                     /\ UNCHANGED <<ctx, repeat>>
                     /\ resume' = [resume EXCEPT ![p] = clock[p] + 1]
             /\ UNCHANGED <<when, scheduled, exiting>>
        ELSE /\ when' = [when EXCEPT ![p] = NextSync(p)]
             /\ scheduled' = [scheduled EXCEPT ![p] = TRUE]
             /\ repeat' = [repeat EXCEPT ![p] = nextRepeat[p]]
             /\ pc' = [pc EXCEPT ![p] = AfterSync(p)]
             /\ resume' = [resume EXCEPT ![p] = IF @ = Off THEN Off ELSE
                             IF @ > clock[p] THEN @ ELSE clock[p] + 1]
             /\ UNCHANGED <<do, ctx, exiting>>
     /\ UNCHANGED <<clock, syncVars, need, num, recvVars, program, ip, gap,
                    thenExit, crashes, failed>>

\* drainComplete after its barrier; the checkpoint is written and the
\* simulation resumes.
CkptDone(p) ==
  /\ \/ Returning(p)
     \/ pc[p] \in {"enter", "wait"} /\ isAbort[p] /\ waitNum[p] = 0
        /\ (p = Switch \/ pc[p] = "wait")
  /\ ctx[p] = "ckpt"
  /\ do' = [do EXCEPT ![p]["ckpt"] = FALSE]
  /\ pc' = [pc EXCEPT ![p] = "sim"]
  /\ UNCHANGED <<clock, eventVars, ctx, syncVars, need, num, exiting,
                 recvVars, progVars, crashes, failed>>

\* run() returns false: process() returns with no sync scheduled, start()
\* panics.
Aborted(p) ==
  /\ isAbort[p] /\ waitNum[p] = 0 /\ ctx[p] # "ckpt"
  /\ pc[p] = IF p = Switch THEN "enter" ELSE "wait"
  /\ IF ctx[p] = "periodic"
     THEN /\ pc' = [pc EXCEPT ![p] = "sim"]
          /\ UNCHANGED <<clock, eventVars, ctx, syncVars, do, need, num,
                         exiting, recvVars, progVars>>
     ELSE Dies(p, chan)
  /\ UNCHANGED <<crashes, failed>>

(***************************************************************************)
(* recvThreadFunc, the receiver thread of p for the connection to q.       *)
(***************************************************************************)

\* The simulation thread serves an event and waits for a barrier inside it
\* without releasing the event queue: start() called by an instruction or by
\* process().
HoldsQueue(p) == ctx[p] = "start" /\ pc[p] \in {"enter", "wait", "done"}

Receives(p, q) == pc[p] # "dead" /\ q \notin ended[p] /\ chan[q, p] # <<>>

\* SyncSwitch::progress
SwitchProgress(n, m) ==
  /\ nextAt' = [nextAt EXCEPT ![Switch] = IF m.tick > @ THEN m.tick ELSE @]
  /\ nextRepeat' = [nextRepeat EXCEPT ![Switch] =
                      IF @ > m.repeat THEN m.repeat ELSE @]
  /\ num' = [f \in Flags |-> IF m.req[f] = "collective" THEN num[f] + 1
                                                         ELSE num[f]]
  /\ do' = [do EXCEPT ![Switch] =
              [f \in Flags |-> @[f] \/ m.req[f] = "immediate"]]
  /\ ended' = ended

\* SyncNode::progress: the thread finishes when the job is to exit.
NodeProgress(n, m) ==
  /\ nextAt' = [nextAt EXCEPT ![n] = m.tick]
  /\ nextRepeat' = [nextRepeat EXCEPT ![n] = m.repeat]
  /\ do' = [do EXCEPT ![n] = [f \in Flags |-> m.req[f] # "none"]]
  /\ ended' = IF m.req["exit"] = "none" THEN ended
              ELSE [ended EXCEPT ![n] = @ \union {Switch}]
  /\ num' = num

\* A sync message: what both progress() functions have in common.
Progress(p, q) ==
  LET m == Head(chan[q, p]) IN
  /\ Receives(p, q) /\ m.type = "sync"
  /\ IF ~isAbort[p] /\ waitNum[p] = 0 THEN Fail(p, {"progress"}) ELSE
     /\ \/ /\ isAbort[p]
           /\ ended' = [ended EXCEPT ![p] = @ \union {q}]
           /\ UNCHANGED <<waitNum, nextAt, nextRepeat, do, num>>
        \/ /\ ~isAbort[p]
           /\ waitNum' = [waitNum EXCEPT ![p] = @ - 1]
           /\ IF p = Switch THEN SwitchProgress(q, m) ELSE NodeProgress(p, m)
     /\ chan' = Popped(p, q)
     /\ UNCHANGED <<clock, eventVars, pc, ctx, isAbort, need, exiting,
                    aborting, progVars, crashes, failed>>

\* send_tick > when() - repeat with unsigned ticks: a difference below zero
\* wraps to one that no tick exceeds.
Quantum(p, tick) == when[p] >= repeat[p] /\ tick > when[p] - repeat[p]

\* calcReceiveTick and pushPacket accept a packet sent at this tick.
Punctual(p, tick) == /\ tick + LinkDelay > clock[p]
                     /\ Quantum(p, tick)
                     /\ tick + LinkDelay > when[p]

\* pushPacket() with the event queue locked
PushPacket(p, q) ==
  /\ Receives(p, q) /\ Head(chan[q, p]).type = "data" /\ ~HoldsQueue(p)
  /\ IF Punctual(p, Head(chan[q, p]).tick)
     THEN /\ chan' = Popped(p, q)
          /\ UNCHANGED <<clock, eventVars, pc, ctx, syncVars, do, need,
                         num, exiting, ended, aborting, progVars, crashes,
                         failed>>
     ELSE Fail(p, {"packet"})

\* recvHeader() finds the connection closed or reset: schedule an exit with
\* the event queue locked; what was under way is lost.
ConnectionLost(p, q) ==
  /\ pc[p] # "dead" /\ q \notin ended[p] /\ pc[q] = "dead" /\ ~HoldsQueue(p)
  /\ exiting' = [exiting EXCEPT ![p] = TRUE]
  /\ aborting' = [aborting EXCEPT ![p] = TRUE]
  /\ ended' = [ended EXCEPT ![p] = @ \union {q}]
  /\ chan' = [chan EXCEPT ![q, p] = <<>>]
  /\ UNCHANGED <<clock, eventVars, pc, ctx, syncVars, do, need, num,
                 progVars, crashes, failed>>

Mut_Abort(p) ==
  /\ pc[p] # "dead" /\ aborting[p]
  /\ aborting' = [aborting EXCEPT ![p] = FALSE]
  /\ isAbort' = [isAbort EXCEPT ![p] = TRUE]
  /\ UNCHANGED <<clock, eventVars, pc, ctx, waitNum, nextAt, nextRepeat,
                 do, need, num, exiting, chan, ended, progVars, crashes,
                 failed>>

\* Sync::abort
Abort(p) ==
  /\ pc[p] # "dead" /\ aborting[p]
  /\ aborting' = [aborting EXCEPT ![p] = FALSE]
  /\ waitNum' = [waitNum EXCEPT ![p] = 0]
  /\ isAbort' = [isAbort EXCEPT ![p] = TRUE]
  /\ UNCHANGED <<clock, eventVars, pc, ctx, nextAt, nextRepeat, do, need,
                 num, exiting, chan, ended, progVars, crashes, failed>>

SimThread(p) ==
  \/ Advance(p) \/ SyncEvent(p) \/ Drained(p)
  \/ ExitSimLoop(p) \/ ExitDropped(p) \/ LimitReached(p)
  \/ /\ p \in Nodes
     /\ ReadyToCkpt(p) \/ ReadyToExit(p) \/ ToggleSync(p) \/ NodeRun(p)
  \/ p = Switch /\ SwitchRun
  \/ Started(p) \/ Synced(p) \/ CkptDone(p) \/ Aborted(p)

RecvThread(p, q) == Progress(p, q) \/ PushPacket(p, q) \/ ConnectionLost(p, q)

Next == \/ \E p \in Procs : SimThread(p) \/ Crash(p) \/ Abort(p)
        \/ \E p \in Procs : \E q \in Peers(p) :
             PacketOut(p, q) \/ RecvThread(p, q)

Spec == Init /\ [][Next]_vars

\* The threads of a process keep running while it lives.
FairSpec ==
  /\ Spec
  /\ \A p \in Procs : WF_vars(SimThread(p)) /\ WF_vars(Abort(p))
  /\ \A p \in Procs : \A q \in Peers(p) : WF_vars(RecvThread(p, q))

(***************************************************************************)
(* Properties                                                              *)
(***************************************************************************)

\* A receiver thread of the switch records an immediate checkpoint as soon as
\* the request comes, also while the simulation thread has yet to look at what
\* the previous barrier agreed on: the switch then drains for a checkpoint
\* which the nodes know nothing of.
ImmediateCkpt == \E i \in DOMAIN program : program[i] = "ckptNow"

\* In a job without immediate checkpoints, no packet under way comes too late
\* for its receiver, whenever the receiver thread gets to it: the checks of
\* calcReceiveTick and pushPacket.  It rests on lock step, on the order of
\* each connection and on the link delay.
PacketsPunctual ==
  ~ImmediateCkpt =>
    \A l \in Links : \A i \in DOMAIN chan[l] :
      (chan[l][i].type = "data" /\ pc[l[2]] # "dead" /\ l[1] \notin ended[l[2]])
        => Punctual(l[2], chan[l][i].tick)

\* When the switch is about to complete a barrier, every node that still lives
\* waits in the same kind of barrier, and in a periodic one at the same tick;
\* unless the job has immediate checkpoints, or a checkpoint and a stop were
\* agreed on together: the switch then calls start() before it checkpoints.
BarrierAgreed ==
  (/\ pc[Switch] = "enter" /\ waitNum[Switch] = 0 /\ ~isAbort[Switch]
   /\ ~ImmediateCkpt /\ ~(ctx[Switch] = "start" /\ do[Switch]["ckpt"])) =>
    \A n \in Nodes : pc[n] # "dead" =>
      /\ pc[n] = "wait"
      /\ ctx[n] \in {"start", "startup"}
           <=> ctx[Switch] \in {"start", "startup"}
      /\ ctx[n] = "ckpt" <=> ctx[Switch] = "ckpt"
      /\ ctx[n] = "periodic" => clock[n] = clock[Switch]

\* The i-th instruction of the job is reached without synchronisation.
Unsynced(i) == Cardinality({j \in 1..(i - 1) : program[j] = "toggle"}) % 2 = 0

\* The assertions that can fail: the one at the start of SyncNode::run when a
\* connection was lost just before, and those for which a job asks something
\* that the barriers do not keep apart.
Known ==
  {"run"}
    \union {a \in {"tick", "packet"} : ImmediateCkpt}
    \union {a \in {"ckpt"} : \E i, j \in DOMAIN program :
               i < j /\ program[i] = "ckpt" /\ program[j] = "toggle"}
    \union {a \in {"exit"} : \E i \in DOMAIN program :
               program[i] = "exitNow" /\ Unsynced(i)}

\* Of the assertions about the barriers and the packets no other fails.  In
\* particular a job with collective checkpoints, no stop after them, and an
\* immediate exit only while it synchronises trips "run" at most.
AssertionsHold == failed \subseteq Known

\* A lost peer cannot be noticed by a process that waits in start() with the
\* event queue locked.
HangsInStart(p) ==
  /\ HoldsQueue(p) /\ \E q \in Peers(p) : pc[q] = "dead"

\* Every job comes to its end in every process, also when one of them ends
\* early, unless that happens while a peer is waiting in start().  A process
\* whose exit event is dropped because it drains for a checkpoint goes on with
\* the sync aborted: a node fails the assertion of its next barrier, a switch
\* runs until it has no more events, and its end frees the nodes that wait.
JobEnds == <>(\/ \A p \in Procs : pc[p] = "dead"
              \/ \E p \in Procs : HangsInStart(p))

\* As the comment in recvThreadFunc has it, aborting the sync lets the
\* simulation thread make progress and process the exit event.
AbortFreesEveryone == <>(\A p \in Procs : pc[p] = "dead")
================================================================================
