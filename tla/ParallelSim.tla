------------------------------ MODULE ParallelSim ------------------------------
(***************************************************************************)
(* Parallel simulation with one event queue per thread                     *)
(* (src/src/sim/simulate.cc, eventq.cc, eventq_impl.hh, global_event.cc):  *)
(* threads serve their queues on their own for a quantum; events for other *)
(* queues and global events wait in asynchronous queues; a global event is *)
(* one barrier event per queue, and the last thread to reach it performs   *)
(* it.                                                                     *)
(***************************************************************************)
EXTENDS Integers, Sequences, SequencesExt, FiniteSets

CONSTANTS N,          \* numMainEventQueues; thread 0 is the main thread
          Quantum,    \* simQuantum
          Cycles,     \* arguments simulate() is called with
          MaxCalls,   \* bound: calls of simulate()
          MaxCross,   \* bound: events scheduled on another thread's queue
          MaxExits    \* bound: calls of exitSimLoop

ASSUME ParallelAssumption == /\ N \in Nat \ {0} /\ Quantum \in Nat \ {0}
                             /\ Cycles \subseteq Nat
                             /\ MaxCalls \in Nat /\ MaxCross \in Nat /\ MaxExits \in Nat

Threads == 0..(N - 1)
Main == 0
Nobody == N

VARIABLES
  queue,      \* events in the order the queue serves them
  async,      \* async_queue
  tick,       \* _curTick
  pc,
  ev,         \* the event a thread is serving
  todo,       \* the global event a thread is scheduling
  next,       \* the queue it comes to next
  globalQMutex,
  calls, cross, exits,
  panicked    \* an assertion failed or an event was not found

vars == <<queue, async, tick, pc, ev, todo, next, globalQMutex, calls, cross,
          exits, panicked>>

Priority(type) == CASE type = "exit" -> 100      \* Sim_Exit_Pri
                    [] type = "quantum" -> 95    \* Progress_Event_Pri
                    [] OTHER -> 0                \* Default_Pri
Types == {"clock", "message", "quantum", "exit"}
Event == [when : Nat, type : Types, id : 0..MaxExits]
Ev(type, when, id) == [when |-> when, type |-> type, id |-> id]
Limit(when) == Ev("exit", when, 0)    \* simulate_limit_event
Idle == Ev("clock", 0, 0)

\* Every variable ranges over its type.
TypeOK ==
  /\ queue \in [Threads -> Seq(Event)] /\ async \in [Threads -> Seq(Event)]
  /\ tick \in [Threads -> Nat]
  /\ pc \in [Threads -> {"python", "threadBarrier", "enter", "loop", "lock",
                         "schedule", "arrived", "process", "left", "passed",
                         "return"}]
  /\ ev \in [Threads -> Event] /\ todo \in [Threads -> Event]
  /\ next \in [Threads -> 0..N] /\ globalQMutex \in 0..N
  /\ panicked \in BOOLEAN

(***************************************************************************)
(* The two-level list of a queue, as the order it stands for: by tick, by  *)
(* priority, and last in first out.                                        *)
(***************************************************************************)
Before(a, b) == \/ a.when < b.when
                \/ a.when = b.when /\ Priority(a.type) < Priority(b.type)

\* EventQueue::insert
Insert(s, e) == InsertAt(s, Len(SelectSeq(s, LAMBDA x : Before(x, e))) + 1, e)

\* EventQueue::handleAsyncInsertions of thread i
HandleAsyncInsertions(i) ==
  /\ queue' = [queue EXCEPT ![i] = FoldLeft(Insert, @, async[i])]
  /\ async' = [async EXCEPT ![i] = <<>>]

IsLimit(e) == e.type = "exit" /\ e.id = 0

Init ==
  /\ queue = [i \in Threads |-> <<Ev("clock", 1, 0)>>]
  /\ async = [i \in Threads |-> <<>>]
  /\ tick = [i \in Threads |-> 0]
  /\ pc = [i \in Threads |-> IF i = Main THEN "python" ELSE "threadBarrier"]
  /\ ev = [i \in Threads |-> Idle] /\ todo = [i \in Threads |-> Idle]
  /\ next = [i \in Threads |-> 0]
  /\ globalQMutex = Nobody
  /\ calls = 0 /\ cross = 0 /\ exits = 0
  /\ panicked = FALSE

\* simulate() up to its wait at the thread barrier.  Outside parallel mode the
\* limit and the quantum event go into the queues at once.
Simulate(n) ==
  LET limit == Limit(tick[Main] + n)
      quantum == Ev("quantum", tick[Main] + Quantum, 0)
  IN /\ pc[Main] = "python" /\ calls < MaxCalls
     /\ calls' = calls + 1
     /\ queue' = [i \in Threads |->
                    Insert(Insert(SelectSeq(queue[i], LAMBDA x : ~IsLimit(x)),
                                  limit), quantum)]
     /\ panicked' = (panicked \/ \E i \in Threads : tick[i] > limit.when)
     /\ pc' = [pc EXCEPT ![Main] = "threadBarrier"]
     /\ UNCHANGED <<async, tick, ev, todo, next, globalQMutex, cross, exits>>

\* threadBarrier->wait() lets everyone go once all have come.
ThreadBarrier ==
  /\ \A i \in Threads : pc[i] = "threadBarrier"
  /\ pc' = [i \in Threads |-> "enter"]
  /\ UNCHANGED <<queue, async, tick, ev, todo, next, globalQMutex, calls, cross,
                 exits, panicked>>

\* doSimLoop() before its loop
EnterLoop(i) ==
  /\ pc[i] = "enter"
  /\ HandleAsyncInsertions(i)
  /\ pc' = [pc EXCEPT ![i] = "loop"]
  /\ UNCHANGED <<tick, ev, todo, next, globalQMutex, calls, cross, exits, panicked>>

\* serviceOne() takes the first event.
Pop(i, e) == /\ pc[i] = "loop" /\ queue[i] # <<>> /\ e = Head(queue[i])
             /\ tick' = [tick EXCEPT ![i] = e.when]
             /\ ev' = [ev EXCEPT ![i] = e]
             /\ panicked' = (panicked \/ e.when < tick[i])

\* The handler of a clocked object: it schedules itself for the next cycle, may
\* schedule an event on another queue, a quantum ahead, and may call
\* exitSimLoop.
ServeClock(i) ==
  \E e \in {Head(queue[i])}, j \in Threads, exit \in BOOLEAN :
    /\ Pop(i, e) /\ e.type = "clock"
    /\ queue' = [queue EXCEPT ![i] = Insert(Tail(@), Ev("clock", e.when + 1, 0))]
    /\ IF j = i THEN async' = async /\ cross' = cross
       ELSE /\ cross < MaxCross /\ cross' = cross + 1
            /\ async' = [async EXCEPT ![j] =
                           Append(@, Ev("message", e.when + Quantum, 0))]
    /\ IF exit
       THEN /\ exits < MaxExits /\ exits' = exits + 1
            /\ todo' = [todo EXCEPT ![i] = Ev("exit", e.when + Quantum, exits + 1)]
            /\ pc' = [pc EXCEPT ![i] = "lock"]
       ELSE UNCHANGED <<exits, todo, pc>>
    /\ UNCHANGED <<next, globalQMutex, calls>>

ServeMessage(i) ==
  \E e \in {Head(queue[i])} :
    /\ Pop(i, e) /\ e.type = "message"
    /\ queue' = [queue EXCEPT ![i] = Tail(@)]
    /\ UNCHANGED <<async, pc, todo, next, globalQMutex, calls, cross, exits>>

Mut_LockGlobal(i) ==
  /\ pc[i] = "lock"
  /\ globalQMutex' = i
  /\ next' = [next EXCEPT ![i] = 0]
  /\ pc' = [pc EXCEPT ![i] = "schedule"]
  /\ UNCHANGED <<queue, async, tick, ev, todo, calls, cross, exits, panicked>>

\* BaseGlobalEvent::schedule takes the mutex ...
LockGlobal(i) ==
  /\ pc[i] = "lock" /\ globalQMutex = Nobody
  /\ globalQMutex' = i
  /\ next' = [next EXCEPT ![i] = 0]
  /\ pc' = [pc EXCEPT ![i] = "schedule"]
  /\ UNCHANGED <<queue, async, tick, ev, todo, calls, cross, exits, panicked>>

\* ... and adds one barrier event to each asynchronous queue, its own too.
\* The caller goes on with its handler, or with the second barrier.
ScheduleGlobal(i) ==
  /\ pc[i] = "schedule"
  /\ async' = [async EXCEPT ![next[i]] = Append(@, todo[i])]
  /\ next' = [next EXCEPT ![i] = @ + 1]
  /\ panicked' = (panicked \/ todo[i].when < tick[next[i]])
  /\ IF next[i] + 1 < N THEN UNCHANGED <<pc, globalQMutex, todo>>
     ELSE /\ globalQMutex' = Nobody
          /\ todo' = [todo EXCEPT ![i] = Idle]
          /\ pc' = [pc EXCEPT ![i] = IF ev[i].type = "quantum" THEN "left" ELSE "loop"]
  /\ UNCHANGED <<queue, tick, ev, calls, cross, exits>>

\* BarrierEvent::process: the first barrier.  The last thread to arrive is to
\* perform the event, the others go on to the second barrier.
Arrive(i) ==
  \E e \in {Head(queue[i])} :
    /\ Pop(i, e) /\ e.type \in {"quantum", "exit"}
    /\ queue' = [queue EXCEPT ![i] = Tail(@)]
    /\ pc' = IF \A j \in Threads \ {i} : pc[j] = "arrived" /\ ev[j] = e
             THEN [j \in Threads |-> IF j = i THEN "process" ELSE "left"]
             ELSE [pc EXCEPT ![i] = "arrived"]
    /\ UNCHANGED <<async, todo, next, globalQMutex, calls, cross, exits>>

Mut_NextQuantum(i) == Ev("quantum", tick[i] + 2 * Quantum, 0)

\* What GlobalSyncEvent::process schedules next.
NextQuantum(i) == Ev("quantum", tick[i] + Quantum, 0)

\* GlobalSyncEvent::process and GlobalSimLoopExitEvent::process
Perform(i) ==
  /\ pc[i] = "process"
  /\ IF ev[i].type = "quantum"
     THEN /\ todo' = [todo EXCEPT ![i] = NextQuantum(i)]
          /\ pc' = [pc EXCEPT ![i] = "lock"]
     ELSE todo' = todo /\ pc' = [pc EXCEPT ![i] = "left"]
  /\ UNCHANGED <<queue, async, tick, ev, next, globalQMutex, calls, cross, exits,
                 panicked>>

\* The second barrier opens when every thread has come to it.
SecondBarrier ==
  /\ \A i \in Threads : pc[i] = "left"
  /\ pc' = [i \in Threads |-> "passed"]
  /\ UNCHANGED <<queue, async, tick, ev, todo, next, globalQMutex, calls, cross,
                 exits, panicked>>

\* After the quantum event a thread takes over its asynchronous queue; after an
\* exit event it leaves doSimLoop().
Pass(i) ==
  /\ pc[i] = "passed"
  /\ IF ev[i].type = "quantum"
     THEN HandleAsyncInsertions(i) /\ pc' = [pc EXCEPT ![i] = "loop"]
     ELSE /\ pc' = [pc EXCEPT ![i] = IF i = Main THEN "return" ELSE "threadBarrier"]
          /\ UNCHANGED <<queue, async>>
  /\ ev' = [ev EXCEPT ![i] = Idle]
  /\ UNCHANGED <<tick, todo, next, globalQMutex, calls, cross, exits, panicked>>

Mut_Descheduled(s) == s

\* A queue without the quantum event.
Descheduled(s) == SelectSeq(s, LAMBDA x : x.type # "quantum")

\* The rest of simulate(): the quantum event is descheduled in every queue,
\* which panics where it is scheduled but still in the asynchronous queue.
Return ==
  /\ pc[Main] = "return"
  /\ queue' = [i \in Threads |-> Descheduled(queue[i])]
  /\ panicked' = (panicked \/ \E i \in Threads :
                    \E k \in DOMAIN async[i] : async[i][k].type = "quantum")
  /\ pc' = [pc EXCEPT ![Main] = "python"]
  /\ UNCHANGED <<async, tick, ev, todo, next, globalQMutex, calls, cross, exits>>

\* The simulation script is done.
Finished == pc[Main] = "python" /\ calls = MaxCalls /\ UNCHANGED vars

Step(i) == EnterLoop(i) \/ ServeClock(i) \/ ServeMessage(i) \/ LockGlobal(i)
           \/ ScheduleGlobal(i) \/ Arrive(i) \/ Perform(i) \/ Pass(i)

Next == \/ \E n \in Cycles : Simulate(n)
        \/ ThreadBarrier \/ SecondBarrier \/ Return \/ Finished
        \/ \E i \in Threads : Step(i)

Spec == Init /\ [][Next]_vars

\* Every thread keeps running until it waits.
FairSpec == /\ Spec
            /\ WF_vars(ThreadBarrier) /\ WF_vars(SecondBarrier) /\ WF_vars(Return)
            /\ \A i \in Threads : WF_vars(Step(i))

(***************************************************************************)
(* Properties                                                              *)
(***************************************************************************)

\* No assertion of schedule(), reschedule() and doSimLoop() fails: no thread is
\* ever given an event of its past, although other threads schedule on its
\* queue; and deschedule() finds the quantum event wherever it is scheduled.
NothingInThePast ==
  /\ ~panicked
  /\ \A i \in Threads : pc[i] = "loop" =>
       queue[i] # <<>> /\ tick[i] <= Head(queue[i]).when

\* Threads waiting at the first barrier of a global event wait for the same
\* event: with two orders of global events they would wait for each other for
\* ever.
OneGlobalEventAtATime ==
  \A i, j \in Threads : pc[i] = "arrived" /\ pc[j] \in {"arrived", "process"}
                          => ev[i] = ev[j]

\* When simulate() has returned, every queue stands at the tick of the exit
\* event and no quantum event is left behind, so that simulate() can be called
\* again.
ReturnsInStep ==
  pc[Main] = "python" => \A i \in Threads :
    /\ tick[i] = tick[Main]
    /\ \A k \in DOMAIN queue[i] : queue[i][k].type # "quantum"

\* Every call of simulate() returns.
SimulateReturns == pc[Main] = "threadBarrier" ~> pc[Main] = "python"
================================================================================
