---------------------------- MODULE DrainManager ----------------------------
(***************************************************************************)
(* Draining the simulator (src/src/sim/drain.{hh,cc}) with the script that *)
(* drives it (src/src/python/m5/simulate.py): tryDrain asks every object,  *)
(* the simulation runs until the ones that were busy have signalled, and   *)
(* the script tries again until nothing needs simulation any more.         *)
(*                                                                         *)
(* An object is reduced to whether it has work in progress.  Working, it   *)
(* may give work to another one (Feeds), even to one that has drained: the *)
(* perturbation that makes several rounds necessary.  Objects of Dynamic   *)
(* are constructed and destroyed whenever the simulation runs, drains      *)
(* included: HDLcd replaces its DMA engine when it is enabled, clone and   *)
(* execve construct a Process.                                             *)
(***************************************************************************)
EXTENDS Integers, FiniteSets

CONSTANTS
    Objects,
    Dynamic,                \* those created and destroyed at run time
    Feeds                   \* <<o, p>>: o may give work to p

ASSUME DrainAssumption ==
    /\ IsFiniteSet(Objects) /\ Dynamic \subseteq Objects
    /\ Feeds \subseteq Objects \X Objects

VARIABLES
    allDrainable,   \* the registered objects
    drainState,     \* Drainable::_drainState
    busy,           \* has the object work in progress
    count,          \* DrainManager::_count
    state,          \* DrainManager::_state
    exitEvent,      \* "Finished drain" is scheduled
    script,         \* where simulate.py is
    assertFailed,   \* signalDrainDone asserted; the simulator aborts
    lost            \* auxiliary: the number of objects destroyed between
                    \* being counted and signalling

objVars == <<allDrainable, drainState, busy>>
vars == <<allDrainable, drainState, busy, count, state, exitEvent, script,
          assertFailed, lost>>

DrainStates == {"Running", "Draining", "Drained", "Resuming"}

Init ==
    /\ allDrainable = Objects \ Dynamic
    /\ drainState = [o \in Objects |-> "Running"]
    /\ busy = [o \in Objects |-> FALSE]
    /\ count = 0 /\ state = "Running"
    /\ exitEvent = FALSE
    /\ script = "instantiate"
    /\ assertFailed = FALSE /\ lost = 0

-----------------------------------------------------------------------------
(*                              The script                                 *)

(* instantiate() without a checkpoint, and the first simulate().           *)
Startup ==
    /\ script = "instantiate"
    /\ script' = "simulate"
    /\ UNCHANGED <<allDrainable, drainState, busy, count, state, exitEvent,
                   assertFailed, lost>>

(* instantiate() with one: preCheckpointRestore, then loadState of every   *)
(* object, which may construct others in the manager's state.              *)
preCheckpointRestore ==
    /\ script = "instantiate" /\ state = "Running"
    /\ state' = "Drained"
    /\ \E new \in SUBSET Dynamic : allDrainable' = allDrainable \cup new
    /\ drainState' = [o \in Objects |-> IF o \in allDrainable' THEN "Drained"
                                                               ELSE drainState[o]]
    /\ script' = "drained"
    /\ UNCHANGED <<busy, count, exitEvent, assertFailed, lost>>

(* The script leaves the simulation loop and calls drain().                *)
Drain ==
    /\ script = "simulate"
    /\ script' = "tryDrain"
    /\ UNCHANGED <<allDrainable, drainState, busy, count, state, exitEvent,
                   assertFailed, lost>>

NotReady == {o \in allDrainable : busy[o]}

(* Every registered object is asked, drained before or not.                *)
tryDrain ==
    /\ script = "tryDrain"
    /\ state # "Drained" /\ count = 0
    /\ drainState' = [o \in Objects |->
                        IF o \notin allDrainable THEN drainState[o]
                        ELSE IF busy[o] THEN "Draining" ELSE "Drained"]
    /\ count' = Cardinality(NotReady)
    /\ state' = IF count' = 0 THEN "Drained" ELSE "Draining"
    /\ script' = IF count' = 0 THEN "drained" ELSE "wait"
    /\ UNCHANGED <<allDrainable, busy, exitEvent, assertFailed, lost>>

Mut_FinishedDrain ==
    /\ script = "wait" /\ exitEvent
    /\ exitEvent' = FALSE
    /\ script' = "drained" /\ state' = "Drained"
    /\ UNCHANGED <<allDrainable, drainState, busy, count, assertFailed, lost>>

(* simulate() returns 'Finished drain'; drain() goes round its loop.  Exit *)
(* events with another cause only make the script simulate on.             *)
FinishedDrain ==
    /\ script = "wait" /\ exitEvent
    /\ exitEvent' = FALSE
    /\ script' = "tryDrain"
    /\ UNCHANGED <<allDrainable, drainState, busy, count, state, assertFailed, lost>>

(* The next simulate() calls resume().                                     *)
resume ==
    /\ script = "drained"
    /\ state = "Drained" /\ count = 0
    /\ state' = "Resuming"
    /\ script' = "resuming"
    /\ UNCHANGED <<allDrainable, drainState, busy, count, exitEvent, assertFailed, lost>>

(* An object that does not run yet is resumed; drainResume() of one that   *)
(* owns others may replace them (HDLcd gets a new DMA engine), and the new *)
(* ones take the manager's state, Resuming.                                *)
dmDrainResume(o) ==
    /\ script = "resuming"
    /\ o \in allDrainable /\ drainState[o] # "Running"
    /\ \E new \in SUBSET (Dynamic \ allDrainable), old \in SUBSET (Dynamic \cap allDrainable) :
         /\ o \in Dynamic => new = {} /\ old = {}
         /\ allDrainable' = (allDrainable \cup new) \ old
         /\ drainState' = [p \in Objects |-> IF p = o THEN "Running" ELSE
                              IF p \in new THEN state ELSE drainState[p]]
         /\ busy' = [p \in Objects |-> busy[p] /\ p \notin new]
    /\ UNCHANGED <<count, state, exitEvent, script, assertFailed, lost>>

allInState == \A o \in allDrainable : drainState[o] = "Running"

(* The passes over the objects end when all of them run.                   *)
ResumeDone ==
    /\ script = "resuming" /\ allInState
    /\ state' = "Running"
    /\ script' = "simulate"
    /\ UNCHANGED <<allDrainable, drainState, busy, count, exitEvent, assertFailed, lost>>

-----------------------------------------------------------------------------
(*                   The objects, while the loop runs                      *)

Simulating == script \in {"simulate", "wait"} /\ ~assertFailed

Mut_MustSignal(o) == drainState[o] # "Running"

(* Drainable::signalDrainDone does nothing unless the object is draining.  *)
MustSignal(o) == drainState[o] = "Draining"

Mut_LastSignal(left) == FALSE

Mut_AnySignal(left) == TRUE

(* The manager leaves the loop when its counter reaches zero.              *)
LastSignal(left) == left = 0

signalDrainDone(o) ==
    \/ /\ ~MustSignal(o)
       /\ UNCHANGED <<drainState, count, exitEvent, assertFailed>>
    \/ /\ MustSignal(o)
       /\ drainState' = [drainState EXCEPT ![o] = "Drained"]
       /\ assertFailed' = (count = 0)
       /\ count' = IF count = 0 THEN 0 ELSE count - 1
       /\ exitEvent' = (exitEvent \/ (count > 0 /\ LastSignal(count')))

(* A running object starts work of its own.                                *)
StartWork(o) ==
    /\ Simulating
    /\ o \in allDrainable /\ ~busy[o] /\ drainState[o] = "Running"
    /\ busy' = [busy EXCEPT ![o] = TRUE]
    /\ UNCHANGED <<allDrainable, drainState, count, state, exitEvent, script,
                   assertFailed, lost>>

(* An engine made during the drain is Draining without having been asked;  *)
(* it fetches nothing in that state (DmaReadFifo::resumeFill).             *)
TakesWork(p) == drainState[p] # "Draining"

(* A busy object gives work to another, also to one that has drained.      *)
Disturb(o, p) ==
    /\ Simulating
    /\ <<o, p>> \in Feeds
    /\ {o, p} \subseteq allDrainable /\ busy[o] /\ ~busy[p] /\ TakesWork(p)
    /\ busy' = [busy EXCEPT ![p] = TRUE]
    /\ UNCHANGED <<allDrainable, drainState, count, state, exitEvent, script,
                   assertFailed, lost>>

(* An object has no work left and says so.                                 *)
FinishWork(o) ==
    /\ Simulating
    /\ o \in allDrainable /\ busy[o]
    /\ busy' = [busy EXCEPT ![o] = FALSE]
    /\ signalDrainDone(o)
    /\ UNCHANGED <<allDrainable, state, script, lost>>

(* The constructor registers the object in the manager's state, Draining   *)
(* during a drain, and leaves the counter alone.                           *)
Create(o) ==
    /\ Simulating
    /\ o \in Dynamic \ allDrainable
    /\ allDrainable' = allDrainable \cup {o}
    /\ drainState' = [drainState EXCEPT ![o] = state]
    /\ busy' = [busy EXCEPT ![o] = FALSE]
    /\ UNCHANGED <<count, state, exitEvent, script, assertFailed, lost>>

(* An object that was asked, was busy and has not signalled since.         *)
Counted(o) == drainState[o] = "Draining" /\ busy[o]

(* The destructor only unregisters it, counted or not.                     *)
Destroy(o) ==
    /\ Simulating
    /\ o \in Dynamic \cap allDrainable
    /\ allDrainable' = allDrainable \ {o}
    /\ lost' = IF Counted(o) THEN lost + 1 ELSE lost
    /\ UNCHANGED <<drainState, busy, count, state, exitEvent, script,
                   assertFailed>>

Next ==
    \/ Startup \/ preCheckpointRestore \/ Drain \/ tryDrain
    \/ FinishedDrain \/ resume \/ ResumeDone
    \/ \E o \in Objects : dmDrainResume(o)
    \/ \E o \in Objects : StartWork(o) \/ FinishWork(o) \/ Create(o) \/ Destroy(o)
    \/ \E o, p \in Objects : Disturb(o, p)

Spec == Init /\ [][Next]_vars

(* The script runs on and objects finish their work.                       *)
FairSpec ==
    /\ Spec
    /\ WF_vars(tryDrain) /\ WF_vars(FinishedDrain) /\ WF_vars(ResumeDone)
    /\ WF_vars(\E o \in Objects : dmDrainResume(o))
    /\ \A o \in Objects : WF_vars(FinishWork(o))

-----------------------------------------------------------------------------
(*                              Properties                                 *)

StillDraining == {o \in allDrainable : drainState[o] = "Draining"}
Owing == {o \in allDrainable : Counted(o)}

(* Type invariant; the unsigned _count never wraps below zero, nor exceeds *)
(* the number of objects.                                                  *)
TypeOK ==
    /\ allDrainable \subseteq Objects
    /\ drainState \in [Objects -> DrainStates]
    /\ busy \in [Objects -> BOOLEAN]
    /\ count \in 0..Cardinality(Objects)
    /\ state \in DrainStates
    /\ exitEvent \in BOOLEAN
    /\ script \in {"instantiate", "simulate", "tryDrain", "wait", "drained",
                  "resuming"}
    /\ assertFailed \in BOOLEAN /\ lost \in Nat

(* In a Drained system, the one that is checkpointed or switched, every    *)
(* object is in the Drained state and none has work in progress, although  *)
(* objects disturb each other between their signal and the next round.     *)
DrainedIsQuiescent ==
    state = "Drained" =>
        \A o \in allDrainable : drainState[o] = "Drained" /\ ~busy[o]

(* The counter is the number of objects whose signal is awaited, and the   *)
(* loop is left when there are none, except that the counter never forgets *)
(* one that is destroyed first: ~Drainable only unregisters it.  The       *)
(* comment on _count says "Number of objects still draining".  Objects     *)
(* constructed during the drain are Draining too, but are not counted.     *)
CountIsOwed ==
    /\ count = Cardinality(Owing) + lost
    /\ script = "wait" => (exitEvent <=> Owing = {} /\ lost = 0)

(* The panics of tryDrain and resume and the assertion of resume cannot    *)
(* happen: a round starts with the counter at zero in a system that is not *)
(* Drained, and a resume finds no object still draining.  Nor can that of  *)
(* signalDrainDone, assert(_count > 0): it is "safe to call multiple times *)
(* and there is no need to check that draining has been requested".        *)
ScriptNeverPanics ==
    /\ script = "tryDrain" => state # "Drained" /\ count = 0
    /\ script = "drained" => /\ state = "Drained" /\ count = 0
                             /\ StillDraining = {}
    /\ ~assertFailed

(* When the simulation runs again every object runs, also one that was     *)
(* created while others were being resumed: "we have to resume objects     *)
(* until all objects are in the Running state".                            *)
AllResumed == script = "simulate" => \A o \in allDrainable : drainState[o] = "Running"

(* A drain that is started finishes, unless an object is destroyed between *)
(* being counted and signalling: then it never does.  (The class comment   *)
(* has no exception: "simulation stops when the set of non-drained objects *)
(* becomes empty".)  The resume finishes too, although it creates objects  *)
(* to be resumed.                                                          *)
DrainFinishes == /\ script = "tryDrain" ~> script = "drained" \/ lost > 0
                 /\ [](lost > 0 => [](script = "wait"))
                 /\ script = "resuming" ~> script = "simulate"
=============================================================================
