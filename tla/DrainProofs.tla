---------------------------- MODULE DrainProofs -----------------------------
(***************************************************************************)
(* The drain protocol for any number of objects, any relation of           *)
(* disturbance, and objects constructed and destroyed at any time the      *)
(* simulation runs, drains included.                                       *)
(***************************************************************************)
EXTENDS DrainManager, FiniteSetTheorems, TLAPS

(* The inductive invariant: what each point of the script knows.           *)
DrainInv ==
    /\ TypeOK
    /\ count = Cardinality(Owing) + lost
    /\ script = "wait" => state = "Draining" /\ (exitEvent <=> count = 0)
    /\ script # "wait" => ~exitEvent /\ count = 0
    /\ script \notin {"tryDrain", "wait"} => StillDraining = {}
    /\ script \in {"instantiate", "simulate"} => state = "Running"
    /\ script = "tryDrain" => state \in {"Running", "Draining"}
    /\ script = "drained" => state = "Drained"
    /\ script = "resuming" => state = "Resuming"
    /\ AllResumed
    /\ script = "instantiate" =>
          \A o \in Objects : ~busy[o] /\ drainState[o] = "Running"
    /\ DrainedIsQuiescent
    /\ ~assertFailed

(* Sets of objects are finite and no larger than Objects.                  *)
LEMMA ObjectsFinite ==
  ASSUME NEW S \in SUBSET Objects
  PROVE  /\ IsFiniteSet(S) /\ Cardinality(S) \in Nat
         /\ Cardinality(S) <= Cardinality(Objects)
         /\ Cardinality(Objects) \in Nat
         /\ Cardinality(S) = 0 <=> S = {}
  BY FS_Subset, FS_CardinalityType, FS_EmptySet, DrainAssumption DEF DrainAssumption

(* The counter is zero exactly if no signal is awaited and none was lost.  *)
LEMMA CountZero ==
  ASSUME DrainInv
  PROVE  /\ Owing \in SUBSET Objects /\ Cardinality(Owing) \in Nat
         /\ lost \in Nat /\ count \in Nat
         /\ count = 0 <=> Owing = {} /\ lost = 0
<1>1. Owing \in SUBSET Objects /\ lost \in Nat
  BY DEF DrainInv, TypeOK, Owing
<1>2. Cardinality(Owing) \in Nat /\ (Cardinality(Owing) = 0 <=> Owing = {})
  BY <1>1, ObjectsFinite
<1> QED
  BY <1>1, <1>2 DEF DrainInv

(* Initially nothing drains.                                               *)
LEMMA DrainInitInv == Init => DrainInv
<1> SUFFICES ASSUME Init PROVE DrainInv
  OBVIOUS
<1>1. StillDraining = {} /\ Owing = {}
  BY DrainAssumption DEF Init, StillDraining, Owing, Counted, DrainAssumption
<1>2. TypeOK
  <2>1. count \in 0..Cardinality(Objects) /\ lost \in Nat
    BY ObjectsFinite, Objects \in SUBSET Objects DEF Init
  <2> QED
    BY <2>1, DrainAssumption, Zenon DEF Init, TypeOK, DrainStates, DrainAssumption
<1>3. count = Cardinality(Owing) + lost
  BY <1>1, FS_EmptySet DEF Init
<1>4. ~exitEvent /\ ~assertFailed /\ \A o \in Objects : ~busy[o]
  BY Zenon DEF Init
<1> QED
  BY <1>1, <1>2, <1>3, <1>4 DEF Init, DrainInv, DrainedIsQuiescent, AllResumed

(* The steps of the script keep the invariant.                             *)
LEMMA ScriptInv ==
  ASSUME DrainInv, \/ Startup \/ preCheckpointRestore \/ Drain
                   \/ FinishedDrain \/ resume \/ ResumeDone
  PROVE  DrainInv'
<1>1. CASE Startup \/ Drain \/ FinishedDrain
  <2>1. UNCHANGED <<allDrainable, drainState, busy, count, state, assertFailed, lost>>
    BY <1>1 DEF Startup, Drain, FinishedDrain
  <2>2. StillDraining' = StillDraining /\ Owing' = Owing
    BY <2>1 DEF StillDraining, Owing, Counted
  <2>4. CASE Startup
    BY <2>1, <2>2, <2>4 DEF Startup, DrainInv, TypeOK, DrainedIsQuiescent, AllResumed
  <2>5. CASE Drain
    BY <2>1, <2>2, <2>5 DEF Drain, DrainInv, TypeOK, DrainedIsQuiescent, AllResumed
  <2>6. CASE FinishedDrain
    <3>1. script = "wait" /\ script' = "tryDrain" /\ exitEvent
      BY <2>6 DEF FinishedDrain
    <3>2. exitEvent' \in BOOLEAN /\ ~exitEvent'
      BY <2>6, Zenon DEF FinishedDrain
    <3>3. count = 0 /\ state = "Draining"
      BY <3>1 DEF DrainInv
    <3> QED
      BY <2>1, <2>2, <3>1, <3>2, <3>3 DEF DrainInv, TypeOK, DrainedIsQuiescent, AllResumed
  <2> QED
    BY <1>1, <2>4, <2>5, <2>6
<1>2. CASE preCheckpointRestore
  <2>1. /\ script = "instantiate" /\ script' = "drained" /\ state' = "Drained"
        /\ allDrainable' \subseteq Objects
        /\ drainState' = [o \in Objects |-> IF o \in allDrainable' THEN "Drained"
                                                                   ELSE drainState[o]]
        /\ UNCHANGED <<busy, count, exitEvent, assertFailed, lost>>
    BY <1>2, DrainAssumption DEF preCheckpointRestore, DrainAssumption, DrainInv, TypeOK
  <2>2. StillDraining' = {} /\ Owing' = {} /\ Owing = {}
    BY <2>1 DEF StillDraining, Owing, Counted, DrainInv, TypeOK
  <2>3. TypeOK'
    BY <2>1 DEF DrainInv, TypeOK, DrainStates
  <2>4. DrainedIsQuiescent'
    BY <2>1 DEF DrainInv, DrainedIsQuiescent
  <2> QED
    BY <2>1, <2>2, <2>3, <2>4 DEF DrainInv, AllResumed
<1>3. CASE resume \/ ResumeDone
  <2>1. UNCHANGED <<allDrainable, drainState, busy, count, exitEvent, assertFailed, lost>>
    BY <1>3 DEF resume, ResumeDone
  <2>2. StillDraining' = StillDraining /\ StillDraining = {} /\ Owing' = Owing
    BY <1>3, <2>1 DEF resume, ResumeDone, StillDraining, Owing, Counted, DrainInv
  <2>3. TypeOK'
    BY <1>3, <2>1 DEF resume, ResumeDone, DrainInv, TypeOK, DrainStates
  <2> QED
    BY <1>3, <2>1, <2>2, <2>3
    DEF resume, ResumeDone, allInState, DrainInv, DrainedIsQuiescent, AllResumed
<1> QED
  BY <1>1, <1>2, <1>3

(* Resuming an object, and replacing others, leaves nothing draining.      *)
LEMMA ResumeInv ==
  ASSUME DrainInv, NEW o \in Objects, dmDrainResume(o)
  PROVE  DrainInv'
<1>1. PICK new \in SUBSET (Dynamic \ allDrainable),
           old \in SUBSET (Dynamic \cap allDrainable) :
        /\ allDrainable' = (allDrainable \cup new) \ old
        /\ drainState' = [p \in Objects |-> IF p = o THEN "Running" ELSE
                             IF p \in new THEN state ELSE drainState[p]]
        /\ busy' = [p \in Objects |-> busy[p] /\ p \notin new]
  BY DEF dmDrainResume
<1>2. /\ script = "resuming" /\ state = "Resuming" /\ StillDraining = {}
      /\ UNCHANGED <<count, state, exitEvent, script, assertFailed, lost>>
  BY DEF dmDrainResume, DrainInv
<1>3. allDrainable' \subseteq Objects
  BY <1>1, DrainAssumption DEF DrainAssumption, DrainInv, TypeOK
<1>4. StillDraining' = {}
  BY <1>1, <1>2, <1>3 DEF StillDraining, DrainInv, TypeOK
<1>5. drainState' \in [Objects -> DrainStates]
  BY <1>1, <1>2 DEF DrainInv, TypeOK, DrainStates
<1>6. busy' \in [Objects -> BOOLEAN]
  BY <1>1, Zenon DEF DrainInv, TypeOK
<1>7. TypeOK'
  BY <1>2, <1>3, <1>5, <1>6 DEF DrainInv, TypeOK
<1>8. Owing = {} /\ Owing' = {}
  BY <1>2, <1>4 DEF Owing, Counted, StillDraining
<1> QED
  BY <1>2, <1>4, <1>7, <1>8 DEF DrainInv, DrainedIsQuiescent, AllResumed

(* A round counts exactly the objects that answered Draining.              *)
LEMMA TryDrainInv ==
  ASSUME DrainInv, tryDrain
  PROVE  DrainInv'
<1>1. StillDraining' = NotReady /\ Owing' = NotReady
  BY DEF tryDrain, StillDraining, Owing, Counted, NotReady, DrainInv, TypeOK
<1>2. NotReady \in SUBSET Objects
  BY DEF NotReady, DrainInv, TypeOK
<1>3. count' \in 0..Cardinality(Objects) /\ (count' = 0 <=> NotReady = {})
  BY <1>2, ObjectsFinite DEF tryDrain
<1>4. TypeOK'
  <2>1. drainState' \in [Objects -> DrainStates]
    BY DEF tryDrain, DrainInv, TypeOK, DrainStates
  <2>2. state' \in DrainStates
    BY DEF tryDrain, DrainStates
  <2> QED
    BY <1>3, <2>1, <2>2 DEF tryDrain, DrainInv, TypeOK
<1>5. DrainedIsQuiescent'
  <2> SUFFICES ASSUME state' = "Drained", NEW o \in allDrainable
               PROVE  drainState'[o] = "Drained" /\ ~busy[o]
    BY DEF DrainedIsQuiescent, tryDrain
  <2>1. NotReady = {}
    BY <1>3 DEF tryDrain
  <2>2. ~busy[o] /\ o \in Objects
    BY <2>1 DEF NotReady, DrainInv, TypeOK
  <2> QED
    BY <2>2 DEF tryDrain
<1>6. lost = 0 /\ lost' = 0
  BY CountZero DEF tryDrain
<1>7. count' = Cardinality(Owing') + lost'
  BY <1>1, <1>6, <1>2, ObjectsFinite DEF tryDrain
<1> QED
  BY <1>1, <1>3, <1>4, <1>5, <1>7 DEF tryDrain, DrainInv, AllResumed

(* Starting or passing on work does not touch the protocol: what is given  *)
(* work is not in the Draining state.                                      *)
LEMMA WorkInv ==
  ASSUME DrainInv, NEW o \in Objects, NEW p \in Objects,
         StartWork(o) \/ Disturb(o, p)
  PROVE  DrainInv'
<1>1. /\ UNCHANGED <<allDrainable, drainState, count, state, exitEvent, script,
                     assertFailed, lost>>
      /\ busy' \in [Objects -> BOOLEAN]
      /\ script \in {"simulate", "wait"}
  BY Zenon DEF StartWork, Disturb, Simulating, DrainInv, TypeOK
<1>2. \E q \in Objects : drainState[q] # "Draining" /\ busy' = [busy EXCEPT ![q] = TRUE]
  BY DEF StartWork, Disturb, TakesWork
<1>3. StillDraining' = StillDraining
  BY <1>1 DEF StillDraining
<1>4. Owing' = Owing
  BY <1>1, <1>2 DEF Owing, Counted, DrainInv, TypeOK
<1> QED
  BY <1>1, <1>3, <1>4 DEF DrainInv, TypeOK, DrainedIsQuiescent, AllResumed

(* A signal takes one object out of the count; the last one ends the loop. *)
LEMMA FinishWorkInv ==
  ASSUME DrainInv, NEW o \in Objects, FinishWork(o)
  PROVE  DrainInv'
<1>1. /\ UNCHANGED <<allDrainable, state, script, lost>>
      /\ busy' = [busy EXCEPT ![o] = FALSE]
      /\ script \in {"simulate", "wait"} /\ state # "Drained"
      /\ o \in allDrainable /\ busy[o]
  BY DEF FinishWork, Simulating, DrainInv, TypeOK
<1>b. busy' \in [Objects -> BOOLEAN]
  BY <1>1, Zenon DEF DrainInv, TypeOK
<1>2. CASE ~MustSignal(o)
  <2>1. UNCHANGED <<drainState, count, exitEvent, assertFailed>>
    BY <1>2 DEF FinishWork, signalDrainDone
  <2>2. StillDraining' = StillDraining
    BY <1>1, <2>1 DEF StillDraining
  <2>3. Owing' = Owing
    BY <1>1, <1>2, <2>1 DEF Owing, Counted, MustSignal, DrainInv, TypeOK
  <2> QED
    BY <1>1, <1>b, <2>1, <2>2, <2>3 DEF DrainInv, TypeOK, DrainedIsQuiescent, AllResumed
<1>3. CASE MustSignal(o)
  <2>1. o \in Owing /\ o \in StillDraining
    BY <1>1, <1>3 DEF MustSignal, Owing, Counted, StillDraining, DrainInv, TypeOK
  <2>2. count > 0 /\ script = "wait" /\ count \in Nat
    <3>1. count # 0 /\ count \in Nat
      BY <2>1, CountZero
    <3>2. script = "wait"
      BY <1>1, <2>1 DEF DrainInv
    <3> QED
      BY <3>1, <3>2
  <2>3. /\ drainState' = [drainState EXCEPT ![o] = "Drained"]
        /\ count' = count - 1
        /\ ~assertFailed'
        /\ exitEvent' = (exitEvent \/ count' = 0)
    <3>1. signalDrainDone(o)
      BY DEF FinishWork
    <3>2. count # 0
      BY <2>2
    <3>3. /\ drainState' = [drainState EXCEPT ![o] = "Drained"]
          /\ assertFailed' = (count = 0)
          /\ count' = IF count = 0 THEN 0 ELSE count - 1
          /\ exitEvent' = (exitEvent \/ (count > 0 /\ count' = 0))
      BY <1>3, <3>1, Zenon DEF signalDrainDone, LastSignal
    <3>4. ~assertFailed'
      BY <3>2, <3>3, Zenon
    <3>5. exitEvent' = (exitEvent \/ count' = 0)
      BY <2>2, <3>3, Zenon
    <3> QED
      BY <3>2, <3>3, <3>4, <3>5
  <2>4. Owing' = Owing \ {o}
    BY <1>1, <2>3 DEF Owing, Counted, DrainInv, TypeOK
  <2>5. Cardinality(Owing') = Cardinality(Owing) - 1
    BY <2>1, <2>4, ObjectsFinite, CountZero, FS_RemoveElement
  <2>6. count' \in 0..Cardinality(Objects)
    BY <2>2, <2>3, ObjectsFinite, Objects \in SUBSET Objects DEF DrainInv, TypeOK
  <2>7. drainState' \in [Objects -> DrainStates]
    BY <2>3 DEF DrainInv, TypeOK, DrainStates
  <2>8. exitEvent' \in BOOLEAN /\ (exitEvent' <=> count' = 0)
    <3>1. ~exitEvent
      BY <2>2 DEF DrainInv
    <3> QED
      BY <2>3, <3>1, Zenon
  <2> QED
    <3>1. TypeOK'
      <4>1. assertFailed' \in BOOLEAN
        BY <2>3 DEF FinishWork, signalDrainDone, DrainInv, TypeOK
      <4> QED
        BY <1>1, <1>b, <2>6, <2>7, <2>8, <4>1 DEF DrainInv, TypeOK
    <3>2. count' = Cardinality(Owing') + lost'
      BY <1>1, <2>3, <2>5, CountZero DEF DrainInv
    <3>3. /\ script' = "wait" /\ state' = "Draining" /\ DrainedIsQuiescent'
          /\ AllResumed'
      BY <1>1, <2>2 DEF DrainInv, DrainedIsQuiescent, AllResumed
    <3> QED
      BY <2>3, <2>8, <3>1, <3>2, <3>3 DEF DrainInv
<1> QED
  BY <1>2, <1>3

(* A new object is not counted, whatever its state; a destroyed one stays  *)
(* counted if its signal was awaited.                                      *)
LEMMA LifetimeInv ==
  ASSUME DrainInv, NEW o \in Objects, Create(o) \/ Destroy(o)
  PROVE  DrainInv'
<1>1. /\ UNCHANGED <<count, state, exitEvent, script, assertFailed>>
      /\ script \in {"simulate", "wait"} /\ state # "Drained"
      /\ allDrainable' \subseteq Objects
  BY DEF Create, Destroy, Simulating, DrainInv, TypeOK
<1>2. drainState' \in [Objects -> DrainStates] /\ busy' \in [Objects -> BOOLEAN]
  BY Zenon DEF Create, Destroy, DrainInv, TypeOK
<1>3. lost' \in Nat /\ count = Cardinality(Owing') + lost'
  <2>1. CASE Create(o)
    <3>1. Owing' = Owing /\ lost' = lost
      BY <2>1 DEF Create, Owing, Counted, DrainInv, TypeOK
    <3> QED
      BY <3>1, CountZero DEF DrainInv
  <2>2. CASE Destroy(o) /\ ~Counted(o)
    <3>1. Owing' = Owing /\ lost' = lost
      BY <2>2 DEF Destroy, Owing, Counted
    <3> QED
      BY <3>1, CountZero DEF DrainInv
  <2>3. CASE Destroy(o) /\ Counted(o)
    <3>1. Owing' = Owing \ {o} /\ o \in Owing /\ lost' = lost + 1
      BY <2>3 DEF Destroy, Owing, Counted
    <3>2. Cardinality(Owing') = Cardinality(Owing) - 1
      BY <3>1, ObjectsFinite, CountZero, FS_RemoveElement
    <3> QED
      BY <3>1, <3>2, CountZero DEF DrainInv
  <2> QED
    BY <2>1, <2>2, <2>3
<1>4. script = "simulate" => StillDraining' = {} /\ AllResumed'
  <2>1. CASE Create(o)
    BY <1>1, <2>1 DEF Create, AllResumed, StillDraining, DrainInv, TypeOK
  <2>2. CASE Destroy(o)
    BY <1>1, <2>2 DEF Destroy, AllResumed, StillDraining, DrainInv
  <2> QED
    BY <2>1, <2>2
<1>5. TypeOK'
  BY <1>1, <1>2, <1>3 DEF DrainInv, TypeOK
<1>6. AllResumed'
  BY <1>1, <1>4 DEF AllResumed
<1> QED
  BY <1>1, <1>3, <1>4, <1>5, <1>6 DEF DrainInv, DrainedIsQuiescent

(* Every step keeps the invariant.                                         *)
LEMMA DrainNextInv ==
  ASSUME DrainInv, [Next]_vars
  PROVE  DrainInv'
<1>1. CASE UNCHANGED vars
  BY <1>1 DEF vars, DrainInv, TypeOK, StillDraining, Owing, Counted,
              DrainedIsQuiescent, AllResumed
<1>2. CASE Next
  BY <1>2, ScriptInv, ResumeInv, TryDrainInv, WorkInv, FinishWorkInv, LifetimeInv DEF Next
<1> QED
  BY <1>1, <1>2

(* The invariant holds in every reachable state.                           *)
THEOREM DrainInvariant == Spec => []DrainInv
<1>1. DrainInv /\ [Next]_vars => DrainInv'
  BY DrainNextInv
<1> QED
  BY <1>1, DrainInitInv, PTL DEF Spec

(* A system the script takes for Drained has no object with work left,     *)
(* whatever objects disturb each other, come and go while they drain.      *)
THEOREM DrainQuiescence == Spec => []DrainedIsQuiescent
<1>1. DrainInv => DrainedIsQuiescent
  BY DEF DrainInv
<1> QED
  BY <1>1, DrainInvariant, PTL

(* The counter of the drain manager is the number of objects whose signal  *)
(* is awaited and of those destroyed before it came, and the loop is left  *)
(* exactly when there are none.                                            *)
THEOREM DrainCount == Spec => []CountIsOwed
<1>1. DrainInv => CountIsOwed
  BY CountZero DEF DrainInv, CountIsOwed
<1> QED
  BY <1>1, DrainInvariant, PTL

(* tryDrain and resume are never called in a state in which they panic,    *)
(* and signalDrainDone never finds its counter at zero.                    *)
THEOREM DrainNoPanic == Spec => []ScriptNeverPanics
<1>1. DrainInv => ScriptNeverPanics
  BY CountZero DEF DrainInv, ScriptNeverPanics
<1> QED
  BY <1>1, DrainInvariant, PTL

(* Once an object is destroyed between being counted and signalling, the   *)
(* drain never ends: the script stays in its wait.                         *)
THEOREM DrainStuck == Spec => [][lost > 0 => script = "wait" /\ script' = "wait"]_vars
<1>1. DrainInv => (lost > 0 => script = "wait" /\ ~exitEvent)
  BY CountZero DEF DrainInv
<1>2. ASSUME DrainInv, [Next]_vars, lost > 0
      PROVE  script' = "wait"
  <2>1. script = "wait" /\ ~exitEvent
    BY <1>1, <1>2
  <2> QED
    BY <1>2, <2>1
    DEF Next, vars, Startup, preCheckpointRestore, Drain, tryDrain, FinishedDrain, resume,
        ResumeDone, dmDrainResume, StartWork, FinishWork, Create, Destroy, Disturb
<1>3. DrainInv /\ [Next]_vars => [lost > 0 => script = "wait" /\ script' = "wait"]_vars
  BY <1>1, <1>2
<1> QED
  BY <1>3, DrainInvariant, PTL DEF Spec

(* When the simulation runs again, every object runs, those created while  *)
(* the others were being resumed included.                                 *)
THEOREM DrainAllResumed == Spec => []AllResumed
<1>1. DrainInv => AllResumed
  BY DEF DrainInv
<1> QED
  BY <1>1, DrainInvariant, PTL
=============================================================================
