---------------------------- MODULE WorkerPoolProofs ----------------------------
(***************************************************************************)
(* The workers are counted right, their creator polls no record that has   *)
(* been freed, and no task is in two places, for any number of threads and *)
(* tasks and any limits.                                                   *)
(***************************************************************************)
EXTENDS WorkerPool, FiniteSetTheorems, TLAPS

Place == {"none", "asleep", "awake", "test", "pop", "run", "count", "decide", "leaving"}

Staff == {w \in Worker : pc[w] # "none"}

WorkerTyped ==
    /\ pc \in [Worker -> Place] /\ seen \in [Worker -> Int]
    /\ creating \in [{"starter", "master"} -> Worker \cup {NoOne}]
    /\ started \in Nat /\ workerNum \in Int
    /\ IsFiniteSet(workers)

\* How the state, factory_start and the master thread go together.
Phases ==
    /\ state \in {"ready", "start", "over"}
    /\ state = "ready" <=> starter \in {"start", "mastered"}
    /\ starter = "start" => master = "none"
    /\ creating["starter"] # NoOne => starter = "start" /\ started < WorkerMin
    /\ creating["master"] # NoOne <=> master = "creating"
    /\ started <= WorkerMin
    /\ starter # "start" => started = WorkerMin
    /\ state = "ready" => master \in {"none", "test", "leaving", "gone"}

\* Until the master thread has found the state START, and for good when it has
\* found it too early.
Early == state = "ready" \/ (master \in {"leaving", "gone"} /\ state # "over")

\* Till then the workers are those that factory_start has made, and all stay.
EarlyStaff ==
    Early =>
        /\ IsFiniteSet(Staff)
        /\ Cardinality(Staff) = started + (IF creating["starter"] = NoOne THEN 0 ELSE 1)
        /\ \A w \in Worker : pc[w] # "leaving" /\ seen[w] <= WorkerMin

\* A worker the master thread has created cannot register before the master has
\* seen it: it would need the mutex.
Polled ==
    /\ creating["master"] # NoOne => pc[creating["master"]] \in {"asleep", "awake"}
    /\ creating["starter"] # NoOne => pc[creating["starter"]] # "none"

WorkerIInv == WorkerTyped /\ Phases /\ WorkersCounted /\ EarlyStaff /\ Polled

-----------------------------------------------------------------------------
LEMMA WorkerInitHolds == WorkerInit => WorkerIInv
<1>1. SUFFICES ASSUME WorkerInit PROVE WorkerIInv
  OBVIOUS
<1>2. IsFiniteSet({}) /\ Cardinality({}) = 0
  BY FS_EmptySet
<1>3. workers = {} /\ Staff = {} /\ {w \in Worker : pc[w] \notin Unregistered} = {}
  BY <1>1 DEF WorkerInit, Staff, Unregistered
<1>4. WorkerTyped
  BY <1>1, <1>2, <1>3, WorkerAssumption DEF WorkerInit, WorkerTyped, Place
<1>5. Phases
  BY <1>1, WorkerAssumption DEF WorkerInit, Phases
<1>6. WorkersCounted
  BY <1>1, <1>2, <1>3 DEF WorkerInit, WorkersCounted
<1>7. EarlyStaff
  BY <1>1, <1>2, <1>3, WorkerAssumption DEF WorkerInit, EarlyStaff
<1>8. Polled
  BY <1>1 DEF WorkerInit, Polled
<1>9. QED BY <1>4, <1>5, <1>6, <1>7, <1>8 DEF WorkerIInv

-----------------------------------------------------------------------------
(* The steps that neither create a worker nor register nor release one:    *)
(* each worker stays where it is or moves within its kind.                 *)

Kind(p) == IF p = "none" THEN "none" ELSE IF p \in Unregistered THEN "new" ELSE "in list"

\* All that the invariant says of the workers depends on these.
LEMMA QuietStep ==
    ASSUME WorkerIInv, WorkerTyped', Phases',
           \A w \in Worker : Kind(pc'[w]) = Kind(pc[w]),
           UNCHANGED <<workers, workerNum>>, master' = "gone" <=> master = "gone",
           \A c \in {"starter", "master"} : creating'[c] \in {creating[c], NoOne},
           Early' => /\ Early
                     /\ started' + (IF creating'["starter"] = NoOne THEN 0 ELSE 1)
                        = started + (IF creating["starter"] = NoOne THEN 0 ELSE 1)
                     /\ \A w \in Worker : pc'[w] # "leaving" /\ seen'[w] <= WorkerMin
    PROVE  WorkerIInv'
<1>1. /\ \A w \in Worker : pc'[w] = "none" <=> pc[w] = "none"
      /\ \A w \in Worker : pc'[w] \in Unregistered <=> pc[w] \in Unregistered
  BY DEF Kind, Unregistered
<1>2. Staff' = Staff
  BY <1>1 DEF Staff
<1>3. {w \in Worker : pc'[w] \notin Unregistered} = {w \in Worker : pc[w] \notin Unregistered}
  BY <1>1
<1>4. WorkersCounted'
  BY <1>3 DEF WorkerIInv, WorkersCounted
<1>5. EarlyStaff'
  BY <1>2 DEF WorkerIInv, EarlyStaff
<1>6. Polled'
  <2>1. ASSUME creating'["master"] # NoOne
        PROVE  pc'[creating'["master"]] \in {"asleep", "awake"}
    <3>1. creating'["master"] = creating["master"] /\ creating["master"] \in Worker
      BY <2>1 DEF WorkerIInv, WorkerTyped
    <3>2. pc[creating["master"]] \in {"asleep", "awake"}
      BY <2>1, <3>1 DEF WorkerIInv, Polled
    <3>3. pc'[creating["master"]] \in Unregistered /\ pc'[creating["master"]] # "none"
      BY <1>1, <3>1, <3>2 DEF Unregistered
    <3>4. QED BY <3>1, <3>3 DEF Unregistered
  <2>2. ASSUME creating'["starter"] # NoOne
        PROVE  pc'[creating'["starter"]] # "none"
    <3>1. creating'["starter"] = creating["starter"] /\ creating["starter"] \in Worker
      BY <2>2 DEF WorkerIInv, WorkerTyped
    <3>2. pc[creating["starter"]] # "none"
      BY <2>2, <3>1 DEF WorkerIInv, Polled
    <3>3. QED BY <1>1, <3>1, <3>2
  <2>3. QED BY <2>1, <2>2 DEF Polled
<1>7. QED BY <1>4, <1>5, <1>6 DEF WorkerIInv
-----------------------------------------------------------------------------
(* What every step keeps.                                                  *)

LEMMA TypedStep == WorkerIInv /\ [WorkerNext]_workerVars => WorkerTyped'
<1>1. SUFFICES ASSUME WorkerIInv, [WorkerNext]_workerVars PROVE WorkerTyped'
  OBVIOUS
<1>2. WorkerTyped
  BY <1>1 DEF WorkerIInv
<1>3. CASE StarterStep
  <2>1. CASE FactoryStart
    BY <1>2, <2>1 DEF FactoryStart, WorkerCreate, WorkerTyped, Place, poolOfWorkers
  <2>2. CASE FactoryStartWorker
    BY <1>2, <2>2 DEF FactoryStartWorker, Created, WorkerTyped, poolOfWorkers
  <2>3. CASE FactoryStarted
    BY <1>2, <2>3 DEF FactoryStarted, WorkerTyped, poolOfWorkers
  <2>4. QED BY <1>3, <2>1, <2>2, <2>3 DEF StarterStep
<1>4. CASE MasterStep
  <2>1. CASE MasterTest
    BY <1>2, <2>1 DEF MasterTest, WorkerTyped, poolOfWorkers
  <2>2. CASE MasterCheck
    BY <1>2, <2>2 DEF MasterCheck, WorkerCreate, WorkerTyped, Place, poolOfWorkers
  <2>3. CASE MasterCreated
    BY <1>2, <2>3 DEF MasterCreated, Created, WorkerTyped, poolOfWorkers
  <2>4. CASE MasterDeinit
    BY <1>2, <2>4 DEF MasterDeinit, WorkerTyped
  <2>5. QED BY <1>4, <2>1, <2>2, <2>3, <2>4 DEF MasterStep
<1>5. ASSUME NEW w \in Worker, WorkerStep(w) PROVE WorkerTyped'
  <2>1. CASE WorkerDecide(w)
    BY <1>2, <2>1 DEF WorkerDecide, At, WorkerTyped, Place, poolOfWorkers
  <2>2. CASE WorkerWake(w) \/ WorkerTest(w) \/ FactoryTaskPop(w) \/ WorkerReturn(w)
    BY <1>2, <2>2 DEF WorkerWake, WorkerTest, FactoryTaskPop, WorkerReturn, At, WorkerTyped,
                      Place, poolOfWorkers
  <2>3. QED BY <1>5, <2>1, <2>2 DEF WorkerStep
<1>6. ASSUME NEW w \in Worker, WorkerLocking(w) PROVE WorkerTyped'
  <2>1. IsFiniteSet(workers \cup {w}) /\ IsFiniteSet(workers \ {w})
    BY <1>2, FS_AddElement, FS_RemoveElement DEF WorkerTyped
  <2>2. CASE FactoryWorkerCount(w)
    BY <1>2, <2>2 DEF FactoryWorkerCount, At, WorkerTyped, Place, poolOfWorkers
  <2>3. CASE WorkerRegister(w) \/ WorkerDeinit(w)
    <3>1. workers' = workers \cup {w} \/ workers' = workers \ {w}
      BY <2>3 DEF WorkerRegister, WorkerDeinit
    <3>2. IsFiniteSet(workers')
      BY <2>1, <3>1
    <3>3. /\ pc' \in [Worker -> Place] /\ workerNum' \in Int
          /\ UNCHANGED <<seen, creating, started>>
      BY <1>2, <2>3 DEF WorkerRegister, WorkerDeinit, At, WorkerTyped, Place
    <3>4. QED BY <1>2, <3>2, <3>3 DEF WorkerTyped
  <2>4. QED BY <1>6, <2>2, <2>3 DEF WorkerLocking
<1>7. CASE (\E t \in Task : FactoryTaskPush(t)) \/ ThreadEventProc \/ FactoryDeinit
           \/ FactoryDeinitDone \/ UNCHANGED workerVars
  BY <1>2, <1>7 DEF FactoryTaskPush, ThreadEventProc, FactoryDeinit, FactoryDeinitDone,
                    WorkerTyped, poolOfWorkers, workerVars
<1>8. QED BY <1>1, <1>3, <1>4, <1>5, <1>6, <1>7 DEF WorkerNext

LEMMA PhasesStep == WorkerIInv /\ [WorkerNext]_workerVars => Phases'
<1>1. SUFFICES ASSUME WorkerIInv, [WorkerNext]_workerVars PROVE Phases'
  OBVIOUS
<1>2. WorkerTyped /\ Phases
  BY <1>1 DEF WorkerIInv
<1>3. CASE StarterStep
  <2>1. CASE FactoryStart
    BY <1>2, <2>1, WorkerAssumption DEF FactoryStart, WorkerCreate, WorkerTyped, Phases
  <2>2. CASE FactoryStartWorker
    BY <1>2, <2>2, WorkerAssumption DEF FactoryStartWorker, Created, WorkerTyped, Phases
  <2>3. CASE FactoryStarted
    BY <1>2, <2>3 DEF FactoryStarted, Phases
  <2>4. QED BY <1>3, <2>1, <2>2, <2>3 DEF StarterStep
<1>4. CASE MasterStep
  <2>1. CASE MasterTest
    BY <1>2, <2>1 DEF MasterTest, Phases
  <2>2. CASE MasterCheck
    BY <1>2, <2>2, WorkerAssumption DEF MasterCheck, WorkerCreate, WorkerTyped, Phases
  <2>3. CASE MasterCreated
    BY <1>2, <2>3 DEF MasterCreated, Created, WorkerTyped, Phases
  <2>4. CASE MasterDeinit
    BY <1>2, <2>4 DEF MasterDeinit, Phases
  <2>5. QED BY <1>4, <2>1, <2>2, <2>3, <2>4 DEF MasterStep
<1>5. CASE \E w \in Worker : WorkerStep(w) \/ WorkerLocking(w)
  BY <1>2, <1>5 DEF WorkerStep, WorkerLocking, WorkerWake, WorkerTest, FactoryTaskPop, WorkerReturn,
                    WorkerDecide, WorkerRegister, FactoryWorkerCount, WorkerDeinit, Phases
<1>6. CASE (\E t \in Task : FactoryTaskPush(t)) \/ ThreadEventProc \/ UNCHANGED workerVars
  BY <1>2, <1>6 DEF FactoryTaskPush, ThreadEventProc, Phases, workerVars
<1>7. CASE FactoryDeinit \/ FactoryDeinitDone
  BY <1>2, <1>7 DEF FactoryDeinit, FactoryDeinitDone, Phases
<1>8. QED BY <1>1, <1>3, <1>4, <1>5, <1>6, <1>7 DEF WorkerNext
-----------------------------------------------------------------------------
(* The steps one by one.  TypedStep and PhasesStep hold of each.           *)

Kept == WorkerIInv /\ WorkerTyped' /\ Phases'

\* factory_start makes one more.
LEMMA StarterCreates ==
    ASSUME Kept, FactoryStart, started < WorkerMin
    PROVE  WorkerIInv'
<1>1. PICK w \in Worker : WorkerCreate("starter", w)
  BY WorkerAssumption DEF FactoryStart, Kept, WorkerIInv, WorkerTyped
<1>2. /\ pc[w] = "none" /\ pc' = [pc EXCEPT ![w] = "asleep"]
      /\ creating' = [creating EXCEPT !["starter"] = w]
      /\ creating["starter"] = NoOne /\ starter = "start"
      /\ UNCHANGED <<state, master, started, seen, workers, workerNum>>
  BY <1>1, WorkerAssumption DEF FactoryStart, WorkerCreate, poolOfWorkers, Kept, WorkerIInv, WorkerTyped
<1>3. WorkerTyped /\ Phases
  BY DEF Kept, WorkerIInv
<1>4. Early
  BY <1>2, <1>3 DEF Phases, Early
<1>5. Staff' = Staff \cup {w} /\ w \notin Staff
  BY <1>2, <1>3 DEF Staff, WorkerTyped
<1>6. /\ IsFiniteSet(Staff') /\ Cardinality(Staff') = Cardinality(Staff) + 1
      /\ Cardinality(Staff) = started
  <2>1. IsFiniteSet(Staff) /\ Cardinality(Staff) = started
    BY <1>2, <1>3, <1>4 DEF Kept, WorkerIInv, EarlyStaff, WorkerTyped
  <2>2. IsFiniteSet(Staff \cup {w})
    BY <2>1, FS_AddElement
  <2>3. Cardinality(Staff \cup {w})
          = IF w \in Staff THEN Cardinality(Staff) ELSE Cardinality(Staff) + 1
    BY <2>1, FS_AddElement
  <2>4. QED BY <1>5, <2>1, <2>2, <2>3
<1>7. creating'["starter"] = w /\ w # NoOne
  BY <1>2, <1>3, WorkerAssumption DEF WorkerTyped
<1>8. EarlyStaff'
  BY <1>2, <1>3, <1>4, <1>6, <1>7 DEF Kept, WorkerIInv, EarlyStaff, WorkerTyped
<1>9. {x \in Worker : pc'[x] \notin Unregistered} = {x \in Worker : pc[x] \notin Unregistered}
  BY <1>2, <1>3 DEF WorkerTyped, Unregistered
<1>10. WorkersCounted'
  BY <1>2, <1>9 DEF Kept, WorkerIInv, WorkersCounted
<1>11. Polled'
  BY <1>2, <1>3, <1>7 DEF Kept, WorkerIInv, Polled, WorkerTyped, Phases
<1>12. QED BY <1>8, <1>10, <1>11 DEF Kept, WorkerIInv

\* The master thread makes one more, or does not.
LEMMA MasterCreates ==
    ASSUME Kept, MasterCheck
    PROVE  WorkerIInv'
<1>1. WorkerTyped /\ Phases /\ master = "lock" /\ state # "ready"
  BY DEF Kept, WorkerIInv, MasterCheck, Phases
<1>2. ~Early' /\ UNCHANGED <<workers, workerNum>> /\ master' # "gone" /\ creating["starter"] = NoOne
  BY <1>1 DEF MasterCheck, Early, poolOfWorkers, Phases
<1>3. EarlyStaff'
  BY <1>2 DEF EarlyStaff
<1>4. CASE UNCHANGED <<pc, creating>>
  BY <1>1, <1>2, <1>3, <1>4 DEF Kept, WorkerIInv, WorkersCounted, Polled
<1>5. ASSUME NEW w \in Worker, WorkerCreate("master", w) PROVE WorkerIInv'
  <2>1. /\ pc[w] = "none" /\ pc' = [pc EXCEPT ![w] = "asleep"]
        /\ creating' = [creating EXCEPT !["master"] = w]
    BY <1>5 DEF WorkerCreate
  <2>2. {x \in Worker : pc'[x] \notin Unregistered} = {x \in Worker : pc[x] \notin Unregistered}
    BY <1>1, <2>1 DEF WorkerTyped, Unregistered
  <2>3. WorkersCounted'
    BY <1>1, <1>2, <2>2 DEF Kept, WorkerIInv, WorkersCounted
  <2>4. Polled'
    BY <1>1, <1>2, <2>1 DEF Polled, WorkerTyped
  <2>5. QED BY <1>3, <2>3, <2>4 DEF Kept, WorkerIInv
<1>6. QED BY <1>4, <1>5 DEF MasterCheck

LEMMA Registers ==
    ASSUME Kept, NEW w \in Worker, WorkerRegister(w)
    PROVE  WorkerIInv'
<1>1. /\ pc[w] = "awake" /\ pc' = [pc EXCEPT ![w] = "test"] /\ master # "creating"
      /\ workers' = workers \cup {w} /\ workerNum' = workerNum + 1
      /\ UNCHANGED <<state, starter, started, master, creating, seen>>
  BY DEF WorkerRegister, At, FactoryUnlocked
<1>2. WorkerTyped /\ Phases /\ WorkersCounted
  BY DEF Kept, WorkerIInv
<1>3. /\ w \notin workers
      /\ workers' = {x \in Worker : pc'[x] \notin Unregistered}
  BY <1>1, <1>2 DEF WorkersCounted, WorkerTyped, Unregistered
<1>4. Cardinality(workers') = Cardinality(workers) + 1 /\ Cardinality(workers) \in Nat
  BY <1>1, <1>2, <1>3, FS_AddElement, FS_CardinalityType DEF WorkerTyped
<1>5. WorkersCounted'
  BY <1>1, <1>2, <1>3, <1>4 DEF WorkersCounted
<1>6. Staff' = Staff
  BY <1>1, <1>2 DEF Staff, WorkerTyped
<1>7. EarlyStaff'
  BY <1>1, <1>2, <1>6 DEF Kept, WorkerIInv, EarlyStaff, WorkerTyped, Early
<1>8. Polled'
  BY <1>1, <1>2 DEF Kept, WorkerIInv, Polled, WorkerTyped, Phases
<1>9. QED BY <1>5, <1>7, <1>8 DEF Kept, WorkerIInv

LEMMA Deinits ==
    ASSUME Kept, NEW w \in Worker, WorkerDeinit(w)
    PROVE  WorkerIInv'
<1>1. /\ pc[w] = "leaving" /\ pc' = [pc EXCEPT ![w] = "none"] /\ master # "creating"
      /\ workers' = workers \ {w} /\ workerNum' = workerNum - 1
      /\ UNCHANGED <<state, starter, started, master, creating, seen>>
  BY DEF WorkerDeinit, At, FactoryUnlocked
<1>2. WorkerTyped /\ Phases /\ WorkersCounted
  BY DEF Kept, WorkerIInv
<1>3. /\ w \in workers
      /\ workers' = {x \in Worker : pc'[x] \notin Unregistered}
  BY <1>1, <1>2 DEF WorkersCounted, WorkerTyped, Unregistered
<1>4. Cardinality(workers') = Cardinality(workers) - 1 /\ Cardinality(workers) \in Nat
  BY <1>1, <1>2, <1>3, FS_RemoveElement, FS_CardinalityType DEF WorkerTyped
<1>5. WorkersCounted'
  BY <1>1, <1>2, <1>3, <1>4 DEF WorkersCounted
<1>6. ~Early
  BY <1>1 DEF Kept, WorkerIInv, EarlyStaff
<1>7. EarlyStaff'
  BY <1>1, <1>6 DEF EarlyStaff, Early
<1>8. creating["starter"] = NoOne /\ creating["master"] = NoOne
  BY <1>1, <1>2, <1>6 DEF Phases, Early
<1>9. Polled'
  BY <1>1, <1>8 DEF Polled
<1>10. QED BY <1>5, <1>7, <1>9 DEF Kept, WorkerIInv

\* The master thread is counted off, or the program ends.
LEMMA MasterDeinits ==
    ASSUME Kept, MasterDeinit
    PROVE  WorkerIInv'
<1>1. /\ master = "leaving" /\ UNCHANGED <<state, starter, started, creating, pc, seen, workers>>
      /\ \/ master' = master /\ workerNum' = workerNum
         \/ master' = "gone" /\ workerNum' = workerNum - 1
  BY DEF MasterDeinit
<1>2. WorkerTyped /\ WorkersCounted /\ Polled /\ EarlyStaff
  BY DEF Kept, WorkerIInv
<1>3. Cardinality(workers) \in Nat
  BY <1>2, FS_CardinalityType DEF WorkerTyped
<1>4. WorkersCounted'
  BY <1>1, <1>2, <1>3 DEF WorkersCounted
<1>5. Staff' = Staff /\ (Early' => Early)
  BY <1>1 DEF Staff, Early
<1>6. EarlyStaff'
  BY <1>1, <1>2, <1>5 DEF EarlyStaff
<1>7. Polled'
  BY <1>1, <1>2 DEF Polled
<1>8. QED BY <1>4, <1>6, <1>7 DEF Kept, WorkerIInv

\* The steps of one worker that only move it within the list or before it.
LEMMA WorkerSteps ==
    ASSUME Kept, NEW w \in Worker, WorkerStep(w)
    PROVE  WorkerIInv'
<1>1. WorkerIInv /\ WorkerTyped /\ Phases /\ WorkerTyped' /\ Phases'
  BY DEF Kept, WorkerIInv
<1>2. /\ UNCHANGED <<workers, workerNum, master, creating, state, started>>
      /\ \/ pc[w] = "asleep" /\ pc' = [pc EXCEPT ![w] = "awake"] /\ seen' = seen
         \/ /\ pc[w] = "test" /\ seen' = seen
            /\ pc' = [pc EXCEPT ![w] = IF state # "over" THEN "pop" ELSE "leaving"]
         \/ pc[w] = "pop" /\ pc' = [pc EXCEPT ![w] = "run"] /\ seen' = seen
         \/ pc[w] = "run" /\ pc' = [pc EXCEPT ![w] = "count"] /\ seen' = seen
         \/ /\ pc[w] = "decide" /\ seen' = [seen EXCEPT ![w] = 0]
            /\ pc' = [pc EXCEPT ![w] = IF seen[w] > WorkerMin THEN "leaving" ELSE "test"]
  BY DEF WorkerStep, WorkerWake, WorkerTest, FactoryTaskPop, WorkerReturn, WorkerDecide, At,
         poolOfWorkers
<1>3. \A x \in Worker : Kind(pc'[x]) = Kind(pc[x])
  BY <1>1, <1>2 DEF Kind, Unregistered, WorkerTyped
<1>4. ASSUME Early' PROVE Early /\ \A x \in Worker : pc'[x] # "leaving" /\ seen'[x] <= WorkerMin
  <2>1. Early /\ state # "over"
    BY <1>2, <1>4 DEF Early
  <2>2. \A x \in Worker : pc[x] # "leaving" /\ seen[x] <= WorkerMin
    BY <1>1, <2>1 DEF WorkerIInv, EarlyStaff
  <2>3. \A x \in Worker : seen[x] \in Int
    BY <1>1 DEF WorkerTyped
  <2>4. QED BY <1>1, <1>2, <2>1, <2>2, <2>3, WorkerAssumption DEF WorkerTyped
<1>5. QED BY <1>1, <1>2, <1>3, <1>4, QuietStep

\* A worker that counts the workers before the master thread has run counts at
\* most those that factory_start has made.
LEMMA Counts ==
    ASSUME Kept, NEW w \in Worker, FactoryWorkerCount(w)
    PROVE  WorkerIInv'
<1>1. WorkerIInv /\ WorkerTyped /\ Phases /\ WorkerTyped' /\ Phases'
  BY DEF Kept, WorkerIInv
<1>2. /\ UNCHANGED <<workers, workerNum, master, creating, state, started>>
      /\ pc[w] = "count" /\ pc' = [pc EXCEPT ![w] = "decide"]
      /\ seen' = [seen EXCEPT ![w] = workerNum]
  BY DEF FactoryWorkerCount, At, poolOfWorkers
<1>3. \A x \in Worker : Kind(pc'[x]) = Kind(pc[x])
  BY <1>1, <1>2 DEF Kind, Unregistered, WorkerTyped
<1>4. ASSUME Early' PROVE Early /\ \A x \in Worker : pc'[x] # "leaving" /\ seen'[x] <= WorkerMin
  <2>1. Early
    BY <1>2, <1>4 DEF Early
  <2>2. \A x \in Worker : pc[x] # "leaving" /\ seen[x] <= WorkerMin
    BY <1>1, <2>1 DEF WorkerIInv, EarlyStaff
  <2>3. /\ IsFiniteSet(Staff)
        /\ Cardinality(Staff) = started + (IF creating["starter"] = NoOne THEN 0 ELSE 1)
    BY <1>1, <2>1 DEF WorkerIInv, EarlyStaff
  <2>4. Cardinality(Staff) <= WorkerMin
    BY <1>1, <2>3, WorkerAssumption DEF WorkerTyped, Phases
  <2>5. workers \subseteq Staff
    BY <1>1 DEF WorkerIInv, WorkersCounted, Staff, Unregistered
  <2>6. Cardinality(workers) \in Nat /\ Cardinality(workers) <= Cardinality(Staff)
    BY <2>3, <2>5, FS_Subset, FS_CardinalityType
  <2>7. Cardinality(Staff) \in Nat
    BY <2>3, FS_CardinalityType
  <2>8. workerNum <= Cardinality(workers) /\ workerNum \in Int
    BY <1>1, <2>6 DEF WorkerIInv, WorkersCounted, WorkerTyped
  <2>9. workerNum <= WorkerMin
    BY <2>4, <2>6, <2>7, <2>8, WorkerAssumption
  <2>10. QED BY <1>1, <1>2, <2>1, <2>2, <2>9 DEF WorkerTyped
<1>5. QED BY <1>1, <1>2, <1>3, <1>4, QuietStep

\* factory_start makes no more, or goes on; the master thread tests the state.
LEMMA ThreadSteps ==
    ASSUME Kept,
           \/ (FactoryStart /\ ~(started < WorkerMin)) \/ FactoryStartWorker \/ FactoryStarted
           \/ MasterTest \/ MasterCreated
    PROVE  WorkerIInv'
<1>1. WorkerIInv /\ WorkerTyped /\ Phases /\ WorkerTyped' /\ Phases'
  BY DEF Kept, WorkerIInv
<1>2. UNCHANGED <<pc, seen, workers, workerNum>>
  BY WorkerAssumption DEF FactoryStart, FactoryStartWorker, FactoryStarted, MasterTest,
                          MasterCreated, poolOfWorkers
<1>3. master' = "gone" <=> master = "gone"
  BY <1>1 DEF FactoryStart, FactoryStartWorker, FactoryStarted, MasterTest, MasterCreated,
              Created, Phases
<1>4. \A c \in {"starter", "master"} : creating'[c] \in {creating[c], NoOne}
  BY <1>1, WorkerAssumption DEF FactoryStart, FactoryStartWorker, FactoryStarted, MasterTest,
                                MasterCreated, Created, WorkerTyped
<1>5. ASSUME Early'
      PROVE  /\ Early
             /\ started' + (IF creating'["starter"] = NoOne THEN 0 ELSE 1)
                    = started + (IF creating["starter"] = NoOne THEN 0 ELSE 1)
  <2>1. CASE FactoryStart /\ ~(started < WorkerMin)
    BY <1>1, <1>5, <2>1, WorkerAssumption DEF FactoryStart, Early, Phases, WorkerTyped
  <2>2. CASE FactoryStartWorker
    BY <1>1, <1>5, <2>2 DEF FactoryStartWorker, Created, Early, WorkerTyped
  <2>3. CASE FactoryStarted
    BY <1>1, <1>5, <2>3 DEF FactoryStarted, Early, Phases
  <2>4. CASE MasterTest
    BY <1>1, <1>5, <2>4 DEF MasterTest, Early, Phases
  <2>5. CASE MasterCreated
    BY <1>1, <1>5, <2>5 DEF MasterCreated, Created, Early, Phases
  <2>6. QED BY <2>1, <2>2, <2>3, <2>4, <2>5
<1>6. Early' => \A w \in Worker : pc'[w] # "leaving" /\ seen'[w] <= WorkerMin
  BY <1>1, <1>2, <1>5 DEF WorkerIInv, EarlyStaff
<1>7. QED BY <1>1, <1>2, <1>3, <1>4, <1>5, <1>6, QuietStep

\* The event loop, the end of the factory, and nothing.
LEMMA OtherSteps ==
    ASSUME Kept,
           \/ (\E t \in Task : FactoryTaskPush(t)) \/ ThreadEventProc \/ FactoryDeinit
           \/ FactoryDeinitDone \/ UNCHANGED workerVars
    PROVE  WorkerIInv'
<1>1. WorkerIInv /\ WorkerTyped' /\ Phases'
  BY DEF Kept
<1>2. UNCHANGED <<pc, seen, workers, workerNum, master, creating, started>>
  BY DEF FactoryTaskPush, ThreadEventProc, FactoryDeinit, FactoryDeinitDone, workerVars,
         poolOfWorkers
<1>3. state' = state \/ state' = "over"
  BY DEF FactoryTaskPush, ThreadEventProc, FactoryDeinit, FactoryDeinitDone, workerVars
<1>4. Early' => Early
  BY <1>2, <1>3 DEF Early
<1>5. Early' => \A w \in Worker : pc'[w] # "leaving" /\ seen'[w] <= WorkerMin
  BY <1>1, <1>2, <1>4 DEF WorkerIInv, EarlyStaff
<1>6. QED BY <1>1, <1>2, <1>4, <1>5, QuietStep

LEMMA WorkerStepHolds == WorkerIInv /\ [WorkerNext]_workerVars => WorkerIInv'
<1>1. SUFFICES ASSUME WorkerIInv, [WorkerNext]_workerVars PROVE WorkerIInv'
  OBVIOUS
<1>2. Kept
  BY <1>1, TypedStep, PhasesStep DEF Kept
<1>3. CASE StarterStep
  <2>1. CASE FactoryStart /\ started < WorkerMin
    BY <1>2, <2>1, StarterCreates
  <2>2. CASE \/ FactoryStart /\ ~(started < WorkerMin)
             \/ FactoryStartWorker \/ FactoryStarted
    BY <1>2, <2>2, ThreadSteps
  <2>3. QED BY <1>3, <2>1, <2>2 DEF StarterStep
<1>4. CASE MasterStep
  BY <1>2, <1>4, ThreadSteps, MasterCreates, MasterDeinits DEF MasterStep
<1>5. ASSUME NEW w \in Worker, WorkerStep(w) \/ WorkerLocking(w) PROVE WorkerIInv'
  BY <1>2, <1>5, WorkerSteps, Registers, Counts, Deinits DEF WorkerLocking
<1>6. CASE (\E t \in Task : FactoryTaskPush(t)) \/ ThreadEventProc \/ FactoryDeinit
           \/ FactoryDeinitDone \/ UNCHANGED workerVars
  BY <1>2, <1>6, OtherSteps
<1>7. QED BY <1>1, <1>3, <1>4, <1>5, <1>6 DEF WorkerNext

LEMMA WorkerInvariant == WorkerSpec => []WorkerIInv
  BY WorkerInitHolds, WorkerStepHolds, PTL DEF WorkerSpec

-----------------------------------------------------------------------------
\* worker_num is the length of worker_head, which holds the workers that run:
\* register, deinit and the count of the master thread agree (factory.c).
THEOREM WorkersCountedRight == WorkerSpec => []WorkersCounted
<1>1. WorkerIInv => WorkersCounted
  BY DEF WorkerIInv
<1>2. QED BY <1>1, WorkerInvariant, PTL

\* worker_create polls the state of a worker that has not left and freed it:
\* the master keeps the mutex it needs, and at the start none may leave.
THEOREM PolledNeverFreed == WorkerSpec => []PolledIsAlive
<1>1. WorkerIInv => PolledIsAlive
  BY DEF WorkerIInv, WorkerTyped, Polled, PolledIsAlive
<1>2. QED BY <1>1, WorkerInvariant, PTL

\* Once the master thread has ended at the start, which it does when it tests
\* the state before factory_start sets it, the WorkerMin workers never leave.
THEOREM StaffKept == WorkerSpec => []StaffStays
<1>1. WorkerIInv => StaffStays
  <2>1. SUFFICES ASSUME WorkerIInv, master = "gone", state # "over"
                 PROVE  Cardinality({w \in Worker : pc[w] \notin {"none", "leaving"}}) = WorkerMin
    BY DEF StaffStays
  <2>2. Early /\ starter # "start"
    BY <2>1 DEF Early, WorkerIInv, Phases
  <2>3. started = WorkerMin /\ creating["starter"] = NoOne
    BY <2>1, <2>2 DEF WorkerIInv, Phases
  <2>4. Cardinality(Staff) = WorkerMin /\ \A w \in Worker : pc[w] # "leaving"
    BY <2>1, <2>2, <2>3, WorkerAssumption DEF WorkerIInv, EarlyStaff
  <2>5. Staff = {w \in Worker : pc[w] \notin {"none", "leaving"}}
    BY <2>4 DEF Staff
  <2>6. QED BY <2>4, <2>5
<1>2. QED BY <1>1, WorkerInvariant, PTL
-----------------------------------------------------------------------------
(* Where the tasks are.                                                    *)

LEMMA Appended ==
    ASSUME NEW S, NEW s \in Seq(S), NEW e \in S
    PROVE  /\ Append(s, e) \in Seq(S) /\ Range(Append(s, e)) = Range(s) \cup {e}
           /\ IsInjective(s) /\ e \notin Range(s) => IsInjective(Append(s, e))
<1>1. Append(s, e) \in Seq(S)
  OBVIOUS
<1>2. /\ DOMAIN s = 1..Len(s) /\ DOMAIN Append(s, e) = 1..Len(s) + 1 /\ Len(s) \in Nat
      /\ \A i \in 1..Len(s) : Append(s, e)[i] = s[i]
      /\ Append(s, e)[Len(s) + 1] = e
  OBVIOUS
<1>3. Range(Append(s, e)) = Range(s) \cup {e}
  <2>1. ASSUME NEW x \in Range(Append(s, e)) PROVE x \in Range(s) \cup {e}
    <3>1. PICK i \in 1..Len(s) + 1 : x = Append(s, e)[i]
      BY <1>2, <2>1 DEF Range
    <3>2. CASE i \in 1..Len(s)
      BY <1>2, <3>1, <3>2 DEF Range
    <3>3. CASE i = Len(s) + 1
      BY <1>2, <3>1, <3>3
    <3>4. QED BY <1>2, <3>2, <3>3
  <2>2. ASSUME NEW x \in Range(s) PROVE x \in Range(Append(s, e))
    <3>1. PICK i \in 1..Len(s) : x = s[i]
      BY <1>2, <2>2 DEF Range
    <3>2. i \in 1..Len(s) + 1 /\ Append(s, e)[i] = x
      BY <1>2, <3>1
    <3>3. QED BY <1>2, <3>2 DEF Range
  <2>3. e \in Range(Append(s, e))
    <3>1. Len(s) + 1 \in DOMAIN Append(s, e)
      BY <1>2
    <3>2. QED BY <1>2, <3>1 DEF Range
  <2>4. QED BY <2>1, <2>2, <2>3
<1>4. ASSUME IsInjective(s), e \notin Range(s) PROVE IsInjective(Append(s, e))
  <2>1. \A i \in 1..Len(s) : s[i] # e
    BY <1>2, <1>4 DEF Range
  <2>2. \A i, j \in 1..Len(s) : s[i] = s[j] => i = j
    BY <1>2, <1>4 DEF IsInjective
  <2>3. \A i, j \in 1..Len(s) + 1 : Append(s, e)[i] = Append(s, e)[j] => i = j
    BY <1>2, <2>1, <2>2
  <2>4. QED BY <1>2, <2>3 DEF IsInjective
<1>5. QED BY <1>1, <1>3, <1>4

LEMMA Popped ==
    ASSUME NEW S, NEW s \in Seq(S), s # <<>>
    PROVE  /\ Head(s) \in S /\ Head(s) \in Range(s)
           /\ Tail(s) \in Seq(S) /\ Range(Tail(s)) \subseteq Range(s)
           /\ IsInjective(s) => Head(s) \notin Range(Tail(s)) /\ IsInjective(Tail(s))
<1>1. /\ Head(s) = s[1] /\ 1 \in DOMAIN s /\ Head(s) \in S /\ Tail(s) \in Seq(S)
      /\ DOMAIN s = 1..Len(s) /\ Len(s) \in Nat
      /\ DOMAIN Tail(s) = 1..Len(s) - 1
      /\ \A i \in 1..Len(s) - 1 : Tail(s)[i] = s[i + 1]
  OBVIOUS
<1>2. Head(s) \in Range(s)
  BY <1>1 DEF Range
<1>3. ASSUME NEW x \in Range(Tail(s))
      PROVE  \E i \in 1..Len(s) : i # 1 /\ s[i] = x
  <2>1. PICK i \in 1..Len(s) - 1 : x = Tail(s)[i]
    BY <1>1, <1>3 DEF Range
  <2>2. i + 1 \in 1..Len(s) /\ i + 1 # 1 /\ s[i + 1] = x
    BY <1>1, <2>1
  <2>3. QED BY <2>2
<1>4. Range(Tail(s)) \subseteq Range(s)
  BY <1>1, <1>3 DEF Range
<1>5. ASSUME IsInjective(s) PROVE Head(s) \notin Range(Tail(s)) /\ IsInjective(Tail(s))
  <2>1. \A i, j \in 1..Len(s) : s[i] = s[j] => i = j
    BY <1>1, <1>5 DEF IsInjective
  <2>2. Head(s) \notin Range(Tail(s))
    BY <1>1, <1>3, <2>1
  <2>3. \A i, j \in 1..Len(s) - 1 : Tail(s)[i] = Tail(s)[j] => i = j
    BY <1>1, <2>1
  <2>4. QED BY <1>1, <2>2, <2>3 DEF IsInjective
<1>6. QED BY <1>1, <1>2, <1>4, <1>5

\* A worker has a task just while it runs one.
TasksHeld ==
    /\ queue \in Seq(Task) /\ returned \in Seq(Task)
    /\ running \in [Worker -> Task \cup {NoOne}]
    /\ \A w \in Worker : pc[w] = "run" <=> running[w] # NoOne

TasksIInv == WorkerTyped /\ TasksHeld /\ TaskInOnePlace

\* The steps that move no task.
LEMMA TasksLeft ==
    ASSUME TasksIInv, WorkerTyped', UNCHANGED tasks,
           \A w \in Worker : pc'[w] = "run" <=> pc[w] = "run"
    PROVE  TasksIInv'
  BY DEF TasksIInv, TasksHeld, TaskInOnePlace, tasks

LEMMA TasksLeftByWorkers ==
    ASSUME TasksIInv, WorkerTyped', NEW w \in Worker,
           \/ WorkerWake(w) \/ WorkerTest(w) \/ WorkerDecide(w) \/ WorkerLocking(w)
    PROVE  TasksIInv'
<1>1. \A x \in Worker : pc'[x] = "run" <=> pc[x] = "run"
  BY DEF WorkerWake, WorkerTest, WorkerDecide, WorkerLocking, WorkerRegister, FactoryWorkerCount,
         WorkerDeinit, At, TasksIInv, WorkerTyped
<1>2. UNCHANGED tasks
  BY DEF WorkerWake, WorkerTest, WorkerDecide, WorkerLocking, WorkerRegister, FactoryWorkerCount,
         WorkerDeinit
<1>3. QED BY <1>1, <1>2, TasksLeft

LEMMA TasksLeftByOthers ==
    ASSUME TasksIInv, WorkerTyped',
           StarterStep \/ MasterStep \/ FactoryDeinit \/ FactoryDeinitDone \/ UNCHANGED workerVars
    PROVE  TasksIInv'
<1>1. UNCHANGED tasks
  BY DEF StarterStep, MasterStep, FactoryStart, FactoryStartWorker, FactoryStarted, MasterTest,
         MasterCheck, MasterCreated, MasterDeinit, FactoryDeinit, FactoryDeinitDone, workerVars, tasks
<1>2. UNCHANGED pc \/ \E c \in {"starter", "master"}, w \in Worker : WorkerCreate(c, w)
  BY DEF StarterStep, MasterStep, FactoryStart, FactoryStartWorker, FactoryStarted, MasterTest,
         MasterCheck, MasterCreated, MasterDeinit, FactoryDeinit, FactoryDeinitDone, workerVars
<1>3. \A x \in Worker : pc'[x] = "run" <=> pc[x] = "run"
  BY <1>2 DEF WorkerCreate, TasksIInv, WorkerTyped
<1>4. QED BY <1>1, <1>3, TasksLeft

LEMMA Pops ==
    ASSUME TasksIInv, WorkerTyped', NEW w \in Worker, FactoryTaskPop(w)
    PROVE  TasksIInv'
<1>1. /\ queue # <<>> /\ queue' = Tail(queue) /\ returned' = returned
      /\ running' = [running EXCEPT ![w] = Head(queue)]
      /\ pc[w] = "pop" /\ pc' = [pc EXCEPT ![w] = "run"]
  BY DEF FactoryTaskPop, At
<1>2. WorkerTyped /\ TasksHeld /\ TaskInOnePlace
  BY DEF TasksIInv
<1>3. /\ Head(queue) \in Task /\ Head(queue) \in Range(queue)
      /\ Tail(queue) \in Seq(Task) /\ Range(Tail(queue)) \subseteq Range(queue)
      /\ Head(queue) \notin Range(Tail(queue)) /\ IsInjective(Tail(queue))
  BY <1>1, <1>2, Popped DEF TasksHeld, TaskInOnePlace
<1>4. TasksHeld'
  BY <1>1, <1>2, <1>3, WorkerAssumption DEF TasksHeld, WorkerTyped
<1>5. ASSUME NEW v \in Worker, running'[v] # NoOne
      PROVE  running'[v] \notin Range(queue') \cup Range(returned')
    <2>1. CASE v = w
      BY <1>1, <1>2, <1>3, <2>1 DEF TasksHeld, TaskInOnePlace
    <2>2. CASE v # w
      BY <1>1, <1>2, <1>3, <1>5, <2>2 DEF TasksHeld, TaskInOnePlace
    <2>3. QED BY <2>1, <2>2
<1>6. ASSUME NEW v \in Worker, NEW x \in Worker, running'[v] # NoOne, running'[v] = running'[x]
      PROVE  v = x
  <2>1. \A y \in Worker : y # w => running'[y] = running[y] /\ running[y] \notin {Head(queue)}
    BY <1>1, <1>2, <1>3, WorkerAssumption DEF TasksHeld, TaskInOnePlace
  <2>2. running'[w] = Head(queue)
    BY <1>1, <1>2 DEF TasksHeld
  <2>3. QED BY <1>2, <1>6, <2>1, <2>2 DEF TaskInOnePlace
<1>7. TaskInOnePlace'
  BY <1>1, <1>2, <1>3, <1>5, <1>6 DEF TaskInOnePlace
<1>8. QED BY <1>4, <1>7 DEF TasksIInv

LEMMA Returns ==
    ASSUME TasksIInv, WorkerTyped', NEW w \in Worker, WorkerReturn(w)
    PROVE  TasksIInv'
<1>1. /\ queue' = queue /\ returned' = Append(returned, running[w])
      /\ running' = [running EXCEPT ![w] = NoOne]
      /\ pc[w] = "run" /\ pc' = [pc EXCEPT ![w] = "count"]
  BY DEF WorkerReturn, At
<1>2. WorkerTyped /\ TasksHeld /\ TaskInOnePlace
  BY DEF TasksIInv
<1>3. running[w] \in Task /\ running[w] # NoOne
  BY <1>1, <1>2 DEF TasksHeld
<1>4. running[w] \notin Range(queue) \cup Range(returned)
  BY <1>2, <1>3 DEF TaskInOnePlace
<1>5. /\ Append(returned, running[w]) \in Seq(Task)
      /\ Range(Append(returned, running[w])) = Range(returned) \cup {running[w]}
      /\ IsInjective(Append(returned, running[w]))
  BY <1>2, <1>3, <1>4, Appended DEF TasksHeld, TaskInOnePlace
<1>6. TasksHeld'
  BY <1>1, <1>2, <1>5, WorkerAssumption DEF TasksHeld, WorkerTyped
<1>7. ASSUME NEW v \in Worker, running'[v] # NoOne
      PROVE  /\ running'[v] \notin Range(queue') \cup Range(returned')
             /\ \A x \in Worker : running'[v] = running'[x] => v = x
  <2>1. v # w /\ running'[v] = running[v]
    BY <1>1, <1>2, <1>7 DEF TasksHeld
  <2>2. running[v] # running[w] /\ running[v] \notin Range(queue) \cup Range(returned)
    BY <1>2, <1>7, <2>1 DEF TaskInOnePlace
  <2>3. \A x \in Worker : running'[v] = running'[x] => v = x
    BY <1>1, <1>2, <1>7, <2>1 DEF TasksHeld, TaskInOnePlace
  <2>4. QED BY <1>1, <1>5, <2>1, <2>2, <2>3
<1>8. TaskInOnePlace'
  BY <1>1, <1>2, <1>4, <1>5, <1>7 DEF TaskInOnePlace
<1>9. QED BY <1>6, <1>8 DEF TasksIInv

\* A task is pushed that is nowhere; those that have returned are called back.
LEMMA PushesAndCalls ==
    ASSUME TasksIInv, WorkerTyped',
           (\E t \in Task : FactoryTaskPush(t)) \/ ThreadEventProc
    PROVE  TasksIInv'
<1>1. WorkerTyped /\ TasksHeld /\ TaskInOnePlace
  BY DEF TasksIInv
<1>2. ASSUME NEW t \in Task, FactoryTaskPush(t) PROVE TasksIInv'
  <2>1. /\ t \notin Range(queue) \cup Range(returned)
        /\ \A w \in Worker : running[w] # t
        /\ queue' = Append(queue, t) /\ UNCHANGED <<running, returned, pc>>
    BY <1>1, <1>2 DEF FactoryTaskPush, Outside, TasksHeld, Range
  <2>2. /\ Append(queue, t) \in Seq(Task) /\ Range(Append(queue, t)) = Range(queue) \cup {t}
        /\ IsInjective(Append(queue, t))
    BY <1>1, <2>1, Appended DEF TasksHeld, TaskInOnePlace
  <2>3. TasksHeld'
    BY <1>1, <2>1, <2>2 DEF TasksHeld
  <2>4. TaskInOnePlace'
    BY <1>1, <2>1, <2>2 DEF TaskInOnePlace
  <2>5. QED BY <2>3, <2>4 DEF TasksIInv
<1>3. CASE ThreadEventProc
  <2>1. returned' = <<>> /\ UNCHANGED <<queue, running, pc>>
    BY <1>3 DEF ThreadEventProc
  <2>2. <<>> \in Seq(Task) /\ Range(<<>>) = {} /\ IsInjective(<<>>)
    BY DEF Range, IsInjective
  <2>3. TasksHeld' /\ TaskInOnePlace'
    BY <1>1, <2>1, <2>2 DEF TasksHeld, TaskInOnePlace
  <2>4. QED BY <2>3 DEF TasksIInv
<1>4. QED BY <1>2, <1>3

LEMMA TasksStep == TasksIInv /\ WorkerIInv /\ [WorkerNext]_workerVars => TasksIInv'
<1>1. SUFFICES ASSUME TasksIInv, WorkerIInv, [WorkerNext]_workerVars PROVE TasksIInv'
  OBVIOUS
<1>2. WorkerTyped'
  BY <1>1, TypedStep
<1>3. ASSUME NEW w \in Worker, WorkerStep(w) \/ WorkerLocking(w) PROVE TasksIInv'
  BY <1>1, <1>2, <1>3, TasksLeftByWorkers, Pops, Returns DEF WorkerStep
<1>4. CASE StarterStep \/ MasterStep \/ FactoryDeinit \/ FactoryDeinitDone \/ UNCHANGED workerVars
  BY <1>1, <1>2, <1>4, TasksLeftByOthers
<1>5. CASE (\E t \in Task : FactoryTaskPush(t)) \/ ThreadEventProc
  BY <1>1, <1>2, <1>5, PushesAndCalls
<1>6. QED BY <1>1, <1>3, <1>4, <1>5 DEF WorkerNext

\* No task is run twice or lost between the event loop and the workers: it is
\* in one list once, or with one worker (factory_task_pop, worker_return).
THEOREM TaskNeverDoubled == WorkerSpec => []TaskInOnePlace
<1>1. WorkerInit => TasksIInv
  <2>1. SUFFICES ASSUME WorkerInit PROVE TasksIInv
    OBVIOUS
  <2>2. <<>> \in Seq(Task) /\ Range(<<>>) = {} /\ IsInjective(<<>>)
    BY DEF Range, IsInjective
  <2>3. TasksHeld /\ TaskInOnePlace
    BY <2>1, <2>2, WorkerAssumption DEF WorkerInit, TasksHeld, TaskInOnePlace
  <2>4. QED BY <2>1, <2>3, WorkerInitHolds DEF TasksIInv, WorkerIInv
<1>2. TasksIInv => TaskInOnePlace
  BY DEF TasksIInv
<1>3. QED BY <1>1, <1>2, TasksStep, WorkerInvariant, PTL DEF WorkerSpec
=============================================================================
