------------------------------ MODULE WorkerPool ------------------------------
(***************************************************************************)
(* The threads of lib_mrt that run blocking work for an event loop:        *)
(* factory.c, and the way back in event_center.c.                          *)
(*                                                                         *)
(* The event loop pushes a task, a worker runs it and returns it to the    *)
(* loop.  factory_start makes WorkerMin workers and then the master        *)
(* thread, which once a second adds a worker when the queue is long; a     *)
(* worker that counts more than WorkerMin of them leaves.                  *)
(*                                                                         *)
(* factory.mtx is only held across steps while the master waits for a      *)
(* worker it has created to wake up.  task_mtx is never held across steps: *)
(* waiting for task_cnd is a guard on the queue.                           *)
(***************************************************************************)
EXTENDS Integers, Sequences, FiniteSets, Functions

CONSTANTS
    Worker,     \* bound: the threads pthread_create can give at a time
    Task,       \* external: what the program pushes
    WorkerMin, WorkerMax,
    NoOne       \* no worker, no task

ASSUME WorkerAssumption ==
    /\ WorkerMin \in Nat \ {0} /\ WorkerMax \in Nat /\ WorkerMin <= WorkerMax
    /\ NoOne \notin Worker \cup Task

VARIABLES
    state,      \* factory.state
    starter,    \* where factory_start is
    started,    \* its i
    master,     \* where the master thread is
    creating,   \* worker_create: the worker whose state each creator polls
    pc,         \* where each thread of worker_main is
    seen,       \* its iret: the workers it counted
    workers,    \* worker_head
    workerNum,  \* worker_num
    queue,      \* task_head of the factory
    running,    \* the task a worker has
    returned,   \* task_head of the event center
    exited      \* M_free of what the pool never gave has ended the program

poolOfWorkers == <<workers, workerNum>>
tasks == <<queue, running, returned>>
workerVars == <<state, starter, started, master, creating, pc, seen, workers,
                workerNum, queue, running, returned, exited>>

Alive == ~exited
FactoryUnlocked == master # "creating"

\* Threads that are, or are about to be, in worker_head.
Unregistered == {"none", "asleep", "awake"}

-----------------------------------------------------------------------------
\* factory_init.
WorkerInit ==
    /\ state = "ready" /\ starter = "start" /\ started = 0 /\ master = "none"
    /\ creating = [c \in {"starter", "master"} |-> NoOne]
    /\ pc = [w \in Worker |-> "none"] /\ seen = [w \in Worker |-> 0]
    /\ workers = {} /\ workerNum = 0
    /\ queue = <<>> /\ running = [w \in Worker |-> NoOne] /\ returned = <<>>
    /\ exited = FALSE

\* worker_create up to its loop: the thread is there and sleeps in worker_wait.
WorkerCreate(creator, w) ==
    /\ pc[w] = "none"
    /\ pc' = [pc EXCEPT ![w] = "asleep"]
    /\ creating' = [creating EXCEPT ![creator] = w]

\* The loop of worker_create: signalling until the state is no longer READY.
Created(creator) ==
    /\ creating[creator] # NoOne /\ pc[creating[creator]] # "asleep"
    /\ creating' = [creating EXCEPT ![creator] = NoOne]

FactoryStart ==
    /\ Alive /\ starter = "start" /\ creating["starter"] = NoOne
    /\ \/ /\ started < WorkerMin
          /\ \E w \in Worker : WorkerCreate("starter", w)
          /\ UNCHANGED <<starter, master>>
       \/ /\ started = WorkerMin
          /\ starter' = "mastered" /\ master' = "test"
          /\ UNCHANGED <<pc, creating>>
    /\ UNCHANGED <<state, started, seen, poolOfWorkers, tasks, exited>>

FactoryStartWorker ==
    /\ Alive /\ Created("starter")
    /\ started' = started + 1
    /\ UNCHANGED <<state, starter, master, pc, seen, poolOfWorkers, tasks, exited>>

\* The last assignment of factory_start: the master thread may have tested the
\* state before.
FactoryStarted ==
    /\ Alive /\ starter = "mastered"
    /\ starter' = "done" /\ state' = "start"
    /\ UNCHANGED <<started, master, creating, pc, seen, poolOfWorkers, tasks, exited>>

-----------------------------------------------------------------------------
(* worker_master.                                                          *)

MasterTest ==
    /\ Alive /\ master = "test"
    /\ master' = IF state = "start" THEN "lock" ELSE "leaving"
    /\ UNCHANGED <<state, starter, started, creating, pc, seen, poolOfWorkers, tasks, exited>>

\* Variant: an empty queue is never too much, for no worker either.
BusyAbove == ~(Len(queue) \div 2 <= workerNum)

Busy == ~(Len(queue) \div 2 < workerNum)

MayCreate == workerNum < (IF state = "over" THEN 0 ELSE WorkerMax)

\* Variant: a worker is created without the mutex.
MasterCheckUnlocked ==
    /\ Alive /\ master = "lock"
    /\ IF Busy /\ MayCreate /\ \E w \in Worker : pc[w] = "none"
       THEN \E w \in Worker : WorkerCreate("master", w)
       ELSE UNCHANGED <<pc, creating>>
    /\ master' = "test"
    /\ UNCHANGED <<state, starter, started, seen, poolOfWorkers, tasks, exited>>

\* The mutex is kept while a worker is created.  One that cannot be created is
\* tried again a second later.
MasterCheck ==
    /\ Alive /\ master = "lock"
    /\ IF Busy /\ MayCreate /\ \E w \in Worker : pc[w] = "none"
       THEN /\ \E w \in Worker : WorkerCreate("master", w)
            /\ master' = "creating"
       ELSE /\ master' = "test"
            /\ UNCHANGED <<pc, creating>>
    /\ UNCHANGED <<state, starter, started, seen, poolOfWorkers, tasks, exited>>

MasterCreated ==
    /\ Alive /\ Created("master")
    /\ master' = "test"
    /\ UNCHANGED <<state, starter, started, pc, seen, poolOfWorkers, tasks, exited>>

\* The end of the master thread is one for worker_deinit too: it is in no list,
\* but it is counted off, and it was not allocated.
MasterDeinit ==
    /\ Alive /\ master = "leaving"
    /\ \/ exited' = TRUE /\ UNCHANGED <<master, workerNum>>
       \/ /\ master' = "gone" /\ workerNum' = workerNum - 1
          /\ UNCHANGED exited
    /\ UNCHANGED <<state, starter, started, creating, pc, seen, workers, tasks>>

-----------------------------------------------------------------------------
(* worker_main.                                                            *)

At(w, from, to) == Alive /\ pc[w] = from /\ pc' = [pc EXCEPT ![w] = to]

WorkerWake(w) ==
    /\ At(w, "asleep", "awake")
    /\ UNCHANGED <<state, starter, started, master, creating, seen, poolOfWorkers, tasks, exited>>

WorkerRegister(w) ==
    /\ At(w, "awake", "test") /\ FactoryUnlocked
    /\ workers' = workers \cup {w} /\ workerNum' = workerNum + 1
    /\ UNCHANGED <<state, starter, started, master, creating, seen, tasks, exited>>

WorkerTest(w) ==
    /\ At(w, "test", IF state # "over" THEN "pop" ELSE "leaving")
    /\ UNCHANGED <<state, starter, started, master, creating, seen, poolOfWorkers, tasks, exited>>

\* Variant: the task stays in the queue.
FactoryTaskPopKept(w) ==
    /\ At(w, "pop", "run") /\ queue # <<>>
    /\ running' = [running EXCEPT ![w] = Head(queue)]
    /\ UNCHANGED <<state, starter, started, master, creating, seen, poolOfWorkers,
                   queue, returned, exited>>

FactoryTaskPop(w) ==
    /\ At(w, "pop", "run") /\ queue # <<>>
    /\ running' = [running EXCEPT ![w] = Head(queue)]
    /\ queue' = Tail(queue)
    /\ UNCHANGED <<state, starter, started, master, creating, seen, poolOfWorkers,
                   returned, exited>>

\* worker_return, when the task has been run.
WorkerReturn(w) ==
    /\ At(w, "run", "count")
    /\ returned' = Append(returned, running[w])
    /\ running' = [running EXCEPT ![w] = NoOne]
    /\ UNCHANGED <<state, starter, started, master, creating, seen, poolOfWorkers,
                   queue, exited>>

FactoryWorkerCount(w) ==
    /\ At(w, "count", "decide") /\ FactoryUnlocked
    /\ seen' = [seen EXCEPT ![w] = workerNum]
    /\ UNCHANGED <<state, starter, started, master, creating, poolOfWorkers, tasks, exited>>

\* Variant: the last WorkerMin workers leave as well.
WorkerDecideLow(w) ==
    /\ At(w, "decide", IF seen[w] >= WorkerMin THEN "leaving" ELSE "test")
    /\ seen' = [seen EXCEPT ![w] = 0]
    /\ UNCHANGED <<state, starter, started, master, creating, poolOfWorkers, tasks, exited>>

\* By the count it has seen, whatever the number is by now.
WorkerDecide(w) ==
    /\ At(w, "decide", IF seen[w] > WorkerMin THEN "leaving" ELSE "test")
    /\ seen' = [seen EXCEPT ![w] = 0]
    /\ UNCHANGED <<state, starter, started, master, creating, poolOfWorkers, tasks, exited>>

\* Variant: the worker is not counted off.
WorkerDeinitKept(w) ==
    /\ At(w, "leaving", "none") /\ FactoryUnlocked
    /\ workers' = workers \ {w}
    /\ UNCHANGED <<state, starter, started, master, creating, seen, workerNum, tasks, exited>>

WorkerDeinit(w) ==
    /\ At(w, "leaving", "none") /\ FactoryUnlocked
    /\ workers' = workers \ {w} /\ workerNum' = workerNum - 1
    /\ UNCHANGED <<state, starter, started, master, creating, seen, tasks, exited>>

-----------------------------------------------------------------------------
(* The event loop, and the program that ends the factory.                  *)

Outside(t) == t \notin Range(queue) \cup Range(running) \cup Range(returned)

FactoryTaskPush(t) ==
    /\ Alive /\ Outside(t)
    /\ queue' = Append(queue, t)
    /\ UNCHANGED <<state, starter, started, master, creating, pc, seen, poolOfWorkers,
                   running, returned, exited>>

\* All returned tasks are called back under the mutex.
ThreadEventProc ==
    /\ Alive /\ returned # <<>>
    /\ returned' = <<>>
    /\ UNCHANGED <<state, starter, started, master, creating, pc, seen, poolOfWorkers,
                   queue, running, exited>>

\* worker_max is 0 from now on.
FactoryDeinit ==
    /\ Alive /\ starter = "done" /\ state = "start" /\ FactoryUnlocked
    /\ state' = "over"
    /\ UNCHANGED <<starter, started, master, creating, pc, seen, poolOfWorkers, tasks, exited>>

\* It only ends when no worker is counted, and wakes none of those that wait
\* for a task.
FactoryDeinitDone ==
    /\ Alive /\ state = "over" /\ starter = "done" /\ FactoryUnlocked
    /\ workerNum = 0
    /\ starter' = "ended"
    /\ UNCHANGED <<state, started, master, creating, pc, seen, poolOfWorkers, tasks, exited>>

WorkerStep(w) ==
    \/ WorkerWake(w) \/ WorkerTest(w) \/ FactoryTaskPop(w) \/ WorkerReturn(w)
    \/ WorkerDecide(w)

WorkerLocking(w) == WorkerRegister(w) \/ FactoryWorkerCount(w) \/ WorkerDeinit(w)

StarterStep == FactoryStart \/ FactoryStartWorker \/ FactoryStarted

MasterStep == MasterTest \/ MasterCheck \/ MasterCreated \/ MasterDeinit

WorkerNext ==
    \/ StarterStep \/ MasterStep \/ FactoryDeinit \/ FactoryDeinitDone
    \/ \E w \in Worker : WorkerStep(w) \/ WorkerLocking(w)
    \/ \E t \in Task : FactoryTaskPush(t)
    \/ ThreadEventProc

WorkerSpec == WorkerInit /\ [][WorkerNext]_workerVars

\* Threads run, tasks end, and the mutex, which is free while the master
\* sleeps, is not always taken by others.  Nothing has to be pushed or ended.
WorkerFairness ==
    /\ WF_workerVars(StarterStep) /\ WF_workerVars(MasterStep)
    /\ WF_workerVars(ThreadEventProc)
    /\ \A w \in Worker : WF_workerVars(WorkerStep(w)) /\ SF_workerVars(WorkerLocking(w))

FairWorkerSpec == WorkerSpec /\ WorkerFairness

-----------------------------------------------------------------------------
(* Properties.                                                             *)

\* worker_num, which decides whether workers are added and leave, is the length
\* of the list of the workers that run.  It is one less once the master thread
\* has ended, which it may do at the start already.
WorkersCounted ==
    /\ workers = {w \in Worker : pc[w] \notin Unregistered}
    /\ workerNum = Cardinality(workers) - (IF master = "gone" THEN 1 ELSE 0)

\* A worker whose state its creator polls has not left and freed that memory:
\* nobody leaves before the creator has seen it.
PolledIsAlive ==
    \A c \in DOMAIN creating : creating[c] # NoOne => pc[creating[c]] # "none"

\* A task is in one place once: waiting, with one worker, or on its way back.
TaskInOnePlace ==
    /\ IsInjective(queue) /\ IsInjective(returned)
    /\ Range(queue) \cap Range(returned) = {}
    /\ \A v, w \in Worker : running[v] # NoOne =>
        /\ running[v] \notin Range(queue) \cup Range(returned)
        /\ running[v] = running[w] => v = w

\* Where the master thread ended at the start there is nobody to replace a
\* worker: all WorkerMin stay.
StaffStays ==
    master = "gone" /\ state # "over" =>
        Cardinality({w \in Worker : pc[w] \notin {"none", "leaving"}}) = WorkerMin

\* Every task that is pushed is called back in the event loop, unless the
\* factory is told to end: workers that leave together are replaced.
TaskReturned ==
    \A t \in Task : t \in Range(queue) ~> (Outside(t) \/ state = "over" \/ exited)
=============================================================================
