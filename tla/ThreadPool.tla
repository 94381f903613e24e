----------------------------- MODULE ThreadPool -----------------------------
(***************************************************************************)
(* DynamicThreadPool of thread_pool.py: core threads that wait for ever,   *)
(* extra threads that submit adds up to a maximum and that end when the    *)
(* queue gave them nothing for two seconds.  Every task has a thread of    *)
(* its own that submits it.  A task ends, with or without an Exception;    *)
(* SystemExit, which kills the worker, is left out.                        *)
(***************************************************************************)
EXTENDS Integers, Sequences, FiniteSets

CONSTANTS PoolTask, MinWorkers, MaxWorkers, NoTask

\* The pool does not check its limits; every caller in the file keeps them in order.
ASSUME PoolAssumption == IsFiniteSet(PoolTask) /\ MinWorkers \in Nat /\ MaxWorkers \in Nat /\ MinWorkers <= MaxWorkers

VARIABLES taskQueue, currentWorkers,
          worker,        \* number of the thread -> where it is
          running,       \* its task
          submitAt,      \* task -> where its submit is
          finished
poolVars == <<taskQueue, currentWorkers, worker, running, submitAt, finished>>

Worker == 1..(MinWorkers + Cardinality(PoolTask))    \* submit spawns one thread at most
IsCore(w) == w <= MinWorkers
Alive == {w \in Worker : worker[w] \notin {"unborn", "gone"}}

PoolInit ==
  /\ taskQueue = <<>> /\ currentWorkers = MinWorkers
  /\ worker = [w \in Worker |-> IF IsCore(w) THEN "get" ELSE "unborn"]
  /\ running = [w \in Worker |-> NoTask]
  /\ submitAt = [t \in PoolTask |-> "lock"] /\ finished = {}

UpToMax(t) == currentWorkers <= MaxWorkers
BelowMax(t) == currentWorkers < MaxWorkers
\* submit under the lock: qsize() >= 0 is always true.
SpawnIfBelowMax(t) ==
  /\ submitAt[t] = "lock"
  /\ submitAt' = [submitAt EXCEPT ![t] = "put"]
  /\ IF BelowMax(t)
     THEN LET new == CHOOSE w \in Worker : worker[w] = "unborn"
          IN  worker' = [worker EXCEPT ![new] = "get"] /\ currentWorkers' = currentWorkers + 1
     ELSE UNCHANGED <<worker, currentWorkers>>
  /\ UNCHANGED <<taskQueue, running, finished>>

PutTask(t) ==
  /\ submitAt[t] = "put"
  /\ submitAt' = [submitAt EXCEPT ![t] = "done"]
  /\ taskQueue' = Append(taskQueue, t)
  /\ UNCHANGED <<currentWorkers, worker, running, finished>>

GetTask(w) ==
  /\ worker[w] = "get" /\ taskQueue # <<>>
  /\ running' = [running EXCEPT ![w] = Head(taskQueue)]
  /\ taskQueue' = Tail(taskQueue)
  /\ worker' = [worker EXCEPT ![w] = "run"]
  /\ UNCHANGED <<currentWorkers, submitAt, finished>>

EndTask(w) ==
  /\ worker[w] = "run"
  /\ finished' = finished \cup {running[w]}
  /\ running' = [running EXCEPT ![w] = NoTask]
  /\ worker' = [worker EXCEPT ![w] = "get"]
  /\ UNCHANGED <<taskQueue, currentWorkers, submitAt>>

\* queue.Empty, raised before the lock is taken: the queue may fill up in between.
GetTimesOut(w) ==
  /\ worker[w] = "get" /\ ~IsCore(w) /\ taskQueue = <<>>
  /\ worker' = [worker EXCEPT ![w] = "empty"]
  /\ UNCHANGED <<taskQueue, currentWorkers, running, submitAt, finished>>

MayShrink(w) == currentWorkers > MinWorkers /\ ~IsCore(w)
Shrink(w) ==
  /\ worker[w] = "empty"
  /\ IF MayShrink(w)
     THEN /\ currentWorkers' = currentWorkers - 1
          /\ worker' = [worker EXCEPT ![w] = "gone"]
     ELSE worker' = [worker EXCEPT ![w] = "get"] /\ UNCHANGED currentWorkers
  /\ UNCHANGED <<taskQueue, running, submitAt, finished>>

SubmitStep(t) == SpawnIfBelowMax(t) \/ PutTask(t)
PoolWorkerStep(w) == GetTask(w) \/ EndTask(w) \/ GetTimesOut(w) \/ Shrink(w)
PoolNext == (\E t \in PoolTask : SubmitStep(t)) \/ (\E w \in Worker : PoolWorkerStep(w))
PoolSpec == PoolInit /\ [][PoolNext]_poolVars
----------------------------------------------------------------------------
\* The count the code decides by is the number of threads alive, within its two limits.
WorkersCounted ==
  /\ currentWorkers = Cardinality(Alive)
  /\ currentWorkers \in MinWorkers..MaxWorkers

\* Every task submitted runs though extra workers give up while it is being submitted, and
\* when the wave is over the pool is back to its core.
PoolDrains == <>[](finished = PoolTask /\ currentWorkers = MinWorkers)
=============================================================================
