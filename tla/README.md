# Formal models of assets-system

This directory holds TLA+ models of the programs of the repository that keep state
under concurrency or failure or compute something easy to get wrong, the TLC runs
that check them on small instances, and TLAPS proofs of the central safety properties for every
instance. `PROJECT.json` is the index: components, runs, the mutant that shows each
property can fail, the source lines of every definition, findings, hazards, theorems.

Contents: 1 inventory, 2 plan, 3 modules and code, 4 runs and bounds, 5 fairness,
6 proofs, 7 findings, 8 what is not modelled, 9 running.

## 1. What is in the repository

assets-system is a knowledge base. Most of its 2,585 files are notes and
interview material; the programs are hand-written teaching implementations, each
in a directory of its own. They do not call one another, with few exceptions. The
interactions worth modelling are inside each of them: callers sharing one object
across `await`s (TypeScript, asyncio), goroutines over channels (Go), threads over
locks and queues, a crash between two steps (Python).

Paths are relative to `src/`.

### 1.1 The service components (TypeScript and Go)

**Outbox** (`engineering/backend/data-consistency/outbox-pattern/impl.ts`).
`OutboxEventBus` writes business data and then one row per event;
`OutboxWorker.poll`, on an interval that does not wait for the previous poll, reads
a batch of unpublished rows, publishes them one at a time, counts failures per row
and marks the successes; `cleanup` deletes old published rows; `EventConsumer`
drops ids it has seen. State: the rows (createdAt, publishedAt, retryCount), the
polls in flight, `running`, the consumer's `processedIds`. Hard: overlapping polls
share row objects, publish may take effect and still reject, a crash between publish
and mark, dead letters in the batch. Correct when: no recorded event is lost, an
event takes effect at most once and only if its business function succeeded,
retries are bounded, one bad event does not hold back the others.

**Idempotency store** (`.../transaction-boundary/impl.ts`). `execute(key, fn)`
returns the cached response, rejects or waits while another call is processing, or
runs `fn` itself; whoever ends notifies the waiters; waiters have a timer; `cleanup`
drops expired records, those in progress too. State: the records, the waiter
lists. Hard: an execution that outlives its ttl, cleanup under waiting callers, a
timer racing the end. Correct when: one execution of a key at a time, no caller
waits for nobody, answers belong to the caller's key and do not change.

**Stability patterns** (`engineering/backend/reliability/stability-patterns/impl.ts`).
`withStability` = circuit breaker around retry around timeout. State: the
breaker's state, failures, lastFailureTime, halfOpenInProgress, shared by all
calls; each call's attempt. Hard: results of calls admitted in one breaker state
arrive in another. Correct when: the breaker never gets stuck half-open, probes are
limited, failures are counted per call, every admitted call returns.

**Saga** (`.../saga-pattern/impl.ts`). `SagaOrchestrator.execute` runs
steps in order, each raced against a timer; at the first failure it compensates the
completed ones in reverse, retrying each. State: status, completed and compensated
names, the retry counter. Hard: a timed-out step is not cancelled and may take effect
later; a compensation that fails for good. Correct when: failure leaves nothing behind
but what the code cannot undo, success leaves everything, undoing is in reverse.

**Go task queue** (`language/go/mini-runtime/mini_task_queue/queue.go`). Workers over a
buffered channel, `AfterFunc` timers for retries, a dispatcher goroutine, a
dead-letter channel, `Close`. State: three channels, the closed flag, goroutines in
flight, attempts, acks. Hard: every channel may be full, `Close` closes a channel that
others send on, goroutines wait for each other. Correct when: a task is in exactly one
place, is not run after its ack, is tried as often as its MaxRetry says (negative: without
end), ends; `Close` returns.

**Go scheduler** (`language/go/mini-runtime/mini_scheduler/scheduler.go`). One loop
goroutine owns a heap and a map of tasks and selects over addCh, cancelCh, stopCh and a
timer; every run of a task has a goroutine, which sends a periodic task back to addCh.
State: heap, map, channels, contexts, goroutines. Hard: a running task is in neither
heap nor map, so replacement and cancellation miss it; Stop races additions. Correct
when: a task is in one place, cancellation holds, due tasks run, Stop settles
everything and returns.

**Go pub/sub and event broker** (`language/go/mini-runtime/mini_pubsub/impl.go`,
`sse_server/sse.go`). Callers share a map of subscribers under a lock, a flag for each and one
for the whole, and send into the subscribers' channels after the lock is released. State:
subscribers, flags, channels, publications in progress, goroutines of PublishSync. Hard:
a publication walks an older copy of the subscribers while they leave and channels are closed;
an interrupted PublishSync leaves goroutines behind that deliver later. Correct when: whoever
is in the map has an open channel, none is closed twice, nobody loses a message because of
somebody else, none comes twice.

### 1.2 The labs on databases, distributed systems and performance (Python)

| Program | State and operations | Hard | Correct when |
|---|---|---|---|
| `database-systems/impl/wal_lab` (two implementations) | log buffer, log file, pages, checkpoint; write, commit, flush of pages, recover | a crash between any two calls; a commit flushes other transactions' records too | pages never run ahead of the log; acknowledged writes survive |
| `mvcc_lab` | versions of a row, active transactions, read views | a view taken while others are running | a view is a snapshot and stays one |
| `replication_lab`, `raft_lab` | master log, relay log, applied log; terms, votes, logs | two queues in rounds; who may vote for whom | the replica is a prefix; one leader a term |
| `dlock_lab`: Redis lease, fencing, directory lock, Redlock | owner, expiry, watchdog, tokens; lock files; nodes | leases that run out, delayed writes, clients between clock and file, latencies | no stale write; first come first served; mutual exclusion |
| `consistency_lab` | counters and registers of replicas | merges in any order, repeated, out of date | nothing invented, nothing doubled, replicas agree |
| `performance-engineering/impl` | event heap and areas; workers, stages, records; traced samples; budget and capacity formulas | equal times, drops, timeouts, skipped slots, redirects | Little's law, every request counted once, safe side |
| `operating-systems/impl` (context switches, lock contention) | whose turn, two conditions, queues or pipes; counters and a lock | a turn that comes back before the wait; two locks in both orders | one turn, nobody a round ahead, no count lost |
| pod, node, balancer, local policy, DNS, SLO, release gate, HTTP | a few fields each | ticks and probes, remainders, division by zero | what the printed numbers claim |

(The labs are below `systems-engineering/`.)

### 1.3 Caches and the trainer (Python)

| Program | State and operations | Hard | Correct when |
|---|---|---|---|
| `engineering/storage/mini-impl/cache/cache_framework.py` | store, order of use, frequencies, timer | three structures, three policies, lazy expiry, a timer that re-arms itself | structures agree, the policy's victim goes, a closed cache has no timer |
| `lru_cache.py` | dict and linked list between sentinels | pointer surgery | it is an order of use |
| `mini_cache_ttl.py`, Go's `mini_cache_ttl/cache.go` | ordered dict, or map and list, with deadlines; cleanup thread; Go: optional default ttl, limit and cleanup | clock read before the lock; a stop beside a round of cleanup | expired entries are collected, map and list agree, a stop ends the thread |
| `memoize.py` | cache and order, lock | recursive calls, lock released during the call | answers are the function's, calls return |
| `AI-Agent/productions/training-infra/skeleton` | disk, wandb run, upload threads, training loop | a kill while saving or pruning, pruning file by file under an upload, restart | what is found or uploaded is whole, the newest are kept, training ends |

### 1.4 The Python language exercises

| Program | State and operations | Hard | Correct when |
|---|---|---|---|
| `thread_pool.py` | workers, their count, queue | a worker gives up while a task is put | the count is true, every task runs |
| `producer_consumer.py`, `mini_task_queue.py` | queue, sentinels, retries | stop beside submit, workers that die, retry behind join | stop returns, with everything settled, while a worker lives |
| `once.py`, `cached_property.py`, three retries | flag, result, locks | unlocked reads, a lock held while a getter runs | one run for all; bounded, exponential retries |
| `bounded_gather.py`, `token_bucket_rate_limiter.py` | semaphore, tokens, clock | exceptions leave tasks behind; exact waiting | limits hold, waiters are served |
| `sse_server.py`, `mini_pubsub.py`, `event_bus.py`, `mini_agent_runtime.py` | client lists, queues, nested runs | a list that changes while it is walked over awaits | listeners hear all, in order |
| `mini_scheduler.py` | sorted list, event, current task | tasks put in or cancelled while the loop sleeps | the earliest due task runs, and it does run |
| `mini_router.py`, `mini_fastapi.py` | routes, middlewares | registration order, overwritten routes | first match, nested middlewares |
| unit of work, container, ORM query, configuration | pending changes, instances, filters, layers | scopes and order | all or nothing, one singleton, sources in order |
| data structures, object model, iterators | none or one structure | boundaries, cycles, sharing | equal to a reference definition |

## 2. Plan

Written in this order, and in place: (1) Outbox with its abstract specification,
Idempotency, Stability, Saga, TaskQueue, Scheduler, which carry the repository's
reliability core; (2) the locks, logs and replicas of the labs; (3) the caches and the
trainer; (4) the threads, queues and event loops of Python; (5) the simulators and the
algorithms. Proofs follow the same order: the modules of (1), then what is most worth
having for every size among (2), then (4), (3) and the simulators of (5).

Worth doing next, for whoever continues: the Go agent tool runner and health checker; the page
cache benchmark and the context switch benchmark's parent process.

Modules are written to be proved about as well as checked: parameters are CONSTANTS,
each operation is an action, invariants are conjunctions of named parts, and recursion is a
recursive function or a fold. RECURSIVE operators, over nested data, are in `Algorithms` and
`EngineeringPatterns` only, which no proof module reaches.

## 3. Modules and how they correspond to the code

Conventions. In TypeScript and asyncio an action is the code between two `await`s; in Go
it is the code between two operations on shared channels or flags, a `select` with a
default clause being one step; in threaded Python it is a method that holds its lock, or the
code between two accesses to shared state. Variables keep the source's names where they
can, with a prefix where two modules of one run would collide. A variable marked
"history" exists only to state a property and is never read by a guard. Definitions
preceded by "Mutant:", or named under "as" in `PROJECT.json`, are not part of any specification; each is a plausible bug that one property must catch. In the six modules of the service
components `Safe` (in `Saga`, whose proofs share a module with those of `Outbox`, `SagaIsSafe`) is the
type invariant together with the safety invariants of that module.

### Outbox, MCOutbox, EventDelivery

| Code | Model |
|---|---|
| row object; records array | `row[e]`; `stored`, insertion order in `row[e].pos` |
| `writeManyInTransaction` | `BeginWrite`, `BusinessDone`, `Insert` once per event, `WriteRejects` |
| `poll` | `StartPoll`, then per record `SkipDeadLetter`, or `BeginPublish` and `PublishResolves`/`PublishRejects`; `FinishPoll` |
| `findUnpublished` | `FindUnpublished`: filter, stable order by createdAt, first BatchSize |
| `start`, `stop`, `cleanup` | `Start`, `Stop`, `Cleanup` |
| `consume` | `Consume`; `processedIds` is the set of events with an effect |

`findUnpublished` hands out the store's own objects, so a poll reads the current
retryCount and no increment is lost: that is what the code does, and the model has no
copies. The caller's transaction is not in the source, so nothing rolls back when an
insert rejects (phase `partial`). The queue is external: it may deliver what it
accepted in any order, any number of times, and a rejected publish may still have been
accepted. A crash kills the polls; table and queue survive. `EventDelivery` is what the
outbox promises with the table's mechanics hidden; `ImplementsDelivery` is the
refinement with kept, recorded and sent mapped to `stored`, `inserted` and `accepted`.

### Idempotency

`execute` up to its first await is `ReplyFromCache`, `Reject`, `Wait` or `Begin`,
one for each branch on the record's status; from the settling of `fn` on it is
`Succeed` or `Fail`, which overwrite the record whoever's it is and answer all waiters.
`WaitTimeout` is the timer of `waitForResult`, `Cleanup` the sweep. A response is
represented by the call whose `fn` produced it, which is all the properties tell apart.
`onConflict` is a choice at each call. `outlived` is history: executions that ran past
their record's expiry.

### Stability

`FastFailOpen`, `FastFailHalfOpen`, `AdmitClosed` and `AdmitProbe` are the ways through
the head of `CircuitBreaker.execute`; entering half-open happens in the same step as the
decision that follows it, as in the code. `AttemptSucceeds`, `AttemptRejects`,
`AttemptTimesOut` and `Retry` are `withRetry` around `withTimeout`; the last result of
a call reaches `OnSuccess` or `OnFailure` without an await between. A timed-out `fn` is
not cancelled, but nobody looks at its result, so it is dropped. Backoff lengths are
abstracted to a timer that fires. `probes`, `current` and `intrusions` are history.

### Saga

Steps are 1..N with distinct names. `effect` is the state of the external services: a
step that resolved has taken effect, one that rejected has not, one that timed out may
take effect at any later time (`LateEffect`) or never. `CompensateRejects` carries the
double comparison around `retries`. The orchestrator runs once.

### TaskQueue

Channels are bounded sequences. `PublishCheck`/`PublishSend` split `Publish` between
the flag and the send, where `Close` can come in. `Work` is worker and `process`,
`TimerStep` the three attempts of an `AfterFunc` goroutine, `DispatcherStep` those of
`retryDispatcher`. MaxRetry is a value per task, as in the code; for a negative one, which is
retried without end, `MaxCounted` bounds how far the attempts are counted, which nothing but a
limit looks at (`MCTaskQueue` gives the values). `EveryTaskEnds` names the ways in which a task
does not end: its timer waits for a reader of the full dead letters; it is retried without end;
the dispatcher passes it round while such a task keeps the workers busy; Close was called and
a send panicked. `AckedIsOver` says one direction only, since a task that overflows is over
with its ack open (see findings). `SendOnClosed` is the panic of any send on the closed tasks channel;
it ends the process, so every other action needs `~panicked`. The dead-letter send and
the closing of ack that follows are one step. `CloseReturns` and `DispatcherExits`
are unreachable (see findings), so they are only in `NextToReturn`, which the run about
Close uses.

### Scheduler, MCScheduler

The heap is the set of its tasks; `IsTop` is the order of `taskHeap`. A round of the
loop is one step (`LoopAdds`, `LoopCancels`, `LoopFires`, `LoopStops`): nobody else
touches heap and map, so there is nothing to interleave between the look at the top
and the select. A 24-hour timer on an empty heap changes nothing and is left out, as is a
Cancel that returns because the scheduler has stopped. The goroutine of a run is
`FnReturns` or `FnPanics`, then `AddsAgain` or `GivesUp` for a periodic task.

### Wal, Mvcc, Replication

`Wal` runs either log program (`impl`): they differ in what recovery redoes. The value a
write gives to a page is named by its LSN. `WalCrash` may come between any two calls of a
caller; recovery comes before anything else. `Mvcc` keeps, beside each read view, the
transactions that had ended when it was made, and compares. `Replication` takes the calls of
`demo()` in their order; the Raft simulator has one action per method, called by nobody in
particular, as its demo may. The counter and the register at the end of `Replication` merge
the state any replica has now into any other one.

### LockScripts

`LockScripts` puts the Redis lease and its watchdog before the fenced storage: a client's
write may arrive at any later time, and its token is the number of its acquisition. The
directory lock splits a client between reading the clock, creating the file and listing the
directory. It also holds RedLock, whose client asks the nodes one after the other while time
passes.

### CapacitySim, LoadTester, PerfReports, ClusterSims, Benchmarks

One step of `CapacitySim` is one turn of the simulation loop; the heap is the set of its
events, ties broken either way. `LoadTester` has the workers of the closed and the open
model, the stages and the gather that ends them. `PerfReports` and most of `ClusterSims` are
calculations over inputs chosen in the initial state; ratios are scaled to integers, and a percentile of
sorted data is the n-th smallest value (`Smallest`), interpolated where the code does. The tracer
in `PerfReports` takes the events of a request in the order in which its library reports them,
redirects and failures included, and then builds the report. `Benchmarks` has the two players
that hand a turn to and fro over two conditions, two queues or two pipes (a step is one line
under a lock, so that a notification may come before the wait it is meant for), and the workers
that count under a lock or each for itself.

### CacheFramework, LruCache, LruOrder, MiniCache, Memoize

`LruCache` models dict, nodes and pointers; `LruOrder` is what an LRU cache is, a sequence of
keys from the most to the least recently used. `ImplementsLru` is the refinement with the
sequence obtained by walking the list from its head (`Walk`). `CacheFramework`'s methods hold the
lock and are one step; close and the timer thread are several. `MiniCache` is both TTL caches,
chosen by `mini`: their set and their cleanup thread read the clock before they lock. `Without`
and `Others` are what is left of an ordered dict after deletions. A `Memoize` call is a frame on
its thread's stack; `asked` is what each thread's outermost call was given. Both TTL caches take a
size (`MiniSizes`): in Python `NoSize` stands for None and 0 leaves no room, in Go 0 is no limit
(`Limited`); Go asks for its default ttl before it compares a deadline, Python does not
(`HasPassed`); Go's cleanup may be turned off (`cleaner` = "none"). The assumptions name
what the constructors check or the code relies on: a positive capacity for the other caches, no
negative default ttl.

### Checkpoints, Trainer

`Checkpoints` is the disk (directory, its time, the file whole, half written or gone), the
manager and the tracker with its upload threads. A clean-up first lists what is to go (`doomed`)
and then removes it step by step, the file and then the directory of the oldest first; an upload
asks whether there is a run and whether the path is a directory, lists it, reads the file and logs the
artifact, each a step of its own that a removal can precede. `UploadedIsComplete` and
`ResumeFindsTheNewest` name what goes wrong there: an artifact without files of a directory being
removed, and a directory emptied by a clean-up that was killed, which passes for the newest. `Trainer` extends it with the main
program. `Kill` may come at any step; threads die with the process and the next
generation starts from the same directory. A save_total_limit is not negative, and
save_steps and the accumulation are not 0, of which the code takes remainders.

### ThreadPool, SentinelQueues, Decorators, AsyncLimits

`ThreadPool` gives every task a thread that submits it; a worker's timeout and its
decision under the lock are separate steps. `SentinelQueues` holds the
producer-consumer and the mini task queue with join and its retry. Any items may make the
producer-consumer's worker function raise (`raising`), on a bounded queue too, which ends the
worker's thread: when all are dead, `StopReturnsAllResults` says that what stop leaves out
is still in the queue, and `StopIsStuck` is the full queue in front of which it waits for ever. `Decorators` holds
`once` (the unlocked reads are steps of their own), the three retries as one policy, and
`cached_property` with getters that read other properties. `AsyncLimits` holds the gather and
the token bucket.

### SseServer, PubSub, MiniRuntime

`SseServer` walks the client list by index, as Python's iterator does, while handlers change
it. `PubSub` has the topic with subscribing iterators and the event bus, which walks a
copy; its second half is Go's pub/sub and event broker, chosen by `goBus`. There a step
is a section under the lock, an access to an atomic flag or one operation on a channel, so
that Unsubscribe and Publish are four or more steps each and every interleaving of theirs is
tried. A sender is a record in `goSenders`: the publisher itself, or a goroutine of PublishSync,
which an ended context may leave behind. A send on a closed channel and the close of a closed
one panic, which ends the process except in an HTTP handler. Nobody calls Unsubscribe twice for
one subscriber. `MiniRuntime` has three programs. Of the scheduler it has the loop, its timed wait, the coroutine of a task, schedule, cancel
and stop; the event loop's clock is past 0, so that a next_run of 0 is that of a task not
scheduled yet (`MaxSchedulerTime` bounds the clock, `LastSchedule` when a client may still schedule).
The agent runtime is a stack of nested runs, the router the route table with middlewares and one dispatch as a function of it. The module extends `SseServer` and
`PubSub` to state what all listeners have in common (`ListenersHearInOrder`).

### EngineeringPatterns, Algorithms

Unit of work, container, query and configuration as small state machines or functions of an
input; the algorithms against definitions of what they should return.

### MCLabs, MCStorage, MCPython

Each composes programs that do not interact: the initial state chooses one (`lab`,
`program`), only its actions are enabled, the others stay at one initial state. This keeps
the state count a sum and not a product, and the properties of one program are checked
in its own states.

## 4. Runs

| Run | Instance | What it shows |
|---|---|---|
| `outbox` | 1 write of 2 events, 2 overlapping polls, batch 2, maxRetries 2, 1 crash, clock to 2 | `Safe`, `RetryBudget`, `EventuallyHandled`, and the refinement `ImplementsDelivery` |
| `outbox_dead_letters` | 1 poll, batch 1, maxRetries 1 below the store's limit 2 | `EventuallyHandled` fails: finding 1 |
| `idempotency` | 3 calls, 2 keys, ttl 1, clock to 3 | `Safe`, `CachedAnswerStable`, `WaitersAreAnswered` |
| `stability` | 4 calls, threshold 1, 2 attempts, clock to 2 | `Safe`, `AdmittedCallReturns` |
| `saga` | 4 steps, 2 retries | `SagaIsSafe`, `UndoneInReverse`, `SagaEnds` |
| `task_queue` | 4 tasks (MaxRetry 0, 1, 1 and -1), 1 worker, channels of capacity 1 | `Safe`, `EveryTaskEnds` |
| `task_queue_close` | 1 task, 2 workers, no retry | `CloseIsGraceful` fails: finding 4 |
| `scheduler` | a periodic and a one-shot task of one id, a one-shot of another, 1 Cancel, addCh of capacity 1, clock to 2 | `Safe`, `DueTaskRuns`, `StopCompletes` |
| `labs` | twenty programs, sizes in `MCLabs.cfg` | `SnapshotIsCommitted`, `ReplicasAgree`, `FirstComeFirstServed`, `RedlockMutex`, `Convergence`, `NumbersAreRight`, `DatabasesHold`, `RedisLockSafe`, `EveryLabEnds` |
| `storage` | five caches and the trainer, sizes in `MCStorage.cfg` | `StorageIsConsistent`, `MemoIsTransparent`, `ImplementsLru`, `EvictsByPolicy`, `StorageSettles` |
| `python` | twenty-five programs, sizes in `MCPython.cfg` | `WorkersCounted`, `StopsAreComplete`, `CallsAsPromised`, `WithinLimits`, `ListenersHearInOrder`, `ResultsAreRight`, `EarliestDueRuns`, `RouterAnswers`, `ProgramsSettle` |
| `sse_dispatcher` | 2 clients, 2 events | `DispatcherSurvives` fails: finding 6 |

**Bounds.** Constants named `Max...` bound counters and clocks in the guards; the other sizes
are the constants themselves. They are chosen so that the hazard of each property occurs.
Service components: two polls because overlap needs two; in `outbox` StoreRetryCap equals
MaxRetries, which the code guarantees only when maxRetries is 5, and the unequal case has
its own run; three calls on a key because a stale owner, its successor and an intruder
are three; four calls on the breaker so that two stale results can meet two probes;
capacity 1 so that all channels are full at once, one task of each kind of MaxRetry and a
second of a limited one, so that tasks with and without a limit meet in every channel; clock to 2 so that a periodic task can
come round twice. Labs: three transactions and one crash, so that one can be committed,
one flushed by another's commit and one lost; three clients of each lock except Redlock,
where two on three nodes give overlapping majorities; three replicas for merges that are out
of date; two servers and a queue of two, so that jobs are queued and dropped. Storage: five
keys in an LRU cache of three, so that the list is pruned at both ends and in its middle; two
threads that memoize with two places, so that a result is evicted before it is used; one
kill and two epochs, three saves or more, so that a clean-up has something to remove while two uploads
run (`MaxSaves` = 40 is never reached); TTL caches of size 0 (no room in Python, no limit in Go)
and 1. In `storage` the cache's default ttl is the only one: entries given
a ttl of their own, and those that never expire, are in the model (`Ttls`) but not in this run,
which would not finish in five minutes with them. Python: three tasks on a pool of one to two;
two workers for three items, any of which raise, or two jobs; three callers of once; two readers of two
properties, so that they can wait for each other; two clients with two tokens a second and a
capacity of three; in Go's pub/sub one publisher with two publications to one subscriber or one
to two, with buffers 0 and 1 (`MaxDeliveries` bounds the product), where the second sender
that a race needs is a goroutine left behind by the first publication. Safety does not depend on these choices where section 6 has a proof.

**Deadlock** is not checked: in every model all calls may have returned and the clock be
at its bound, which is a legitimate end, and two readers of `cached_property` may legitimately
(by the code) wait for each other. What must not stop is stated as liveness.

## 5. Fairness

| Specification | Assumed | Why |
|---|---|---|
| Outbox | a running worker's interval fires, a poll's awaits settle, the queue delivers what it accepted | setInterval; the queue is at-least-once |
| Idempotency | `fn` settles | the store has no timer of its own on fn; waiters' timers are not assumed |
| Stability | the attempt's timer and the backoff's fire | setTimeout; `fn` itself may hang |
| Saga | step timers fire, compensations settle | steps are timed; compensations are not, and a hanging one does hang the saga |
| TaskQueue | goroutines run, handlers return, timers fire | the Go runtime; nobody need publish, close or read dead letters |
| Scheduler | goroutines run, every Fn returns or panics | the Go runtime; callers may do nothing. Weak fairness of the loop suffices since its competing cases run out under the bounds; without them it is select's random choice that keeps the timer from starving |
| MCLabs | each client of the directory lock runs; the load tester's loop runs what is ready and its clock advances; the players of a benchmark run | threads and the asyncio loop; the target owes nobody an answer |
| MCStorage | the timer thread, the cleanup thread, every memoizing thread and the trainer's main thread run; a killed training is started again | threads; the restart is what the lookup of the latest checkpoint is for, kills are bounded |
| MCPython | threads of the pool, the queues' workers and a stop that has begun go on; the loop of the scheduler and the clock run; a waiter for tokens tries again when its sleep is over | threads and the asyncio loop; nobody is obliged to submit, schedule, cancel or stop. All of it is weak |

In the service components fairness is only used by `FairSpec`; all safety and all proofs
are about `Spec` (of TaskQueue, whose module states no other, about the safety part of
`FairSpec` and `CloseSpec`).

## 6. Proofs

All are for any finite number of actors and any value of the constants that satisfies
the assumptions named. For each of the six service components there is an invariant, `IInv` (`SagaInv` for the saga), which
Init establishes and every action keeps, and from which the theorems are derived; `SafeHolds`
(`SagaSafeHolds`) gathers them into the invariant the run checks.

**ConsistencyProofs, the Outbox.** `IInv` adds `PollsHonest` (what a poll has noted as published was
accepted, and its rows were recorded) and `InsertedAfterBusiness`. Without the first,
`PublishedWasAccepted` is not inductive: `FinishPoll` marks from the poll's memory, not
from the queue. Theorems: `TypeCorrect`, `PublishedReachedQueue`, `NothingIsLost`,
`NothingIsInvented`, and `Refinement`, that Outbox implements EventDelivery.
`RetriesBounded` needs `BInv`: an event's retry count together with the number of polls that
are publishing it stays below MaxRetries plus the number of polls. The count alone says
nothing of the polls that passed the retry check before it was raised. The theorem assumes
that there is a poll.

**ConsistencyProofs, the Saga.** `SagaInv` says, per phase, which steps are applied, undone
or late and how they lie around the current one. Theorems: `SagaTypeCorrect`,
`FailureIsRolledBack`, `CompletionIsTotal`, `ReverseOrder`, `SagaSafeHolds`.

**IdempotencyProofs.** `IInv` adds that a processing record belongs to a live execution
(`RecordOwned`), that executions not outlived are within their ttl (`OwnerWithinTtl`),
and what a returned response looks like. Mutual exclusion follows because a key with a
record in progress admits nobody, and such a record can go only by its own execution or
by cleanup after the ttl. Theorems: `TypeCorrect`, `WaitersHaveAnswerer`,
`MutualExclusion`, `CacheStability`, `GenuineAnswers`.

**StabilityProofs.** `HalfOpenHasItsProbe` is inductive with the types and
`AttemptsLeft`; `ProbesBounded` and `BreakerSeesFinalResults` need the library's
cardinality theorems. Theorems: `TypeCorrect`, `NeverStuckHalfOpen`,
`ProbesAccountedFor`, `FinalResultsOnly`.

**SchedulerProofs.** Two lemmas say what append and receive do to the set of tasks in
addCh and to its freedom from repetitions; the rest of the invariant speaks of that set.
It adds `KeyedById` (without it a replacement could tear another id's task from the
heap), `LateOnce` (a run with a cancelled context is its task's last), `Accounted` (an
accepted task is somewhere, over or cancelled) and `DoneMeansCancelled`. Theorems:
`TypeCorrect`, `OnePlace`, `CancellationHolds`, `StopSettles`.

**TaskQueueProofs.** The places a task can be in (main channel, retry timer, dead letters,
the dispatcher's hand, the workers' hands) are counted, and every step is shown to move one task
from one place to another or to end it. `HandsFull` says that a goroutine holds a task
exactly while it works on one, `TriesLeft` that a task with a limit that is not acknowledged has a try
left (of one without a limit nothing is counted); without
them a worker could return to its channel with a task, or a try could go beyond MaxRetry. The
rest of `IInv` is what `Safe` states. `SafeHolds` is about the running queue, `SafeWhileClosing`
about the specification in which Close goes on to close the channel and workers return
on it.

**LabsProofs, the labs.** Seven properties of the labs, each from an inductive invariant of its own.
`ConvergenceHolds`: `CrdtInv` adds that a stored value was given to set() with the timestamp
kept beside it. `RedlockExcludes`, under `2 * Quorum > NumNodes`: `RedlockInv` adds
`NodesAreKept`, that the nodes a client has locked still carry its name for as long as its
validity lasts; two majorities of the nodes share one (`FS_MajoritiesIntersect`), which cannot
carry two names. `SnapshotIsolation`: `MvccInv` says what a view's fields mean in terms of the
transactions ended when it was made. `DatabasesKeepTheirWord` takes both databases together, for any number
of transactions, pages and crashes. `WalInv`: a record of a running transaction is in the file or in the buffer,
one of a committed transaction in the file (`RecordsAreKept`), LSNs are never given twice (`Numbered`),
and a record that its own commit took to disk says so there (`OwnFlushIsCommitted`), which is what recovery
goes by; no page is ahead of the file. `RecoveredPage` says what either recovery's fold over the file leaves in a page, and `AckedStep`
that this is at least the newest value acknowledged. That a transaction which keeps its view finds
the same versions again (`RepeatableStep`) follows from the type of views and rows (`ReadInvStep`) and
`IsVisible`: a version written later was written by a transaction the view does not see. `LockIsSafe`: `RedisInv` says
that clients' tokens differ, that the storage keeps the token of the client it names and that
no lease is longer than the ttl. `ServedInOrder`: `ZkInv` says that every file that exists, and
every file a client has seen ahead of it, was named before its client's last name, or is that
name itself. `LogsAgree`: `ReplicationInv` cuts the master's log in three, what the slave has
applied, what lies in its relay log and what was not sent yet, and a round carries one
transaction, from which the lag follows; `RaftInv` adds that only who has begun a term is
anything but a follower, and `NobodyVotes` that a candidate is given no vote but its own, a peer
of its term having voted for itself: no term has two leaders, and a cluster of several has none.

**LabsProofs, what stores things.** `StorageHolds`, `EvictionHolds` and `LruRefines` are about the
run `storage`, for any keys, capacities, ttls, clocks, limits, configurations and numbers of kills. Their
invariant `StorageInv` has one part for each program, kept by its steps and by those of the others.

- `LruInv`: there is a sequence of distinct keys, those of the dict, no longer than the
  capacity, and the next and prev pointers chain it between the sentinels (`Linked`). `UnlinkIs` and `AddIs`
  say what the pointer surgery does to that sequence, `WalkIs` that walking the list finds it. From these
  `LruRefines`, that each get and put is one step of `LruOrder`, and that
  list and dict match.
- `CacheInv`: the order of use has each key of the store once, the frequencies are the access counts,
  no time stamp is ahead of the clock, and under the policy lru the time stamps rise along the order
  (`Rising`). The last is why the head of the order is the entry unused for longest, which
  `EvictionHolds` states in time stamps and the code decides by position. An update by `set`
  renews the time stamp and moves the key under lru only, which is why `Rising` is
  conditional.
- `MiniInv`: the ordered dict and the deadlines have the same keys, once each and, where there is a
  limit, no more than it allows, whatever a cleanup thread does between two reads of the clock.
- `TrainInv`: what was saved is whole until a clean-up takes it away, and an upload that got past
  reading its directory read a whole file, or nothing when a clean-up had been there before
  (`UploadsInv`). What a clean-up has yet to remove is
  on disk (`DoomedInv`) and, in a first run, is what the limit does not ask for; the one directory
  that may be empty is the next to go (`Removal`). In a first run what was saved is
  on disk in order of time as far as the limit asks, and after a clean-up nothing else is (`FirstRun`). The
  checkpoint begun last is the newest in the directory until a second run saves over older names
  (`Newest`), or a clean-up was interrupted and left an empty one, which is why a restart finds one or
  the other (`ResumeInv`). The counters of steps, batches and epochs
  are tied together, which bounds what max_steps may be overshot by (`HorizonInv`).

`WhatIsKept`, `KeptDistinct` and `KeptButOne`, on a sequence from which keys are removed, serve all of them.

**RuntimeProofs.** The programs of the run `python`, each again with an invariant of its own;
none of them depends on the number of threads, clients, items or tasks.

- `FanOutHolds` (Go's pub/sub and broker; TLC's instance has one publisher). `Users`: who is in
  the map is open and unflagged, a channel about to be closed by Unsubscribe is still open, and
  who is about to be added after Close began is remembered. `OnTheirWay`: every send belongs to
  its publisher's publication or to an earlier one that was cancelled, its subscriber has not
  heard the message, and nobody is sent a message before the walk has looked at it.
  `WillBeReached`: while a walk lasts, each subscriber of its copy is still to be looked at, is
  being sent to, or is reached. Steps of users and of Close disturb only the first part, those of
  publications only the other two, which is how the proof is split.
- `WorkersAreCounted`. `PoolInv` adds that the core threads never leave, and `ThreadsSuffice`:
  there are no more submits that may still start a thread than threads not started, so that
  the model's names for threads never run out.
- `LimitsHold`. For the gather, `GatherInv` adds that an item waits for the semaphore
  once, and not after it has run. For the bucket, `TokensAreCovered`: what was drawn since any
  grant, together with what is in the bucket now, came from the capacity and the rate.
- `CallsKept`. `OnceInv` relates the two fields read without the lock to the run that set
  them; `RetryInv` gives the delay after any number of attempts (`Power`); `PropertyInv` says
  that a lock is held for a call on its reader's stack (`LocksAreUsed`) and that every value
  stored was computed once (`Accounted`). A circle of waiting
  readers is excluded for getters that keep an order of the properties, whatever its length: a
  reader's stack falls in that order, so that a waiter holds locks above the one it waits for. The clause was
  stated for a circle of two before; the proof showed that with more than two properties this
  says less than was meant, and the property was generalised.
- `StopsComplete`. `ProducerInv` and `TaskQueueInv` account for every item and job (queued, in
  a worker's hands, settled, lost with a dead worker because it raised) and keep the sentinels behind the
  items put before stop: a worker that took its sentinel has none of those behind it, and if none
  lived to take one, what is missing is in the queue.
- `MemoIsTheFunction`. A frame of a thread's stack is at the argument its caller asked
  for, and holds the function's values for the calls that have returned to it. `StepByStep`
  supplies the recursive function itself.
- `EarliestIsRun`. `ScheduleInv`: the list is sorted by next_run, names a task once and does
  not name the running one. `EnterKeeps` is the stable insertion that `append` and `sort` amount
  to.
- `ListenersHear`. `StreamInv`: while the list changes under the walk, nobody is ahead of
  the broker and those still before the walk's index have not got the event. `TopicInv`: what an
  iterator has consumed followed by its queue is what it was sent; the event bus follows its copy.
  `AgentInv`: what was emitted is the stack of open runs and balanced pieces.

The lemmas under "Least and greatest numbers, sequences and folds" are independent of these programs.
Induction is obtained from facts the library proves about well-founded relations
without an operator parameter: `LowestExists` (LabsProofs) and `LeastIs` find the least number of
a set, `AllNumbers` and `StepByStep` that a function defined by recursion over the numbers exists
and satisfies its equation, and `FoldExists` that a fold of the community modules is such a
function of the position. `RemovedAt`, `InsertedAt` and `MovedOver` are about removing from and
inserting into sequences.

- `RouterGivesTheRightAnswer`. `RouterInv`: the dict of routes has a key for every call of add, in the
  order in which the keys were first used, each with the handler of the last call (`EveryKeyIsKept`,
  `InOrderOfFirstUse`, `LastHandlerIsKept`). The trace of a dispatch is then read off the recursion over the
  middlewares, from the inside to the outside.

**MeasureProofs.** `MeasuresAreRight`, that the numbers the measuring labs print are right: fourteen
programs, for any latencies, limits, numbers of workers, rounds and requests that the assumptions of the
modules allow (natural numbers, at least one endpoint, a safety factor that is not 0).
Each has an invariant (`MeasuresInv` is their conjunction), which the steps of the others leave alone.

- `SimInv` (capacity simulator): each area is the sum of the times spent by the jobs that have
  left and the times since the arrival of those still there (`SimSums`), from which Little's law follows at every
  event; the queue holds later arrivals than any job in service (`SimQueue`), hence first come first
  served; the servers' busy time fits into servers times clock. `SmallestGrows` compares the P99 of
  waiting and of total times without sorting either.
- `TestInv` (load tester): requests sent are those recorded, those recorded in the current stage and
  those in flight.
- `PingInv`, `CountInv` (benchmarks): where the token of the turn is, in the three ways of handing it on;
  what a worker between read and write has seen is still in the cell.
- `BudgetInv` (latency budget): the loop has added up exactly the components before it, of which fewer than five
  can be bottlenecks. `PlanInv`: the nodes planned are the fewest that carry the
  peak, and a larger size of node never costs less (`LargerNodesCostMore`).
  `ReportInv`: percentiles interpolated between sorted records rise with the percentage, and are at least as
  high when the records are corrected for coordinated omission. `TimingsInv`, `SamplesInv`: the events of
  a request are stamped in an order in which no part is negative, and the parts fit into the total.
- `PodInv`, `NodeInv`, `IngressInv`, `SloInv`, `HttpInv` (cluster, reliability, network): a ready pod had
  its start-up delay, the requests of the pods placed fit the node, a client's hash names one
  endpoint and the hashes are shared evenly, the window's counters count the window, the slowest
  of several latencies decides.

The first part of the module is about sums over finite sets, the n-th smallest value of a
function, and quotients (`Division`, `QuotientBounds`, `RoundedShare`). The proof found two statements that
were not true of every instance and now say what the code guarantees: no job took longer than
the P99 only up to a hundred completed jobs (`CapacitySim`), and what is left out of the top three would
have saved no more than what is in, but for the tenth of a percent to which the report rounds
(`PerfReports`). Neither shows in the small instance.

**Only model-checked.** Every liveness property (`EventuallyHandled`, `WaitersAreAnswered`,
`AdmittedCallReturns`, `SagaEnds`, `EveryTaskEnds`, `DueTaskRuns`, `StopCompletes`, `EveryLabEnds`,
`StorageSettles`, `ProgramsSettle`): they need fairness and ENABLED, beyond this prover's reach.
`ResultsAreRight`: its modules have RECURSIVE operators, and what the algorithms compute would need
induction over data. Every other property of a passing run is stated by a theorem.

## 7. Findings

`PROJECT.json` has each with its line and the line that says otherwise. With a run:

1. **Dead letters starve the outbox.** `findUnpublished` filters on the literal 5, not on
   maxRetries. With a smaller maxRetries an exhausted row is fetched by every poll
   for ever and takes up the batch. (`outbox-pattern/impl.ts:301`, against the comment
   at 255; run `outbox_dead_letters`.)
2. **A stale execution releases a lock that is not its own.** After its ttl and a
   cleanup it overwrites its successor's record; if it failed, a third execution starts
   beside the second. (`transaction-boundary/impl.ts:112`, against `review.md:12`.
   `Safe` states what is left: executions overlap only if one outlived its ttl.)
3. **Two probes.** A failure from before the breaker opened is taken for the probe's.
   A stale success closes the breaker by the same route. (`stability-patterns/impl.ts:181`,
   against its README. `ProbesBounded` counts them.)
4. **Close never returns.** It waits for the dispatcher before closing the channel
   whose closing ends the dispatcher. (`mini_task_queue/queue.go:154`; run
   `task_queue_close`.)
5. **Cancel misses a running task.** The map entry is deleted when the task is fired, so
   a periodic task cancelled by id during its run goes on. For the same reason a task that
   is replaced while it runs comes back and evicts its replacement, and a Cancel may
   overtake its task in the other channel. The cancel function that schedule returns
   does work (`CancelIsHeeded`). (`mini_scheduler/scheduler.go:203`.)
6. **The event dispatcher dies of a client that left.** `_dispatch` removes a client its
   handler has removed while it awaited the drain: `list.remove` raises.
   (`sse_server.py:72`; run `sse_dispatcher`.)

Met while modelling, without a run of their own (the models keep what the code does):

- `checkpoint.py:73` reads a field of another configuration class; `main.py:68` looks the latest
  checkpoint up and loads nothing; `main.py:104` logs the evaluation to a finished run.
- `cached_property.py:24` shares one lock among all instances and holds it while the getter runs.
- `producer_consumer.py:43` and `mini_task_queue.py:83` lose what is put behind the sentinels;
  `producer_consumer.py:69`: when all workers have died of their function, stop returns without
  the items before it, or blocks for ever on a full queue.
- `mini_task_queue/queue.go:153`: Close makes sends panic; `:215`, `:252`, `:254`: a task that
  overflows is never acknowledged, so `Wait` hangs.
- `checkpoint.py:75` removes directories whose uploads still run, which then fail or log an empty
  artifact; `checkpoint.py:85` takes a half written directory, or one that a killed clean-up has
  emptied, for the newest checkpoint.
- `zk_lock.py:16` reads its number before the file exists; `redis_lock.py:37` revives expired
  leases; `raft_sim.py:61` elects nobody in a cluster of several; `re_impl/wal.py:79` redoes
  uncommitted records.
- `mini_pubsub/impl.go:92` closes a channel a Publish may be about to send on, or leaves it open
  if a message is in it; `:217` closes channels a PublishSync is blocked on; `sse.go:92` closes a
  channel again that the broker has closed; `sse.go:118` cannot be called.
- `context_switch_bench.py:93`: two threads each hold their own condition's lock and may want the
  other's for ever (`Embraced`); `lock_contention.py:126` reports iterations nobody did.
- `budget_calculator.py:120`, `load_tester.py:236`, `burn_rate.py:38`, `dns_ndots.py:18`,
  `flatten.py:43`, `deep_copy.py:61`, `mini_router.py:91`: results that differ from what the
  text beside them says.

Limits of the code the properties are stated around: in `cache_framework.py` an entry
past its deadline counts toward capacity until somebody meets it, `expire()` revives one,
an empty key is never a victim; in `thread_pool.py` a pool with min_workers 0 can leave a task
behind; a bucket asked for more than its capacity waits for ever; `close()` of the pub/sub leaves
its iterators waiting; a task scheduled earlier than the sleeping one does not wake the Python
scheduler; cyclic dependencies end the container in RecursionError; max_steps is overshot by one
batch in every later epoch; a `once` function that calls itself waits for its own lock.

## 8. What is not modelled, and why

- In the models: numbers, messages and payloads are abstracted; logging, metrics and statistics
  are left out, as are backoff lengths and jitter in TypeScript (in Python's retries they are
  kept, over small sets).
- `analyzeTransactionBoundary`, `generateIdempotencyKey`, `SagaBuilder` and
  `SagaDeadLetterQueue` (never called by the orchestrator). The consumer's `processedIds` lives
  in memory and the source gives it no restart; a restart would break at-most-once.
- `container/heap` and `heapq` are taken to keep the earliest at the root. Ties are broken either
  way. `SystemExit` inside a pool's task is left out: it kills the worker.
- Saga steps with equal names, and a second `execute` on the same orchestrator: the examples
  and tests use neither.
- The other Go programs (agent tool runner, health checker, router): their Python
  counterparts are modelled, or they share little. `PublishTo` of the SSE broker and the
  encoding of its events.
- `MultiLevelCache` (takes a second cache the repository does not have) and the `cached`
  decorator (returns no wrapper) of the cache framework.
- Layered service, middleware pipeline, RBAC, permission kata, API design, observability
  baseline: one call at a time on maps and rules, formatting.
- Tensors, losses, optimizer schedules, the data pipeline and the communication between ranks
  of the trainer.
- The page cache benchmark and the load tester's target server (they measure the machine), skeletons whose bodies are TODO, unfinished
  programs (`re_impl.py` of the cache, the connection pool), the chat server (its start-up hook
  is registered under a name the framework does not know, so it broadcasts nothing), notes, demos
  and front-end exercises.

## 9. Running

    tlc -workers 2 -config MCOutbox.cfg MCOutbox
    tlapm ConsistencyProofs.tla

The other runs and proofs are alike; `PROJECT.json` lists module and configuration of
each. `labs`, `storage` and `python` take between one and three minutes each.
