----------------------------- MODULE TaskQueue -----------------------------
(***************************************************************************)
(* language/go/mini-runtime/mini_task_queue/queue.go: Publish, the worker  *)
(* goroutines, the retry timers, retryDispatcher and Close.                *)
(*                                                                         *)
(* A select with a default clause is one step.  A send on a closed channel *)
(* panics, inside a select too, and a panic ends the process.              *)
(***************************************************************************)
EXTENDS Integers, Sequences, FiniteSets

CONSTANTS
    Tasks,      \* tasks, each published once
    Workers,    \* worker goroutines
    Buffer,     \* capacity of tasks, retryQ and deadQ
    MaxRetry,   \* Task.MaxRetry of each task, negative for retries without end
    MaxCounted, \* bound: how far the attempts of a task without a limit are counted
    NoTask

ASSUME TaskQueueAssumption ==
    /\ Buffer \in Nat \ {0} /\ MaxRetry \in [Tasks -> Int] /\ MaxCounted \in Nat
    /\ NoTask \notin Tasks
    /\ IsFiniteSet(Workers) /\ Workers # {}

VARIABLES
    tasks, retryQ, deadQ,   \* the buffered channels
    closed,                 \* Queue.closed
    closer,                 \* Close: "open", "flagged", "waiting" or "returned"
    publisher,              \* where Publish(t) is
    worker,                 \* [pc, task] of each worker goroutine
    dispatcher,             \* [pc, task] of retryDispatcher
    timer,                  \* the AfterFunc goroutine of each task
    attempts,               \* Task.Attempts
    acked,                  \* tasks whose ack channel is closed
    settled,                \* tasks that succeeded, or left through deadQ's reader
    dropped,                \* tasks no queue had room for
    panicked

channels == <<tasks, retryQ, deadQ>>
callers  == <<closed, closer, publisher, panicked>>
routines == <<worker, dispatcher, timer>>
counts   == <<attempts, acked>>
ends     == <<settled, dropped>>
vars     == <<channels, callers, routines, counts, ends>>

Free == [pc |-> "recv", task |-> NoTask]
Exited == [pc |-> "exited", task |-> NoTask]

Init ==
    /\ tasks = <<>> /\ retryQ = <<>> /\ deadQ = <<>>
    /\ closed = FALSE /\ closer = "open"
    /\ publisher = [t \in Tasks |-> "idle"]
    /\ worker = [w \in Workers |-> Free]
    /\ dispatcher = Free
    /\ timer = [t \in Tasks |-> "off"]
    /\ attempts = [t \in Tasks |-> 0] /\ acked = {}
    /\ settled = {} /\ dropped = {}
    /\ panicked = FALSE

HasRoom(q) == Len(q) < Buffer
TasksClosed == closer \in {"waiting", "returned"}

-----------------------------------------------------------------------------
(* Publish: the closed flag is read before the send is tried.              *)

PublishCheck(t) ==
    /\ ~panicked /\ publisher[t] = "idle"
    /\ publisher' = [publisher EXCEPT ![t] = IF closed THEN "refused" ELSE "checked"]
    /\ UNCHANGED <<channels, closed, closer, panicked, routines, counts, ends>>

PublishSend(t) ==
    /\ ~panicked /\ publisher[t] = "checked" /\ ~TasksClosed
    /\ IF HasRoom(tasks)
       THEN tasks' = Append(tasks, t) /\ publisher' = [publisher EXCEPT ![t] = "sent"]
       ELSE UNCHANGED tasks /\ publisher' = [publisher EXCEPT ![t] = "refused"]
    /\ UNCHANGED <<retryQ, deadQ, closed, closer, panicked, routines, counts, ends>>

-----------------------------------------------------------------------------
(* worker and process                                                      *)

Receive(w) ==
    /\ ~panicked /\ worker[w].pc = "recv" /\ tasks # <<>>
    /\ worker' = [worker EXCEPT ![w] = [pc |-> "handler", task |-> Head(tasks)]]
    /\ tasks' = Tail(tasks)
    /\ UNCHANGED <<retryQ, deadQ, callers, dispatcher, timer, counts, ends>>

\* range ends on a channel that is closed and drained.
WorkerExits(w) ==
    /\ ~panicked /\ worker[w].pc = "recv" /\ tasks = <<>> /\ TasksClosed
    /\ worker' = [worker EXCEPT ![w] = Exited]
    /\ UNCHANGED <<channels, callers, dispatcher, timer, counts, ends>>

\* Only a limit looks at Task.Attempts: without one the count stops at MaxCounted.
Endless(t) == MaxRetry[t] < 0
Tried(t) == IF Endless(t) /\ attempts[t] >= MaxCounted THEN attempts[t] ELSE attempts[t] + 1
CountAttempt(t) == attempts' = [attempts EXCEPT ![t] = Tried(t)]

HandlerSucceeds(w) ==
    LET t == worker[w].task IN
    /\ ~panicked /\ worker[w].pc = "handler"
    /\ worker' = [worker EXCEPT ![w] = Free]
    /\ CountAttempt(t)
    /\ acked' = acked \cup {t} /\ settled' = settled \cup {t}
    /\ UNCHANGED <<channels, callers, dispatcher, timer, dropped>>

RetryAllowed(t) == Endless(t) \/ attempts[t] + 1 <= MaxRetry[t]

\* Mutant: a failed task is not scheduled again.
HandlerFailsForgets(w) ==
    LET t == worker[w].task IN
    /\ ~panicked /\ worker[w].pc = "handler" /\ RetryAllowed(t)
    /\ worker' = [worker EXCEPT ![w] = Free]
    /\ CountAttempt(t)
    /\ UNCHANGED <<channels, callers, dispatcher, timer, acked, ends>>

HandlerFailsRetry(w) ==
    LET t == worker[w].task IN
    /\ ~panicked /\ worker[w].pc = "handler" /\ RetryAllowed(t)
    /\ worker' = [worker EXCEPT ![w] = Free]
    /\ CountAttempt(t)
    /\ timer' = [timer EXCEPT ![t] = "pending"]
    /\ UNCHANGED <<channels, callers, dispatcher, acked, ends>>

HandlerFailsDead(w) ==
    LET t == worker[w].task IN
    /\ ~panicked /\ worker[w].pc = "handler" /\ ~RetryAllowed(t)
    /\ worker' = [worker EXCEPT ![w] = Free]
    /\ CountAttempt(t)
    /\ acked' = acked \cup {t}
    /\ IF HasRoom(deadQ)
       THEN deadQ' = Append(deadQ, t) /\ UNCHANGED dropped
       ELSE dropped' = dropped \cup {t} /\ UNCHANGED deadQ
    /\ UNCHANGED <<tasks, retryQ, callers, dispatcher, timer, settled>>

-----------------------------------------------------------------------------
(* The AfterFunc goroutine of a retry: retryQ, else tasks, else deadQ, the *)
(* last one a send that blocks.                                            *)

\* Mutant: the task is sent to retryQ and the goroutine goes on to tasks.
TimerFallsThrough(t) ==
    /\ ~panicked /\ timer[t] = "pending"
    /\ timer' = [timer EXCEPT ![t] = "tasks"]
    /\ retryQ' = IF HasRoom(retryQ) THEN Append(retryQ, t) ELSE retryQ
    /\ UNCHANGED <<tasks, deadQ, callers, worker, dispatcher, counts, ends>>

TimerFires(t) ==
    /\ ~panicked /\ timer[t] = "pending"
    /\ IF HasRoom(retryQ)
       THEN retryQ' = Append(retryQ, t) /\ timer' = [timer EXCEPT ![t] = "off"]
       ELSE UNCHANGED retryQ /\ timer' = [timer EXCEPT ![t] = "tasks"]
    /\ UNCHANGED <<tasks, deadQ, callers, worker, dispatcher, counts, ends>>

TimerTriesTasks(t) ==
    /\ ~panicked /\ timer[t] = "tasks" /\ ~TasksClosed
    /\ IF HasRoom(tasks)
       THEN tasks' = Append(tasks, t) /\ timer' = [timer EXCEPT ![t] = "off"]
       ELSE UNCHANGED tasks /\ timer' = [timer EXCEPT ![t] = "dead"]
    /\ UNCHANGED <<retryQ, deadQ, callers, worker, dispatcher, counts, ends>>

TimerSendsDead(t) ==
    /\ ~panicked /\ timer[t] = "dead" /\ HasRoom(deadQ)
    /\ deadQ' = Append(deadQ, t)
    /\ timer' = [timer EXCEPT ![t] = "off"]
    /\ UNCHANGED <<tasks, retryQ, callers, worker, dispatcher, counts, ends>>

-----------------------------------------------------------------------------
(* retryDispatcher: tasks, else retryQ, else deadQ, else dropped.          *)

Dispatch ==
    /\ ~panicked /\ dispatcher.pc = "recv" /\ retryQ # <<>>
    /\ dispatcher' = [pc |-> "tasks", task |-> Head(retryQ)]
    /\ retryQ' = Tail(retryQ)
    /\ UNCHANGED <<tasks, deadQ, callers, worker, timer, counts, ends>>

DispatchTasks ==
    /\ ~panicked /\ dispatcher.pc = "tasks" /\ ~TasksClosed
    /\ IF HasRoom(tasks)
       THEN tasks' = Append(tasks, dispatcher.task) /\ dispatcher' = Free
       ELSE UNCHANGED tasks /\ dispatcher' = [dispatcher EXCEPT !.pc = "retry"]
    /\ UNCHANGED <<retryQ, deadQ, callers, worker, timer, counts, ends>>

DispatchRetry ==
    /\ ~panicked /\ dispatcher.pc = "retry"
    /\ IF HasRoom(retryQ)
       THEN retryQ' = Append(retryQ, dispatcher.task) /\ dispatcher' = Free
       ELSE UNCHANGED retryQ /\ dispatcher' = [dispatcher EXCEPT !.pc = "dead"]
    /\ UNCHANGED <<tasks, deadQ, callers, worker, timer, counts, ends>>

DispatchDead ==
    /\ ~panicked /\ dispatcher.pc = "dead"
    /\ IF HasRoom(deadQ)
       THEN deadQ' = Append(deadQ, dispatcher.task) /\ UNCHANGED dropped
       ELSE dropped' = dropped \cup {dispatcher.task} /\ UNCHANGED deadQ
    /\ dispatcher' = Free
    /\ UNCHANGED <<tasks, retryQ, callers, worker, timer, counts, settled>>

\* The program may read DeadLetter(), or not.
ReadDeadLetter ==
    /\ ~panicked /\ deadQ # <<>>
    /\ settled' = settled \cup {Head(deadQ)}
    /\ deadQ' = Tail(deadQ)
    /\ UNCHANGED <<tasks, retryQ, callers, routines, counts, dropped>>
-----------------------------------------------------------------------------
(* Close, and the sends that find tasks closed                             *)

CloseFlag ==
    /\ ~panicked /\ closer = "open"
    /\ closed' = TRUE /\ closer' = "flagged"
    /\ UNCHANGED <<channels, publisher, panicked, routines, counts, ends>>

\* close(q.tasks); what follows is q.wg.Wait().
CloseTasks ==
    /\ ~panicked /\ closer = "flagged"
    /\ closer' = "waiting"
    /\ UNCHANGED <<channels, closed, publisher, panicked, routines, counts, ends>>

SendOnClosed ==
    /\ ~panicked /\ TasksClosed
    /\ \/ \E t \in Tasks : publisher[t] = "checked" \/ timer[t] = "tasks"
       \/ dispatcher.pc = "tasks"
    /\ panicked' = TRUE
    /\ UNCHANGED <<channels, closed, closer, publisher, routines, counts, ends>>

\* The rest of Close and of retryDispatcher.
CloseReturns ==
    /\ ~panicked /\ closer = "waiting"
    /\ \A w \in Workers : worker[w] = Exited
    /\ dispatcher = Exited
    /\ closer' = "returned"
    /\ UNCHANGED <<channels, closed, publisher, panicked, routines, counts, ends>>

\* range q.retryQ ends once retryQ is closed, which Close does after Wait.
DispatcherExits ==
    /\ ~panicked /\ dispatcher = Free /\ retryQ = <<>> /\ closer = "returned"
    /\ dispatcher' = Exited
    /\ UNCHANGED <<channels, callers, worker, timer, counts, ends>>

-----------------------------------------------------------------------------
Publish(t) == PublishCheck(t) \/ PublishSend(t)
Work(w) == Receive(w) \/ HandlerSucceeds(w) \/ HandlerFailsRetry(w) \/ HandlerFailsDead(w) \/ WorkerExits(w)
TimerStep(t) == TimerFires(t) \/ TimerTriesTasks(t) \/ TimerSendsDead(t)
DispatcherStep == Dispatch \/ DispatchTasks \/ DispatchRetry \/ DispatchDead

Next ==
    \/ \E t \in Tasks : Publish(t) \/ TimerStep(t)
    \/ \E w \in Workers : Work(w)
    \/ DispatcherStep
    \/ ReadDeadLetter
    \/ CloseFlag \/ CloseTasks \/ SendOnClosed

\* With the tail of Close, which no reachable state of Next enables.
NextToReturn == Next \/ CloseReturns \/ DispatcherExits

\* Goroutines run, handlers return and timers fire; the dead-letter channel
\* may have no reader, and nobody need ever publish or close.
Fairness ==
    /\ \A w \in Workers : WF_vars(Work(w))
    /\ \A t \in Tasks : WF_vars(TimerStep(t))
    /\ WF_vars(DispatcherStep)
    /\ WF_vars(CloseTasks) /\ WF_vars(SendOnClosed)

FairSpec == Init /\ [][Next]_vars /\ Fairness

CloseSpec ==
    /\ Init /\ [][NextToReturn]_vars /\ Fairness
    /\ WF_vars(CloseReturns) /\ WF_vars(DispatcherExits)

-----------------------------------------------------------------------------
(* Properties                                                              *)

PcTask(pcs) == [pc : pcs, task : Tasks \cup {NoTask}]

TypeOK ==
    /\ \A q \in {tasks, retryQ, deadQ} : q \in Seq(Tasks) /\ Len(q) <= Buffer
    /\ closed \in BOOLEAN
    /\ closer \in {"open", "flagged", "waiting", "returned"}
    /\ publisher \in [Tasks -> {"idle", "checked", "sent", "refused"}]
    /\ worker \in [Workers -> PcTask({"recv", "handler", "exited"})]
    /\ dispatcher \in PcTask({"recv", "tasks", "retry", "dead", "exited"})
    /\ timer \in [Tasks -> {"off", "pending", "tasks", "dead"}]
    /\ attempts \in [Tasks -> Nat]
    /\ acked \subseteq Tasks /\ settled \subseteq Tasks /\ dropped \subseteq Tasks
    /\ panicked \in BOOLEAN

InQueue(t, q) == \E i \in 1..Len(q) : q[i] = t

\* Every place a task can be in, and how often it is there.
Places(t) ==
    Cardinality({i \in 1..Len(tasks) : tasks[i] = t})
    + Cardinality({i \in 1..Len(retryQ) : retryQ[i] = t})
    + Cardinality({i \in 1..Len(deadQ) : deadQ[i] = t})
    + Cardinality({w \in Workers : worker[w].task = t})
    + (IF dispatcher.task = t THEN 1 ELSE 0)
    + (IF timer[t] # "off" THEN 1 ELSE 0)
    + (IF t \in settled THEN 1 ELSE 0)
    + (IF t \in dropped THEN 1 ELSE 0)

\* The hand-overs between workers, timers, dispatcher and full channels never
\* lose an accepted task and never run it twice at once.
TaskInOnePlace == \A t \in Tasks : Places(t) = (IF publisher[t] = "sent" THEN 1 ELSE 0)

\* A task whose ack is closed is over: it is not run again, so ack is not
\* closed twice.  (Some that are over keep an open ack: those that overflow.)
AckedIsOver ==
    \A t \in acked : t \in settled \cup dropped \/ InQueue(t, deadQ)

\* A task with a limit is tried at most once more than it may be retried.
AttemptsBounded == \A t \in Tasks : ~Endless(t) => attempts[t] <= MaxRetry[t] + 1

\* Whoever waits for a task that is then found dead has waited for all its
\* tries: an overflow on the way closes no ack, and a task to be retried
\* without end is never given up by the worker.
DeadAfterAllTries ==
    \A t \in acked : t \in dropped \/ InQueue(t, deadQ) =>
        ~Endless(t) /\ attempts[t] = MaxRetry[t] + 1

Over(t) == t \in settled \cup dropped \/ InQueue(t, deadQ)
InHandler(t) == \E w \in Workers : worker[w].pc = "handler" /\ worker[w].task = t
RunsForEver(t) == Endless(t) /\ []<>InHandler(t)

\* An accepted task ends as acknowledged or in the dead letters, or its timer
\* waits for a reader of the full dead-letter channel, or Close made a send
\* panic.  A task to be retried without end may be tried for ever instead; any
\* other may only be passed round for ever, between a retryQ with room and a
\* full tasks, by the dispatcher while such a one keeps the workers busy.
EveryTaskEnds ==
    \A t \in Tasks :
        \/ publisher[t] = "sent" ~> Over(t) \/ timer[t] = "dead" \/ (closed /\ panicked)
        \/ RunsForEver(t)
        \/ []<>(dispatcher.task = t) /\ \E u \in Tasks \ {t} : RunsForEver(u)

\* Close is graceful: unless the process panics first, it returns once the
\* tasks are processed.
CloseIsGraceful == closer # "open" ~> closer = "returned" \/ panicked

\* A task is in one channel, timer or worker at a time, is over once it is
\* acknowledged, and is attempted no more often than its limit, and all of
\* that often if it is acknowledged as dead.
Safe == TypeOK /\ TaskInOnePlace /\ AckedIsOver /\ AttemptsBounded /\ DeadAfterAllTries
=============================================================================
