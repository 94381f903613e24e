-------------------------- MODULE TaskQueueProofs --------------------------
(***************************************************************************)
(* Safety of the task queue, its Close included, for any tasks, workers    *)
(* and capacity, each task with any MaxRetry, retries without end among    *)
(* them: the places a task can be in are counted and every step moves one  *)
(* task from one of them to another.                                       *)
(***************************************************************************)
EXTENDS TaskQueue, FiniteSetTheorems, TLAPS

\* How often a counts as b.
Same(a, b) == IF a = b THEN 1 ELSE 0
Waiting(q, t) == Cardinality({i \in 1..Len(q) : q[i] = t})
Held(f, t) == Cardinality({w \in Workers : f[w].task = t})

\* A goroutine holds a task exactly while it works on one.
HandsFull ==
    /\ \A w \in Workers : worker[w].task = NoTask <=> worker[w].pc # "handler"
    /\ dispatcher.task = NoTask <=> dispatcher.pc \in {"recv", "exited"}

\* A task that is not over has been tried no more often than it may be retried.
TriesLeft == \A t \in Tasks : t \notin acked /\ ~Endless(t) => attempts[t] <= MaxRetry[t]

Ends == AckedIsOver /\ AttemptsBounded /\ DeadAfterAllTries /\ TriesLeft

IInv == TypeOK /\ HandsFull /\ TaskInOnePlace /\ Ends

-----------------------------------------------------------------------------
(* Counting in a channel and among the workers                             *)

\* The count of a task in a channel is a number, and positive if it is there.
LEMMA WaitingFacts ==
    ASSUME NEW q \in Seq(Tasks), NEW t
    PROVE  /\ IsFiniteSet({i \in 1..Len(q) : q[i] = t})
           /\ Waiting(q, t) \in Nat
           /\ InQueue(t, q) => Waiting(q, t) >= 1
<1> DEFINE P == {i \in 1..Len(q) : q[i] = t}
<1>1. IsFiniteSet(1..Len(q)) /\ P \in SUBSET (1..Len(q))
  BY FS_Interval
<1>2. IsFiniteSet(P)
  BY <1>1, FS_Subset
<1>3. Cardinality(P) \in Nat /\ (Cardinality(P) = 0 <=> P = {})
  BY <1>2, FS_CardinalityType, FS_EmptySet
<1>4. InQueue(t, q) => P # {}
  BY DEF InQueue
<1> QED BY <1>2, <1>3, <1>4 DEF Waiting

\* A send adds its task, and no other.
LEMMA WaitingAppend ==
    ASSUME NEW q \in Seq(Tasks), NEW x \in Tasks, NEW t
    PROVE  Waiting(Append(q, x), t) = Waiting(q, t) + Same(x, t)
<1> DEFINE P == {i \in 1..Len(q) : q[i] = t}
           R == {i \in 1..Len(Append(q, x)) : Append(q, x)[i] = t}
           n == Len(q) + 1
<1>1. Len(q) \in Nat /\ Len(Append(q, x)) = n
  OBVIOUS
<1>2. 1..n = (1..Len(q)) \cup {n} /\ n \notin 1..Len(q)
  BY <1>1
<1>3. \A i \in 1..Len(q) : Append(q, x)[i] = q[i]
  OBVIOUS
<1>4. Append(q, x)[n] = x
  OBVIOUS
<1>5. IsFiniteSet(P) /\ Cardinality(P) \in Nat /\ n \notin P
  BY <1>2, WaitingFacts DEF Waiting
<1>6. CASE x = t
  <2>1. R = P \cup {n}
    BY <1>1, <1>2, <1>3, <1>4, <1>6
  <2>2. Cardinality(R) = Cardinality(P) + 1
    BY <1>5, <2>1, FS_AddElement
  <2> QED BY <1>6, <2>2 DEF Waiting, Same
<1>7. CASE x # t
  <2>1. R = P
    BY <1>1, <1>2, <1>3, <1>4, <1>7
  <2>2. Waiting(Append(q, x), t) = Waiting(q, t)
    BY <2>1 DEF Waiting
  <2>3. Same(x, t) = 0 /\ Waiting(q, t) \in Nat
    BY <1>7, WaitingFacts DEF Same
  <2> QED BY <2>2, <2>3
<1> QED BY <1>6, <1>7

\* A receive takes away the head, and no other.
LEMMA WaitingTail ==
    ASSUME NEW q \in Seq(Tasks), q # <<>>, NEW t
    PROVE  Waiting(q, t) = Waiting(Tail(q), t) + Same(Head(q), t)
<1> DEFINE P == {i \in 1..Len(Tail(q)) : Tail(q)[i] = t}
           R == {i \in 1..Len(q) : q[i] = t}
           shift == [i \in P |-> i + 1]
<1>1. /\ Len(q) \in Nat \ {0} /\ Tail(q) \in Seq(Tasks) /\ Len(Tail(q)) = Len(q) - 1
      /\ Head(q) = q[1]
  OBVIOUS
<1>2. \A i \in 1..Len(Tail(q)) : Tail(q)[i] = q[i + 1]
  OBVIOUS
<1>3. IsFiniteSet(P) /\ IsFiniteSet(R) /\ Cardinality(P) \in Nat /\ Cardinality(R) \in Nat
  BY <1>1, WaitingFacts DEF Waiting
<1>4. shift \in Bijection(P, R \ {1})
  <2>1. \A i \in P : i + 1 \in R \ {1}
    BY <1>1, <1>2
  <2>2. shift \in [P -> R \ {1}]
    BY <2>1
  <2>3. \A i, j \in P : shift[i] = shift[j] => i = j
    BY <1>1
  <2>4. \A j \in R \ {1} : j - 1 \in P /\ shift[j - 1] = j
    BY <1>1, <1>2
  <2> QED BY <2>2, <2>3, <2>4 DEF Bijection, Injection, Surjection, IsInjective
<1>5. Cardinality(R \ {1}) = Cardinality(P)
  BY <1>3, <1>4, FS_Bijection, ZenonT(30) DEF ExistsBijection
<1>6. Cardinality(R \ {1}) = IF 1 \in R THEN Cardinality(R) - 1 ELSE Cardinality(R)
  BY <1>3, FS_RemoveElement
<1>7. 1 \in R <=> Head(q) = t
  BY <1>1
<1>8. Waiting(q, t) = Cardinality(R) /\ Waiting(Tail(q), t) = Cardinality(P)
  BY DEF Waiting
<1> HIDE DEF P, R
<1> QED BY <1>3, <1>5, <1>6, <1>7, <1>8 DEF Same

\* What is found in a channel after a send or a receive.
LEMMA QueueMoves ==
    ASSUME NEW q \in Seq(Tasks), NEW t \in Tasks
    PROVE  /\ \A x \in Tasks : InQueue(t, Append(q, x)) <=> InQueue(t, q) \/ t = x
           /\ q # <<>> /\ InQueue(t, q) => t = Head(q) \/ InQueue(t, Tail(q))
           /\ q # <<>> /\ InQueue(t, Tail(q)) => InQueue(t, q)
<1>1. ASSUME NEW x \in Tasks PROVE InQueue(t, Append(q, x)) <=> InQueue(t, q) \/ t = x
  <2>1. \A i \in 1..Len(q) : i \in 1..Len(Append(q, x)) /\ Append(q, x)[i] = q[i]
    OBVIOUS
  <2>2. Len(q) + 1 \in 1..Len(Append(q, x)) /\ Append(q, x)[Len(q) + 1] = x
    OBVIOUS
  <2>3. \A i \in 1..Len(Append(q, x)) : i \in 1..Len(q) \/ i = Len(q) + 1
    OBVIOUS
  <2> QED BY <2>1, <2>2, <2>3 DEF InQueue
<1>2. ASSUME q # <<>>, InQueue(t, q) PROVE t = Head(q) \/ InQueue(t, Tail(q))
  <2>1. PICK i \in 1..Len(q) : q[i] = t
    BY <1>2 DEF InQueue
  <2>2. CASE i = 1
    BY <1>2, <2>1, <2>2
  <2>3. CASE i # 1
    <3>1. i - 1 \in 1..Len(Tail(q)) /\ Tail(q)[i - 1] = t
      BY <1>2, <2>1, <2>3
    <3> QED BY <3>1 DEF InQueue
  <2> QED BY <2>2, <2>3
<1>3. ASSUME q # <<>>, InQueue(t, Tail(q)) PROVE InQueue(t, q)
  <2>1. PICK i \in 1..Len(Tail(q)) : Tail(q)[i] = t
    BY <1>3 DEF InQueue
  <2>2. i + 1 \in 1..Len(q) /\ q[i + 1] = t
    BY <1>3, <2>1
  <2> QED BY <2>2 DEF InQueue
<1> QED BY <1>1, <1>2, <1>3

\* The workers that hold a task are counted by a number.
LEMMA HeldFacts ==
    ASSUME NEW f, NEW t
    PROVE  /\ IsFiniteSet({w \in Workers : f[w].task = t}) /\ Held(f, t) \in Nat
           /\ (\E w \in Workers : f[w].task = t) => Held(f, t) >= 1
<1> DEFINE P == {w \in Workers : f[w].task = t}
<1>1. P \in SUBSET Workers /\ IsFiniteSet(Workers)
  BY TaskQueueAssumption DEF TaskQueueAssumption
<1>2. IsFiniteSet(P)
  BY <1>1, FS_Subset
<1>3. Cardinality(P) \in Nat /\ (Cardinality(P) = 0 <=> P = {})
  BY <1>2, FS_CardinalityType, FS_EmptySet
<1> QED BY <1>2, <1>3 DEF Held

\* A worker that changes hands gives one task away and takes another.
LEMMA HeldStep ==
    ASSUME TypeOK, NEW w \in Workers, NEW r,
           worker' = [worker EXCEPT ![w] = r], NEW t
    PROVE  Held(worker', t) + Same(worker[w].task, t) = Held(worker, t) + Same(r.task, t)
<1> DEFINE P == {v \in Workers : worker[v].task = t}
           R == {v \in Workers : worker'[v].task = t}
<1>1. worker'[w] = r /\ \A v \in Workers : v # w => worker'[v] = worker[v]
  BY DEF TypeOK
<1>2. IsFiniteSet(P) /\ Cardinality(P) \in Nat
  BY HeldFacts DEF Held
<1>3. CASE r.task = t
  <2>1. R = P \cup {w}
    BY <1>1, <1>3
  <2>2. Cardinality(R) = IF w \in P THEN Cardinality(P) ELSE Cardinality(P) + 1
    BY <1>2, <2>1, FS_AddElement
  <2>3. w \in P <=> worker[w].task = t
    OBVIOUS
  <2> QED BY <1>2, <1>3, <2>2, <2>3 DEF Held, Same
<1>4. CASE r.task # t
  <2>1. R = P \ {w}
    BY <1>1, <1>4
  <2>2. Cardinality(R) = IF w \in P THEN Cardinality(P) - 1 ELSE Cardinality(P)
    BY <1>2, <2>1, FS_RemoveElement
  <2>3. w \in P <=> worker[w].task = t
    OBVIOUS
  <2> QED BY <1>2, <1>4, <2>2, <2>3 DEF Held, Same
<1> QED BY <1>3, <1>4
-----------------------------------------------------------------------------
(* Types and hands                                                         *)

\* The types of what a receive or a send leaves in a channel.
LEMMA QueueTypes ==
    ASSUME NEW q \in Seq(Tasks), Len(q) <= Buffer
    PROVE  /\ \A x \in Tasks : HasRoom(q) => Append(q, x) \in Seq(Tasks) /\ Len(Append(q, x)) <= Buffer
           /\ q # <<>> => Head(q) \in Tasks /\ Tail(q) \in Seq(Tasks) /\ Len(Tail(q)) <= Buffer
BY TaskQueueAssumption DEF TaskQueueAssumption, HasRoom

\* A worker in its handler has a task.
LEMMA HandlerHasTask ==
    ASSUME TypeOK, HandsFull, NEW w \in Workers, worker[w].pc = "handler"
    PROVE  worker[w].task \in Tasks
BY DEF TypeOK, HandsFull, PcTask

\* What a worker does keeps types and hands.
LEMMA WorkTypes ==
    ASSUME TypeOK, HandsFull, NEW w \in Workers, Work(w)
    PROVE  TypeOK' /\ HandsFull'
<1> DEFINE R == PcTask({"recv", "handler", "exited"})
<1>1. Free \in R /\ Exited \in R
  BY DEF Free, Exited, PcTask
<1>2. ASSUME NEW r \in R, worker' = [worker EXCEPT ![w] = r], dispatcher' = dispatcher,
             r.task = NoTask <=> r.pc # "handler"
      PROVE  HandsFull' /\ worker' \in [Workers -> R]
  BY <1>2 DEF HandsFull, TypeOK
<1>3. CASE Receive(w)
  <2>1. Head(tasks) \in Tasks /\ Tail(tasks) \in Seq(Tasks) /\ Len(Tail(tasks)) <= Buffer
    BY <1>3, QueueTypes DEF Receive, TypeOK
  <2>2. /\ [pc |-> "handler", task |-> Head(tasks)] \in R
        /\ Head(tasks) # NoTask
    BY <2>1, TaskQueueAssumption DEF TaskQueueAssumption, PcTask
  <2>3. HandsFull' /\ worker' \in [Workers -> R]
    BY <1>2, <1>3, <2>2 DEF Receive
  <2> QED BY <1>3, <2>1, <2>3 DEF Receive, TypeOK, callers, counts, ends
<1>4. CASE WorkerExits(w)
  <2>1. HandsFull' /\ worker' \in [Workers -> R]
    BY <1>1, <1>2, <1>4 DEF WorkerExits, Exited
  <2> QED BY <1>4, <2>1 DEF WorkerExits, TypeOK, channels, callers, counts, ends
<1>5. CASE HandlerSucceeds(w) \/ HandlerFailsRetry(w) \/ HandlerFailsDead(w)
  <2> DEFINE x == worker[w].task
  <2>1. x \in Tasks
    BY <1>5, HandlerHasTask DEF HandlerSucceeds, HandlerFailsRetry, HandlerFailsDead
  <2>2. HandsFull' /\ worker' \in [Workers -> R]
    BY <1>1, <1>2, <1>5 DEF HandlerSucceeds, HandlerFailsRetry, HandlerFailsDead, Free
  <2>3. attempts' \in [Tasks -> Nat]
    <3>1. CountAttempt(x)
      BY <1>5 DEF HandlerSucceeds, HandlerFailsRetry, HandlerFailsDead
    <3> QED BY <2>1, <3>1 DEF CountAttempt, Tried, TypeOK
  <2>4. HasRoom(deadQ) => Append(deadQ, x) \in Seq(Tasks) /\ Len(Append(deadQ, x)) <= Buffer
    BY <2>1, QueueTypes DEF TypeOK
  <2>5. CASE HandlerSucceeds(w)
    BY <2>1, <2>2, <2>3, <2>5 DEF HandlerSucceeds, TypeOK, channels, callers
  <2>6. CASE HandlerFailsRetry(w)
    BY <2>1, <2>2, <2>3, <2>6 DEF HandlerFailsRetry, TypeOK, channels, callers, ends
  <2>7. CASE HandlerFailsDead(w)
    BY <2>1, <2>2, <2>3, <2>4, <2>7 DEF HandlerFailsDead, TypeOK, callers
  <2> QED BY <1>5, <2>5, <2>6, <2>7
<1> QED BY <1>3, <1>4, <1>5 DEF Work

\* So does what the publishers, the timers and the reader of the dead letters do.
LEMMA TaskTypes ==
    ASSUME TypeOK, HandsFull, ReadDeadLetter \/ \E t \in Tasks : Publish(t) \/ TimerStep(t)
    PROVE  TypeOK' /\ HandsFull'
<1>1. \A q \in {tasks, retryQ, deadQ} : q \in Seq(Tasks) /\ Len(q) <= Buffer
  BY DEF TypeOK
<1>2. \A q \in {tasks, retryQ, deadQ}, x \in Tasks :
          HasRoom(q) => Append(q, x) \in Seq(Tasks) /\ Len(Append(q, x)) <= Buffer
  BY <1>1, QueueTypes
<1>3. HandsFull'
  BY DEF ReadDeadLetter, Publish, PublishCheck, PublishSend, TimerStep, TimerFires, TimerTriesTasks,
         TimerSendsDead, HandsFull, routines
<1>4. ASSUME NEW t \in Tasks, Publish(t) PROVE TypeOK'
  BY <1>1, <1>2, <1>4 DEF Publish, PublishCheck, PublishSend, TypeOK, channels, routines, counts, ends
<1>5. ASSUME NEW t \in Tasks, TimerStep(t) PROVE TypeOK'
  BY <1>1, <1>2, <1>5, ZenonT(30) DEF TimerStep, TimerFires, TimerTriesTasks, TimerSendsDead, TypeOK,
                          callers, counts, ends
<1>6. ASSUME ReadDeadLetter PROVE TypeOK'
  <2>1. Head(deadQ) \in Tasks /\ Tail(deadQ) \in Seq(Tasks) /\ Len(Tail(deadQ)) <= Buffer
    BY <1>1, <1>6, QueueTypes DEF ReadDeadLetter
  <2> QED BY <1>6, <2>1 DEF ReadDeadLetter, TypeOK, callers, routines, counts
<1> QED BY <1>3, <1>4, <1>5, <1>6

\* And what retryDispatcher does.
LEMMA DispatcherTypes ==
    ASSUME TypeOK, HandsFull, DispatcherStep
    PROVE  TypeOK' /\ HandsFull'
<1> DEFINE R == PcTask({"recv", "tasks", "retry", "dead", "exited"})
<1>1. \A q \in {tasks, retryQ, deadQ} : q \in Seq(Tasks) /\ Len(q) <= Buffer
  BY DEF TypeOK
<1>2. \A q \in {tasks, retryQ, deadQ}, x \in Tasks :
          HasRoom(q) => Append(q, x) \in Seq(Tasks) /\ Len(Append(q, x)) <= Buffer
  BY <1>1, QueueTypes
<1>3. dispatcher \in R /\ Free \in R /\ Free.task = NoTask /\ Free.pc = "recv"
  BY DEF TypeOK, Free, PcTask
<1>4. CASE Dispatch
  <2>1. Head(retryQ) \in Tasks /\ Tail(retryQ) \in Seq(Tasks) /\ Len(Tail(retryQ)) <= Buffer
    BY <1>1, <1>4, QueueTypes DEF Dispatch
  <2>2. dispatcher' \in R /\ dispatcher'.pc = "tasks" /\ dispatcher'.task \in Tasks
    BY <1>4, <2>1 DEF Dispatch, PcTask
  <2>3. HandsFull'
    BY <1>4, <2>2, TaskQueueAssumption DEF TaskQueueAssumption, Dispatch, HandsFull
  <2> QED BY <1>4, <2>1, <2>2, <2>3 DEF Dispatch, TypeOK, callers, counts, ends
<1>5. CASE DispatchTasks \/ DispatchRetry \/ DispatchDead
  <2>1. dispatcher.task \in Tasks
    BY <1>3, <1>5 DEF DispatchTasks, DispatchRetry, DispatchDead, HandsFull, PcTask
  <2>2. \/ dispatcher' = Free
        \/ dispatcher' = [dispatcher EXCEPT !.pc = "retry"]
        \/ dispatcher' = [dispatcher EXCEPT !.pc = "dead"]
    BY <1>5 DEF DispatchTasks, DispatchRetry, DispatchDead
  <2>3. /\ dispatcher' \in R
        /\ dispatcher'.task = NoTask <=> dispatcher'.pc \in {"recv", "exited"}
    BY <1>3, <2>1, <2>2, TaskQueueAssumption DEF TaskQueueAssumption, PcTask
  <2>4. HandsFull'
    BY <1>5, <2>3 DEF DispatchTasks, DispatchRetry, DispatchDead, HandsFull
  <2>5. CASE DispatchTasks
    BY <1>1, <1>2, <2>1, <2>3, <2>4, <2>5 DEF DispatchTasks, TypeOK, callers, counts, ends
  <2>6. CASE DispatchRetry
    BY <1>1, <1>2, <2>1, <2>3, <2>4, <2>6 DEF DispatchRetry, TypeOK, callers, counts, ends
  <2>7. CASE DispatchDead
    BY <1>1, <1>2, <2>1, <2>3, <2>4, <2>7 DEF DispatchDead, TypeOK, callers, counts
  <2> QED BY <1>5, <2>5, <2>6, <2>7
<1> QED BY <1>4, <1>5 DEF DispatcherStep

Closing == CloseFlag \/ CloseTasks \/ SendOnClosed \/ CloseReturns \/ DispatcherExits

\* Closing moves no task.
LEMMA ClosingKeeps ==
    ASSUME TypeOK, HandsFull, Closing \/ UNCHANGED vars
    PROVE  /\ TypeOK' /\ HandsFull'
           /\ UNCHANGED <<channels, publisher, worker, timer, counts, ends>>
           /\ dispatcher'.task = dispatcher.task
<1>1. Exited \in PcTask({"recv", "tasks", "retry", "dead", "exited"}) /\ Exited.task = NoTask
      /\ Exited.pc = "exited" /\ Free.task = NoTask
  BY DEF Exited, Free, PcTask
<1> QED BY <1>1 DEF Closing, CloseFlag, CloseTasks, SendOnClosed, CloseReturns, DispatcherExits, vars,
                    channels, callers, routines, counts, ends, TypeOK, HandsFull
-----------------------------------------------------------------------------
(* Every step moves a task from one place to another                       *)

Elsewhere(t) ==
    (IF timer[t] # "off" THEN 1 ELSE 0) + (IF t \in settled THEN 1 ELSE 0)
    + (IF t \in dropped THEN 1 ELSE 0)

\* What Same counts is a number.
LEMMA SameFacts == \A a, b : Same(a, b) \in {0, 1}
BY DEF Same

\* The places, counted.
LEMMA PlacesFacts ==
    ASSUME TypeOK, NEW t \in Tasks
    PROVE  /\ Places(t) = Waiting(tasks, t) + Waiting(retryQ, t) + Waiting(deadQ, t) + Held(worker, t)
                          + Same(dispatcher.task, t) + Elsewhere(t)
           /\ Waiting(tasks, t) \in Nat /\ Waiting(retryQ, t) \in Nat /\ Waiting(deadQ, t) \in Nat
           /\ Held(worker, t) \in Nat /\ Elsewhere(t) \in Nat /\ Same(dispatcher.task, t) \in Nat
<1>1. \A q \in {tasks, retryQ, deadQ} : Waiting(q, t) \in Nat
  BY WaitingFacts DEF TypeOK
<1>2. Held(worker, t) \in Nat
  BY HeldFacts
<1> QED BY <1>1, <1>2 DEF Places, Waiting, Held, Same, Elsewhere

\* The same in the state after a step.
LEMMA PlacesAfter ==
    ASSUME TypeOK', NEW t \in Tasks
    PROVE  /\ Places(t)' = Waiting(tasks', t) + Waiting(retryQ', t) + Waiting(deadQ', t) + Held(worker', t)
                           + Same(dispatcher'.task, t) + Elsewhere(t)'
           /\ Waiting(tasks', t) \in Nat /\ Waiting(retryQ', t) \in Nat /\ Waiting(deadQ', t) \in Nat
           /\ Held(worker', t) \in Nat /\ Elsewhere(t)' \in Nat
<1>1. \A q \in {tasks', retryQ', deadQ'} : Waiting(q, t) \in Nat
  BY WaitingFacts DEF TypeOK
<1>2. Held(worker', t) \in Nat
  BY HeldFacts
<1> QED BY <1>1, <1>2, SMTT(30) DEF Places, Waiting, Held, Same, Elsewhere

\* A task that is in one place is in no other.
LEMMA OnePlace ==
    ASSUME TypeOK, TaskInOnePlace, NEW t \in Tasks
    PROVE  /\ Held(worker, t) >= 1 => timer[t] = "off" /\ t \notin settled \cup dropped /\ ~InQueue(t, deadQ)
           /\ timer[t] # "off" => t \notin settled \cup dropped /\ ~InQueue(t, deadQ)
           /\ dispatcher.task = t => t \notin settled \cup dropped /\ ~InQueue(t, deadQ)
           /\ InQueue(t, deadQ) => t \notin settled
           /\ publisher[t] # "sent" => Places(t) = 0
<1>1. InQueue(t, deadQ) => Waiting(deadQ, t) >= 1
  BY WaitingFacts DEF TypeOK
<1>2. Places(t) = IF publisher[t] = "sent" THEN 1 ELSE 0
  BY DEF TaskInOnePlace
<1> QED BY <1>1, <1>2, PlacesFacts DEF Same, Elsewhere

\* A worker takes a task from tasks, or hands it on.
LEMMA WorkMoves ==
    ASSUME IInv, TypeOK', NEW w \in Workers, Work(w), NEW t \in Tasks
    PROVE  Places(t)' = Places(t) /\ publisher' = publisher
<1> DEFINE x == worker[w].task
<1>1. TypeOK /\ HandsFull /\ TaskInOnePlace
  BY DEF IInv
<1>2. Free.task = NoTask /\ Exited.task = NoTask /\ t # NoTask
  BY TaskQueueAssumption DEF TaskQueueAssumption, Free, Exited
<1>3. dispatcher' = dispatcher /\ publisher' = publisher
  BY DEF Work, Receive, WorkerExits, HandlerSucceeds, HandlerFailsRetry, HandlerFailsDead, callers
<1>4. /\ Places(t)' = Waiting(tasks', t) + Waiting(retryQ', t) + Waiting(deadQ', t) + Held(worker', t)
                      + Same(dispatcher.task, t) + Elsewhere(t)'
      /\ Waiting(tasks', t) \in Nat /\ Waiting(retryQ', t) \in Nat /\ Waiting(deadQ', t) \in Nat
      /\ Held(worker', t) \in Nat /\ Elsewhere(t)' \in Nat /\ Same(dispatcher.task, t) \in Nat
  BY <1>3, PlacesAfter, SameFacts
<1>5. /\ Places(t) = Waiting(tasks, t) + Waiting(retryQ, t) + Waiting(deadQ, t) + Held(worker, t)
                     + Same(dispatcher.task, t) + Elsewhere(t)
      /\ Waiting(tasks, t) \in Nat /\ Waiting(retryQ, t) \in Nat /\ Waiting(deadQ, t) \in Nat
      /\ Held(worker, t) \in Nat /\ Elsewhere(t) \in Nat /\ Same(dispatcher.task, t) \in Nat
  BY <1>1, PlacesFacts
<1>6. CASE Receive(w)
  <2> DEFINE r == [pc |-> "handler", task |-> Head(tasks)]
  <2>1. Held(worker', t) + Same(worker[w].task, t) = Held(worker, t) + Same(r.task, t)
    BY <1>1, <1>6, HeldStep DEF Receive
  <2>2. Waiting(tasks, t) = Waiting(tasks', t) + Same(Head(tasks), t)
    BY <1>1, <1>6, WaitingTail DEF Receive, TypeOK
  <2>3. Same(worker[w].task, t) = 0
    BY <1>1, <1>2, <1>6 DEF Receive, HandsFull, Same
  <2>4. UNCHANGED <<retryQ, deadQ>> /\ Elsewhere(t)' = Elsewhere(t)
    BY <1>6 DEF Receive, Elsewhere, ends
  <2> QED BY <1>3, <1>4, <1>5, <2>1, <2>2, <2>3, <2>4, SameFacts
<1>7. CASE WorkerExits(w)
  <2>1. Held(worker', t) + Same(worker[w].task, t) = Held(worker, t) + Same(Exited.task, t)
    BY <1>1, <1>7, HeldStep DEF WorkerExits
  <2>2. Same(worker[w].task, t) = 0 /\ Same(Exited.task, t) = 0
    BY <1>1, <1>2, <1>7 DEF WorkerExits, HandsFull, Same
  <2>3. UNCHANGED <<tasks, retryQ, deadQ>> /\ Elsewhere(t)' = Elsewhere(t)
    BY <1>7 DEF WorkerExits, Elsewhere, channels, ends
  <2> QED BY <1>3, <1>4, <1>5, <2>1, <2>2, <2>3, SameFacts
<1>8. CASE HandlerSucceeds(w) \/ HandlerFailsRetry(w) \/ HandlerFailsDead(w)
  <2>1. Held(worker', t) + Same(x, t) = Held(worker, t) + Same(Free.task, t)
    BY <1>1, <1>8, HeldStep DEF HandlerSucceeds, HandlerFailsRetry, HandlerFailsDead
  <2>2. Same(Free.task, t) = 0
    BY <1>2 DEF Same
  <2>3. UNCHANGED <<tasks, retryQ>> /\ x \in Tasks
    BY <1>1, <1>8, HandlerHasTask DEF HandlerSucceeds, HandlerFailsRetry, HandlerFailsDead, channels
  <2>4. Held(worker, x) >= 1
    BY HeldFacts
  <2>5. timer[x] = "off" /\ x \notin settled \cup dropped
    BY <1>1, <2>3, <2>4, OnePlace
  <2>6. Waiting(deadQ', t) + Elsewhere(t)' = Waiting(deadQ, t) + Elsewhere(t) + Same(x, t)
    <3>1. CASE HandlerSucceeds(w)
      <4>1. deadQ' = deadQ /\ settled' = settled \cup {x} /\ UNCHANGED <<timer, dropped>>
        BY <3>1 DEF HandlerSucceeds, channels
      <4>2. Elsewhere(t)' = Elsewhere(t) + Same(x, t)
        BY <2>5, <4>1 DEF Elsewhere, Same
      <4> QED BY <1>4, <1>5, <4>1, <4>2, SameFacts
    <3>2. CASE HandlerFailsRetry(w)
      <4>1. /\ deadQ' = deadQ /\ timer' = [timer EXCEPT ![x] = "pending"]
            /\ UNCHANGED <<settled, dropped>>
        BY <3>2 DEF HandlerFailsRetry, channels, ends
      <4>2. Elsewhere(t)' = Elsewhere(t) + Same(x, t)
        BY <1>1, <2>3, <2>5, <4>1 DEF Elsewhere, Same, TypeOK
      <4> QED BY <1>4, <1>5, <4>1, <4>2, SameFacts
    <3>3. CASE HandlerFailsDead(w) /\ HasRoom(deadQ)
      <4>1. deadQ' = Append(deadQ, x) /\ UNCHANGED <<settled, dropped, timer>>
        BY <3>3 DEF HandlerFailsDead
      <4>2. Waiting(deadQ', t) = Waiting(deadQ, t) + Same(x, t)
        BY <1>1, <2>3, <4>1, WaitingAppend DEF TypeOK
      <4>3. Elsewhere(t)' = Elsewhere(t)
        BY <4>1 DEF Elsewhere
      <4> QED BY <1>4, <1>5, <4>2, <4>3, SameFacts
    <3>4. CASE HandlerFailsDead(w) /\ ~HasRoom(deadQ)
      <4>1. dropped' = dropped \cup {x} /\ UNCHANGED <<settled, deadQ, timer>>
        BY <3>4 DEF HandlerFailsDead
      <4>2. Elsewhere(t)' = Elsewhere(t) + Same(x, t)
        BY <2>5, <4>1 DEF Elsewhere, Same
      <4> QED BY <1>4, <1>5, <4>1, <4>2, SameFacts
    <3> QED BY <1>8, <3>1, <3>2, <3>3, <3>4
  <2> QED BY <1>3, <1>4, <1>5, <2>1, <2>2, <2>3, <2>6, SameFacts
<1> QED BY <1>6, <1>7, <1>8 DEF Work

\* A send and a receive, counted.
LEMMA QueueCounts ==
    ASSUME NEW q \in Seq(Tasks), NEW t \in Tasks
    PROVE  /\ \A x \in Tasks : Waiting(Append(q, x), t) = Waiting(q, t) + Same(x, t)
           /\ q # <<>> => Waiting(q, t) = Waiting(Tail(q), t) + Same(Head(q), t)
                          /\ Waiting(Tail(q), t) \in Nat
<1>1. q # <<>> => Tail(q) \in Seq(Tasks)
  OBVIOUS
<1> QED BY <1>1, WaitingAppend, WaitingTail, WaitingFacts

\* One send adds one task to the three channels.
LEMMA OneSend ==
    ASSUME TypeOK, NEW s \in Tasks, NEW t \in Tasks,
           \/ tasks' = Append(tasks, s) /\ UNCHANGED <<retryQ, deadQ>>
           \/ retryQ' = Append(retryQ, s) /\ UNCHANGED <<tasks, deadQ>>
           \/ deadQ' = Append(deadQ, s) /\ UNCHANGED <<tasks, retryQ>>
    PROVE  Waiting(tasks', t) + Waiting(retryQ', t) + Waiting(deadQ', t)
           = Waiting(tasks, t) + Waiting(retryQ, t) + Waiting(deadQ, t) + Same(s, t)
<1> DEFINE Sent(q) == Waiting(q, t) + Same(s, t)
<1>1. \A q \in {tasks, retryQ, deadQ} : Waiting(q, t) \in Nat /\ Waiting(Append(q, s), t) = Sent(q)
  BY QueueCounts, WaitingFacts DEF TypeOK
<1>2. \/ <<Waiting(tasks', t), Waiting(retryQ', t), Waiting(deadQ', t)>>
            = <<Sent(tasks), Waiting(retryQ, t), Waiting(deadQ, t)>>
      \/ <<Waiting(tasks', t), Waiting(retryQ', t), Waiting(deadQ', t)>>
            = <<Waiting(tasks, t), Sent(retryQ), Waiting(deadQ, t)>>
      \/ <<Waiting(tasks', t), Waiting(retryQ', t), Waiting(deadQ', t)>>
            = <<Waiting(tasks, t), Waiting(retryQ, t), Sent(deadQ)>>
  BY <1>1
<1>3. Same(s, t) \in Nat
  BY SameFacts
<1> QED BY <1>1, <1>2, <1>3

\* A task is sent once, moves on with its timer and leaves by the dead letters.
LEMMA TaskMoves ==
    ASSUME IInv, TypeOK', ReadDeadLetter \/ \E s \in Tasks : Publish(s) \/ TimerStep(s),
           NEW t \in Tasks
    PROVE  Places(t)' = IF publisher'[t] = "sent" THEN 1 ELSE 0
<1>1. TypeOK /\ HandsFull /\ TaskInOnePlace
  BY DEF IInv
<1>2. worker' = worker /\ dispatcher' = dispatcher
  BY DEF ReadDeadLetter, Publish, PublishCheck, PublishSend, TimerStep, TimerFires, TimerTriesTasks,
         TimerSendsDead, routines
<1>3. /\ Places(t)' = Waiting(tasks', t) + Waiting(retryQ', t) + Waiting(deadQ', t) + Held(worker, t)
                      + Same(dispatcher.task, t) + Elsewhere(t)'
      /\ Waiting(tasks', t) \in Nat /\ Waiting(retryQ', t) \in Nat /\ Waiting(deadQ', t) \in Nat
      /\ Elsewhere(t)' \in Nat
  BY <1>2, PlacesAfter
<1>4. /\ Places(t) = Waiting(tasks, t) + Waiting(retryQ, t) + Waiting(deadQ, t) + Held(worker, t)
                     + Same(dispatcher.task, t) + Elsewhere(t)
      /\ Waiting(tasks, t) \in Nat /\ Waiting(retryQ, t) \in Nat /\ Waiting(deadQ, t) \in Nat
      /\ Held(worker, t) \in Nat /\ Elsewhere(t) \in Nat
  BY <1>1, PlacesFacts
<1>5. Places(t) = IF publisher[t] = "sent" THEN 1 ELSE 0
  BY <1>1 DEF TaskInOnePlace
<1>6. \A q \in {tasks, retryQ, deadQ} :
          /\ \A x \in Tasks : Waiting(Append(q, x), t) = Waiting(q, t) + Same(x, t)
          /\ q # <<>> => Waiting(q, t) = Waiting(Tail(q), t) + Same(Head(q), t)
                         /\ Waiting(Tail(q), t) \in Nat
  BY <1>1, QueueCounts DEF TypeOK
<1>7. ASSUME NEW s \in Tasks, PublishCheck(s)
      PROVE  Places(t)' = IF publisher'[t] = "sent" THEN 1 ELSE 0
  <2>1. UNCHANGED <<tasks, retryQ, deadQ, timer, settled, dropped>>
    BY <1>7 DEF PublishCheck, channels, routines, ends
  <2>2. Places(t)' = Places(t)
    BY <1>3, <1>4, <2>1 DEF Elsewhere
  <2>3. publisher'[t] = "sent" <=> publisher[t] = "sent"
    BY <1>1, <1>7 DEF PublishCheck, TypeOK
  <2> QED BY <1>5, <2>2, <2>3
<1>8. ASSUME NEW s \in Tasks, PublishSend(s)
      PROVE  Places(t)' = IF publisher'[t] = "sent" THEN 1 ELSE 0
  <2>1. UNCHANGED <<retryQ, deadQ, timer, settled, dropped>> /\ Elsewhere(t)' = Elsewhere(t)
    BY <1>8 DEF PublishSend, routines, ends, Elsewhere
  <2>2. CASE HasRoom(tasks)
    <3>1. tasks' = Append(tasks, s) /\ publisher' = [publisher EXCEPT ![s] = "sent"]
      BY <1>8, <2>2 DEF PublishSend
    <3>2. Waiting(tasks', t) = Waiting(tasks, t) + Same(s, t)
      BY <1>6, <3>1
    <3>3. Places(t)' = Places(t) + Same(s, t)
      BY <1>3, <1>4, <2>1, <3>2, SameFacts
    <3>4. publisher[s] # "sent"
      BY <1>8 DEF PublishSend
    <3>5. publisher'[t] = IF s = t THEN "sent" ELSE publisher[t]
      BY <1>1, <3>1 DEF TypeOK
    <3> QED BY <1>5, <3>3, <3>4, <3>5 DEF Same
  <2>3. CASE ~HasRoom(tasks)
    <3>1. tasks' = tasks /\ publisher' = [publisher EXCEPT ![s] = "refused"]
      BY <1>8, <2>3 DEF PublishSend
    <3>2. Places(t)' = Places(t)
      BY <1>3, <1>4, <2>1, <3>1
    <3>3. publisher'[t] = "sent" <=> publisher[t] = "sent"
      BY <1>1, <1>8, <3>1 DEF PublishSend, TypeOK
    <3> QED BY <1>5, <3>2, <3>3
  <2> QED BY <2>2, <2>3
<1>9. ASSUME NEW s \in Tasks, TimerStep(s) PROVE Places(t)' = Places(t)
  <2>1. UNCHANGED <<settled, dropped>> /\ timer[s] # "off"
    BY <1>9 DEF TimerStep, TimerFires, TimerTriesTasks, TimerSendsDead, ends
  <2>2. CASE \E pc \in {"tasks", "dead"} :
                timer' = [timer EXCEPT ![s] = pc] /\ UNCHANGED <<tasks, retryQ, deadQ>>
    <3>1. Elsewhere(t)' = Elsewhere(t)
      BY <1>1, <2>1, <2>2 DEF Elsewhere, TypeOK
    <3> QED BY <1>3, <1>4, <2>2, <3>1
  <2>3. CASE /\ timer' = [timer EXCEPT ![s] = "off"]
             /\ \/ tasks' = Append(tasks, s) /\ UNCHANGED <<retryQ, deadQ>>
                \/ retryQ' = Append(retryQ, s) /\ UNCHANGED <<tasks, deadQ>>
                \/ deadQ' = Append(deadQ, s) /\ UNCHANGED <<tasks, retryQ>>
    <3>1. Elsewhere(t)' + Same(s, t) = Elsewhere(t)
      BY <1>1, <2>1, <2>3, SMTT(30) DEF Elsewhere, TypeOK, Same
    <3>2. Waiting(tasks', t) + Waiting(retryQ', t) + Waiting(deadQ', t)
          = Waiting(tasks, t) + Waiting(retryQ, t) + Waiting(deadQ, t) + Same(s, t)
      BY <1>1, <2>3, OneSend
    <3> QED BY <1>3, <1>4, <3>1, <3>2, SameFacts
  <2> QED BY <1>9, <2>2, <2>3 DEF TimerStep, TimerFires, TimerTriesTasks, TimerSendsDead
<1>10. ASSUME ReadDeadLetter PROVE Places(t)' = Places(t) /\ publisher' = publisher
  <2>1. /\ deadQ # <<>> /\ deadQ' = Tail(deadQ) /\ settled' = settled \cup {Head(deadQ)}
        /\ UNCHANGED <<tasks, retryQ, timer, dropped, publisher>>
    BY <1>10 DEF ReadDeadLetter, routines, callers
  <2>2. Head(deadQ) \in Tasks /\ InQueue(Head(deadQ), deadQ)
    BY <1>1, <2>1 DEF TypeOK, InQueue
  <2>3. Head(deadQ) \notin settled
    BY <1>1, <2>2, OnePlace
  <2>4. Elsewhere(t)' = Elsewhere(t) + Same(Head(deadQ), t)
    BY <2>1, <2>3 DEF Elsewhere, Same
  <2>5. Waiting(deadQ, t) = Waiting(deadQ', t) + Same(Head(deadQ), t) /\ Waiting(deadQ', t) \in Nat
    BY <1>6, <2>1
  <2>6. Waiting(tasks', t) = Waiting(tasks, t) /\ Waiting(retryQ', t) = Waiting(retryQ, t)
    BY <2>1
  <2>7. Same(Head(deadQ), t) \in Nat /\ Same(dispatcher.task, t) \in Nat
    BY SameFacts
  <2>8. publisher' = publisher
    BY <2>1
  <2> QED BY <1>3, <1>4, <2>4, <2>5, <2>6, <2>7, <2>8
<1>11. ASSUME NEW s \in Tasks, TimerStep(s) PROVE publisher' = publisher
  BY <1>11 DEF TimerStep, TimerFires, TimerTriesTasks, TimerSendsDead, callers
<1> QED BY <1>5, <1>7, <1>8, <1>9, <1>10, <1>11 DEF Publish

\* retryDispatcher takes a task from retryQ, or passes it on.
LEMMA DispatcherMoves ==
    ASSUME IInv, TypeOK', DispatcherStep, NEW t \in Tasks
    PROVE  Places(t)' = Places(t) /\ publisher' = publisher
<1> DEFINE x == dispatcher.task
<1>1. TypeOK /\ HandsFull /\ TaskInOnePlace
  BY DEF IInv
<1>2. UNCHANGED <<worker, publisher, timer, settled>> /\ Free.task = NoTask /\ t # NoTask
  BY TaskQueueAssumption DEF TaskQueueAssumption, DispatcherStep, Dispatch, DispatchTasks,
     DispatchRetry, DispatchDead, callers, ends, Free
<1>3. /\ Places(t)' = Waiting(tasks', t) + Waiting(retryQ', t) + Waiting(deadQ', t) + Held(worker, t)
                      + Same(dispatcher'.task, t) + Elsewhere(t)'
      /\ Waiting(tasks', t) \in Nat /\ Waiting(retryQ', t) \in Nat /\ Waiting(deadQ', t) \in Nat
      /\ Elsewhere(t)' \in Nat
  BY <1>2, PlacesAfter
<1>4. /\ Places(t) = Waiting(tasks, t) + Waiting(retryQ, t) + Waiting(deadQ, t) + Held(worker, t)
                     + Same(dispatcher.task, t) + Elsewhere(t)
      /\ Waiting(tasks, t) \in Nat /\ Waiting(retryQ, t) \in Nat /\ Waiting(deadQ, t) \in Nat
      /\ Held(worker, t) \in Nat /\ Elsewhere(t) \in Nat
  BY <1>1, PlacesFacts
<1>5. \A q \in {tasks, retryQ, deadQ} :
          /\ \A y \in Tasks : Waiting(Append(q, y), t) = Waiting(q, t) + Same(y, t)
          /\ q # <<>> => Waiting(q, t) = Waiting(Tail(q), t) + Same(Head(q), t)
                         /\ Waiting(Tail(q), t) \in Nat
  BY <1>1, QueueCounts DEF TypeOK
<1>6. CASE Dispatch
  <2>1. /\ retryQ # <<>> /\ retryQ' = Tail(retryQ) /\ UNCHANGED <<tasks, deadQ, dropped>>
        /\ dispatcher'.task = Head(retryQ) /\ dispatcher.pc = "recv"
    BY <1>6 DEF Dispatch, ends
  <2>2. Same(dispatcher.task, t) = 0
    BY <1>1, <1>2, <2>1 DEF HandsFull, Same
  <2>3. Elsewhere(t)' = Elsewhere(t)
    BY <1>2, <2>1 DEF Elsewhere
  <2>4. /\ Waiting(retryQ, t) = Waiting(retryQ', t) + Same(dispatcher'.task, t)
        /\ Waiting(retryQ', t) \in Nat
    BY <1>5, <2>1
  <2>5. Waiting(tasks', t) = Waiting(tasks, t) /\ Waiting(deadQ', t) = Waiting(deadQ, t)
    BY <2>1
  <2>6. Same(dispatcher'.task, t) \in Nat
    BY SameFacts
  <2> QED BY <1>2, <1>3, <1>4, <2>2, <2>3, <2>4, <2>5, <2>6
<1>7. CASE /\ dispatcher'.task = x
           /\ UNCHANGED <<tasks, retryQ, deadQ, dropped>>
  <2>1. Elsewhere(t)' = Elsewhere(t)
    BY <1>2, <1>7 DEF Elsewhere
  <2> QED BY <1>2, <1>3, <1>4, <1>7, <2>1, SameFacts
<1>8. CASE /\ dispatcher' = Free /\ x \in Tasks
           /\ \/ tasks' = Append(tasks, x) /\ UNCHANGED <<retryQ, deadQ, dropped>>
              \/ retryQ' = Append(retryQ, x) /\ UNCHANGED <<tasks, deadQ, dropped>>
              \/ deadQ' = Append(deadQ, x) /\ UNCHANGED <<tasks, retryQ, dropped>>
  <2>1. Same(dispatcher'.task, t) = 0
    BY <1>2, <1>8 DEF Same
  <2>2. Elsewhere(t)' = Elsewhere(t)
    BY <1>2, <1>8 DEF Elsewhere
  <2>3. Waiting(tasks', t) + Waiting(retryQ', t) + Waiting(deadQ', t)
        = Waiting(tasks, t) + Waiting(retryQ, t) + Waiting(deadQ, t) + Same(x, t)
    BY <1>1, <1>8, OneSend
  <2> QED BY <1>2, <1>3, <1>4, <2>1, <2>2, <2>3, SameFacts
<1>9. CASE /\ dispatcher' = Free /\ x \in Tasks
           /\ dropped' = dropped \cup {x} /\ UNCHANGED <<tasks, retryQ, deadQ>>
  <2>1. Same(dispatcher'.task, t) = 0
    BY <1>2, <1>9 DEF Same
  <2>2. Elsewhere(t)' = Elsewhere(t) + Same(x, t)
    BY <1>1, <1>2, <1>9, OnePlace DEF Elsewhere, Same
  <2> QED BY <1>2, <1>3, <1>4, <1>9, <2>1, <2>2, SameFacts
<1>10. CASE DispatchTasks \/ DispatchRetry \/ DispatchDead
  <2>1. x \in Tasks
    BY <1>1, <1>10 DEF DispatchTasks, DispatchRetry, DispatchDead, HandsFull, TypeOK, PcTask
  <2>2. \A pc \in {"retry", "dead"} : [dispatcher EXCEPT !.pc = pc].task = x
    BY <1>1 DEF TypeOK, PcTask
  <2>3. CASE DispatchTasks
    BY <1>7, <1>8, <2>1, <2>2, <2>3 DEF DispatchTasks, ends
  <2>4. CASE DispatchRetry
    BY <1>7, <1>8, <2>1, <2>2, <2>4 DEF DispatchRetry, ends
  <2>5. CASE DispatchDead
    BY <1>8, <1>9, <2>1, <2>5 DEF DispatchDead
  <2> QED BY <1>10, <2>3, <2>4, <2>5
<1> QED BY <1>6, <1>10 DEF DispatcherStep
-----------------------------------------------------------------------------
(* Acknowledgements and attempts                                           *)

\* A task in a handler is not over: it is not acknowledged twice, and has a
\* try left.
LEMMA HandledIsOpen ==
    ASSUME IInv, NEW w \in Workers, worker[w].pc = "handler"
    PROVE  /\ worker[w].task \in Tasks \ acked
           /\ worker[w].task \notin dropped /\ ~InQueue(worker[w].task, deadQ)
           /\ ~Endless(worker[w].task) => attempts[worker[w].task] <= MaxRetry[worker[w].task]
<1> DEFINE x == worker[w].task
<1>1. x \in Tasks /\ Held(worker, x) >= 1
  BY HandlerHasTask, HeldFacts DEF IInv
<1>2. x \notin settled \cup dropped /\ ~InQueue(x, deadQ)
  BY <1>1, OnePlace DEF IInv
<1> QED BY <1>1, <1>2 DEF IInv, Ends, AckedIsOver, TriesLeft

\* The count after a try: one more where there is a limit.
LEMMA TriedFacts ==
    ASSUME IInv, NEW x \in Tasks, CountAttempt(x)
    PROVE  /\ \A t \in Tasks : t # x => attempts'[t] = attempts[t]
           /\ ~Endless(x) => attempts'[x] = attempts[x] + 1
           /\ attempts \in [Tasks -> Nat] /\ MaxRetry \in [Tasks -> Int]
BY TaskQueueAssumption DEF TaskQueueAssumption, IInv, TypeOK, CountAttempt, Tried

\* What is over stays over, and counts its attempts, when a handler ends.
LEMMA WorkEnds ==
    ASSUME IInv, NEW w \in Workers, Work(w)
    PROVE  Ends'
<1> DEFINE x == worker[w].task
<1>1. deadQ \in Seq(Tasks) /\ acked \subseteq Tasks /\ Ends
  BY DEF IInv, TypeOK
<1>2. CASE Receive(w) \/ WorkerExits(w)
  <2>1. UNCHANGED <<attempts, acked, settled, dropped, deadQ>>
    BY <1>2 DEF Receive, WorkerExits, channels, counts, ends
  <2> QED BY <1>1, <2>1 DEF Ends, AckedIsOver, AttemptsBounded, DeadAfterAllTries, TriesLeft, InQueue
<1>3. CASE HandlerSucceeds(w) \/ HandlerFailsRetry(w) \/ HandlerFailsDead(w)
  <2>1. /\ x \in Tasks \ acked /\ x \notin dropped /\ ~InQueue(x, deadQ)
        /\ ~Endless(x) => attempts[x] <= MaxRetry[x]
    BY <1>3, HandledIsOpen DEF HandlerSucceeds, HandlerFailsRetry, HandlerFailsDead
  <2>2. CountAttempt(x)
    BY <1>3 DEF HandlerSucceeds, HandlerFailsRetry, HandlerFailsDead
  <2>3. /\ \A t \in Tasks : t # x => attempts'[t] = attempts[t]
        /\ ~Endless(x) => attempts'[x] = attempts[x] + 1
        /\ attempts \in [Tasks -> Nat] /\ MaxRetry \in [Tasks -> Int]
    BY <2>1, <2>2, TriedFacts
  <2>4. \/ acked' = acked \cup {x} /\ settled' = settled \cup {x} /\ UNCHANGED <<deadQ, dropped>>
        \/ UNCHANGED <<acked, settled, deadQ, dropped>> /\ RetryAllowed(x)
        \/ /\ acked' = acked \cup {x} /\ settled' = settled /\ ~RetryAllowed(x)
           /\ \/ deadQ' = Append(deadQ, x) /\ dropped' = dropped
              \/ dropped' = dropped \cup {x} /\ deadQ' = deadQ
    <3>1. HandlerSucceeds(w) => acked' = acked \cup {x} /\ settled' = settled \cup {x} /\ UNCHANGED <<deadQ, dropped>>
      BY DEF HandlerSucceeds, channels
    <3>2. HandlerFailsRetry(w) => UNCHANGED <<acked, settled, deadQ, dropped>> /\ RetryAllowed(x)
      BY DEF HandlerFailsRetry, channels, ends
    <3>3. HandlerFailsDead(w) => /\ acked' = acked \cup {x} /\ settled' = settled /\ ~RetryAllowed(x)
                                 /\ \/ deadQ' = Append(deadQ, x) /\ dropped' = dropped
                                    \/ dropped' = dropped \cup {x} /\ deadQ' = deadQ
      BY DEF HandlerFailsDead
    <3> QED BY <1>3, <3>1, <3>2, <3>3
  <2>5. \A t \in Tasks : InQueue(t, Append(deadQ, x)) <=> InQueue(t, deadQ) \/ t = x
    BY <1>1, <2>1, QueueMoves
  <2>6. AttemptsBounded'
    BY <1>1, <2>1, <2>3 DEF Ends, AttemptsBounded, Endless
  <2>7. TriesLeft'
    BY <1>1, <2>1, <2>3, <2>4 DEF Ends, TriesLeft, RetryAllowed, Endless
  <2>8. AckedIsOver'
    BY <1>1, <2>1, <2>4, <2>5 DEF Ends, AckedIsOver
  <2>9. DeadAfterAllTries'
    <3> SUFFICES ASSUME NEW t \in acked', t \in dropped' \/ InQueue(t, deadQ')
                 PROVE  ~Endless(t) /\ attempts'[t] = MaxRetry[t] + 1
      BY DEF DeadAfterAllTries, Endless
    <3>1. t \in Tasks
      BY <1>1, <2>1, <2>4
    <3>2. CASE t # x
      <4>1. t \in acked /\ (t \in dropped' => t \in dropped)
        BY <2>4, <3>1, <3>2
      <4>2. deadQ' = deadQ \/ deadQ' = Append(deadQ, x)
        BY <2>4
      <4>3. InQueue(t, deadQ') => InQueue(t, deadQ)
        BY <2>5, <3>1, <3>2, <4>2
      <4> QED BY <1>1, <2>3, <3>1, <3>2, <4>1, <4>3 DEF Ends, DeadAfterAllTries
    <3>3. CASE t = x
      <4>1. ~RetryAllowed(x)
        BY <2>1, <2>4, <3>3
      <4> QED BY <2>1, <2>3, <3>3, <4>1 DEF RetryAllowed, Endless
    <3> QED BY <3>2, <3>3
  <2> QED BY <2>6, <2>7, <2>8, <2>9 DEF Ends
<1> QED BY <1>2, <1>3 DEF Work

\* Every other step leaves attempts and acknowledgements alone; tasks without
\* an acknowledgement are added to the dead letters or dropped, dead letters
\* are read and so settled.
LEMMA OthersEnd ==
    ASSUME IInv, UNCHANGED counts, settled \subseteq settled',
           dropped' = dropped \/ \E x \in Tasks \ acked : dropped' = dropped \cup {x},
           \/ deadQ' = deadQ
           \/ \E x \in Tasks \ acked : deadQ' = Append(deadQ, x)
           \/ deadQ # <<>> /\ deadQ' = Tail(deadQ) /\ Head(deadQ) \in settled'
    PROVE  Ends'
<1>1. /\ deadQ \in Seq(Tasks) /\ acked \subseteq Tasks /\ attempts' = attempts /\ acked' = acked
      /\ Ends
  BY DEF IInv, TypeOK, counts
<1>2. ASSUME NEW t \in acked
      PROVE  /\ t \in settled' \cup dropped' \/ InQueue(t, deadQ')
             /\ t \in dropped' \/ InQueue(t, deadQ') => t \in dropped \/ InQueue(t, deadQ)
  <2>1. t \in Tasks /\ (t \in settled \cup dropped \/ InQueue(t, deadQ))
    BY <1>1 DEF Ends, AckedIsOver
  <2>2. /\ \A x \in Tasks : InQueue(t, Append(deadQ, x)) <=> InQueue(t, deadQ) \/ t = x
        /\ deadQ # <<>> /\ InQueue(t, deadQ) => t = Head(deadQ) \/ InQueue(t, Tail(deadQ))
        /\ deadQ # <<>> /\ InQueue(t, Tail(deadQ)) => InQueue(t, deadQ)
    BY <1>1, <2>1, QueueMoves
  <2> QED BY <2>1, <2>2
<1> QED BY <1>1, <1>2 DEF Ends, AckedIsOver, AttemptsBounded, DeadAfterAllTries, TriesLeft, Endless

\* A task a timer or the dispatcher holds is not over, and so not acknowledged.
LEMMA HeldIsOpen ==
    ASSUME IInv, NEW t \in Tasks, timer[t] # "off" \/ dispatcher.task = t
    PROVE  t \notin acked
BY OnePlace DEF IInv, Ends, AckedIsOver
-----------------------------------------------------------------------------
\* Nothing is published yet and every goroutine is free.
LEMMA InitIInv == Init => IInv
<1> SUFFICES ASSUME Init PROVE IInv
  OBVIOUS
<1>1. <<>> \in Seq(Tasks) /\ Len(<<>>) = 0 /\ Buffer \in Nat /\ MaxRetry \in [Tasks -> Int]
  BY TaskQueueAssumption DEF TaskQueueAssumption
<1>2. \A pcs : "recv" \in pcs => Free \in PcTask(pcs)
  BY DEF Free, PcTask
<1>3. TypeOK
  <2>1. \A q \in {tasks, retryQ, deadQ} : q \in Seq(Tasks) /\ Len(q) <= Buffer
    <3>1. <<>> \in Seq(Tasks) /\ Len(<<>>) <= Buffer
      BY <1>1
    <3>2. \A q \in {tasks, retryQ, deadQ} : q = <<>>
      BY DEF Init
    <3> QED BY <3>1, <3>2
  <2>2. /\ worker \in [Workers -> PcTask({"recv", "handler", "exited"})]
        /\ dispatcher \in PcTask({"recv", "tasks", "retry", "dead", "exited"})
    BY <1>2 DEF Init
  <2> QED BY <2>1, <2>2 DEF Init, TypeOK
<1>4. HandsFull
  BY DEF Init, HandsFull, Free
<1>5. ASSUME NEW t \in Tasks PROVE Places(t) = 0 /\ publisher[t] # "sent"
  <2>1. t # NoTask /\ Free.task = NoTask
    BY TaskQueueAssumption DEF TaskQueueAssumption, Free
  <2>2. {i \in 1..Len(<<>>) : <<>>[i] = t} = {}
    BY <1>1
  <2>3. {w \in Workers : worker[w].task = t} = {}
    BY <2>1 DEF Init
  <2>4. Cardinality({}) = 0
    BY FS_EmptySet
  <2>5. /\ Cardinality({i \in 1..Len(tasks) : tasks[i] = t}) = 0
        /\ Cardinality({i \in 1..Len(retryQ) : retryQ[i] = t}) = 0
        /\ Cardinality({i \in 1..Len(deadQ) : deadQ[i] = t}) = 0
        /\ Cardinality({w \in Workers : worker[w].task = t}) = 0
    BY <2>2, <2>3, <2>4 DEF Init
  <2>6. dispatcher.task # t /\ timer[t] = "off" /\ t \notin settled \cup dropped
    BY <2>1 DEF Init
  <2> QED BY <2>5, <2>6 DEF Places, Init
<1>6. TaskInOnePlace
  BY <1>5 DEF TaskInOnePlace
<1>7. Ends
  BY <1>1 DEF Init, Ends, AckedIsOver, AttemptsBounded, DeadAfterAllTries, TriesLeft, Endless
<1> QED BY <1>3, <1>4, <1>6, <1>7 DEF IInv

\* Every step, the tail of Close included, keeps the invariant.
LEMMA NextIInv == IInv /\ [NextToReturn]_vars => IInv'
<1> SUFFICES ASSUME IInv, [NextToReturn]_vars PROVE IInv'
  OBVIOUS
<1>1. TypeOK /\ HandsFull /\ TaskInOnePlace
  BY DEF IInv
<1>2. ASSUME NEW w \in Workers, Work(w) PROVE IInv'
  <2>1. TypeOK' /\ HandsFull'
    BY <1>1, <1>2, WorkTypes
  <2>2. TaskInOnePlace'
    BY <1>1, <1>2, <2>1, WorkMoves DEF TaskInOnePlace
  <2> QED BY <1>2, <2>1, <2>2, WorkEnds DEF IInv
<1>3. ASSUME ReadDeadLetter \/ \E t \in Tasks : Publish(t) \/ TimerStep(t) PROVE IInv'
  <2>1. TypeOK' /\ HandsFull'
    BY <1>1, <1>3, TaskTypes
  <2>2. TaskInOnePlace'
    BY <1>3, <2>1, TaskMoves DEF TaskInOnePlace
  <2>3. /\ UNCHANGED <<counts, dropped>> /\ settled \subseteq settled'
        /\ \/ deadQ' = deadQ
           \/ \E x \in Tasks \ acked : deadQ' = Append(deadQ, x)
           \/ deadQ # <<>> /\ deadQ' = Tail(deadQ) /\ Head(deadQ) \in settled'
    BY <1>3, HeldIsOpen DEF ReadDeadLetter, Publish, PublishCheck, PublishSend, TimerStep, TimerFires,
                TimerTriesTasks, TimerSendsDead, channels, counts, ends
  <2> QED BY <2>1, <2>2, <2>3, OthersEnd DEF IInv
<1>4. ASSUME DispatcherStep PROVE IInv'
  <2>1. TypeOK' /\ HandsFull'
    BY <1>1, <1>4, DispatcherTypes
  <2>2. TaskInOnePlace'
    BY <1>1, <1>4, <2>1, DispatcherMoves DEF TaskInOnePlace
  <2>3. dispatcher.pc # "recv" /\ dispatcher.pc # "exited" => dispatcher.task \in Tasks
    BY <1>1 DEF HandsFull, TypeOK, PcTask
  <2>4. /\ UNCHANGED counts /\ settled \subseteq settled'
        /\ dropped' = dropped \/ \E x \in Tasks \ acked : dropped' = dropped \cup {x}
        /\ deadQ' = deadQ \/ \E x \in Tasks \ acked : deadQ' = Append(deadQ, x)
    BY <1>4, <2>3, HeldIsOpen DEF DispatcherStep, Dispatch, DispatchTasks, DispatchRetry, DispatchDead, counts, ends
  <2> QED BY <2>1, <2>2, <2>4, OthersEnd DEF IInv
<1>5. ASSUME Closing \/ UNCHANGED vars PROVE IInv'
  <2>1. /\ TypeOK' /\ HandsFull'
        /\ UNCHANGED <<channels, publisher, worker, timer, counts, ends>>
        /\ dispatcher'.task = dispatcher.task
    BY <1>1, <1>5, ClosingKeeps
  <2>2. TaskInOnePlace'
    <3>1. UNCHANGED <<tasks, retryQ, deadQ, settled, dropped>>
      BY <2>1 DEF channels, ends
    <3>2. \A t \in Tasks : Places(t)' = Places(t)
      BY <2>1, <3>1 DEF Places
    <3> QED BY <1>1, <2>1, <3>2 DEF TaskInOnePlace
  <2>3. Ends'
    BY <2>1, OthersEnd DEF channels, ends
  <2> QED BY <2>1, <2>2, <2>3 DEF IInv
<1> QED BY <1>2, <1>3, <1>4, <1>5 DEF NextToReturn, Next, Closing

\* Every accepted task is in one place, over once it is acknowledged and tried
\* no more often than its limit, and exactly that often when it is acknowledged
\* as dead, for any tasks, workers and capacities and any MaxRetry per task.
THEOREM SafeHolds == FairSpec => []Safe
<1>1. IInv /\ [Next]_vars => IInv'
  BY NextIInv DEF NextToReturn
<1>2. IInv => Safe
  BY DEF IInv, Ends, Safe
<1> QED BY InitIInv, <1>1, <1>2, PTL DEF FairSpec

\* The same while the queue is being closed, up to Close's return.
THEOREM SafeWhileClosing == CloseSpec => []Safe
<1>1. IInv => Safe
  BY DEF IInv, Ends, Safe
<1> QED BY InitIInv, NextIInv, <1>1, PTL DEF CloseSpec
=============================================================================
