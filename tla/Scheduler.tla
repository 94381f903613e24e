----------------------------- MODULE Scheduler -----------------------------
(***************************************************************************)
(* language/go/mini-runtime/mini_scheduler/scheduler.go: schedule, Cancel  *)
(* and Stop, the loop goroutine that alone touches the heap and the map,   *)
(* and the goroutine it starts for every run of a task.                    *)
(*                                                                         *)
(* One round of the loop is one step: nobody else changes the heap between *)
(* the look at its top and the select.  Where several cases of a select    *)
(* are ready, any of them is taken.                                        *)
(***************************************************************************)
EXTENDS Naturals, Sequences

CONSTANTS
    Tasks,      \* task objects, one for each call of schedule
    Ids,
    Id,         \* Task.ID
    Delay,      \* time from the call of schedule to the first run
    Interval,   \* Task.Interval; 0 runs once
    Buffer,     \* capacity of addCh and cancelCh
    MaxCancels, \* bound: calls of Cancel
    MaxTime,    \* bound: the clock stops here
    NoTask

ASSUME SchedulerAssumption ==
    /\ Id \in [Tasks -> Ids]
    /\ Delay \in [Tasks -> Nat] /\ Interval \in [Tasks -> Nat]
    /\ \A t \in Tasks : Interval[t] > 0 => Delay[t] = Interval[t]    \* ScheduleEvery
    /\ Buffer \in Nat \ {0} /\ MaxCancels \in Nat /\ MaxTime \in Nat
    /\ NoTask \notin Tasks

VARIABLES
    now,
    addCh, cancelCh,    \* the buffered channels
    heap,               \* the tasks in the heap
    byId,               \* Scheduler.tasks
    next,               \* Task.Next
    caller,             \* where schedule(t) is
    canceled,           \* tasks whose context is cancelled
    routine,            \* the goroutine running t
    loop,               \* "select" or "done"
    stopper,            \* Stop: "open", "closed" (stopCh) or "returned"
    cancels,            \* calls of Cancel so far
    over,               \* history: tasks that ended, or that the loop took out
                        \* of the heap unrun
    lateRuns            \* history: runs begun with a cancelled context

vars == <<now, addCh, cancelCh, heap, byId, next, caller, canceled, routine,
          loop, stopper, cancels, over, lateRuns>>
channels == <<addCh, cancelCh>>
table    == <<heap, byId>>
control  == <<now, loop, stopper, cancels>>
history  == <<over, lateRuns>>

Init ==
    /\ now = 0
    /\ addCh = <<>> /\ cancelCh = <<>>
    /\ heap = {} /\ byId = [i \in Ids |-> NoTask]
    /\ next = [t \in Tasks |-> 0]
    /\ caller = [t \in Tasks |-> "idle"]
    /\ canceled = {}
    /\ routine = [t \in Tasks |-> "off"]
    /\ loop = "select" /\ stopper = "open" /\ cancels = 0
    /\ over = {} /\ lateRuns = [t \in Tasks |-> 0]

HasRoom(q) == Len(q) < Buffer
Stopped == stopper # "open"

Tick ==
    /\ now < MaxTime /\ now' = now + 1
    /\ UNCHANGED <<channels, table, next, caller, canceled, routine, loop, stopper, cancels, history>>

-----------------------------------------------------------------------------
(* schedule, the cancel function it returns, and Cancel                    *)

ScheduleCall(t) ==
    /\ caller[t] = "idle"
    /\ caller' = [caller EXCEPT ![t] = "sending"]
    /\ next' = [next EXCEPT ![t] = now + Delay[t]]
    /\ UNCHANGED <<control, channels, table, canceled, routine, history>>

ScheduleSends(t) ==
    /\ caller[t] = "sending" /\ HasRoom(addCh)
    /\ caller' = [caller EXCEPT ![t] = "accepted"]
    /\ addCh' = Append(addCh, t)
    /\ UNCHANGED <<control, cancelCh, table, next, canceled, routine, history>>

ScheduleRefused(t) ==
    /\ caller[t] = "sending" /\ Stopped
    /\ caller' = [caller EXCEPT ![t] = "refused"]
    /\ canceled' = canceled \cup {t}
    /\ UNCHANGED <<control, channels, table, next, routine, history>>

\* The context.CancelFunc that schedule returned.
CallCancelFunc(t) ==
    /\ caller[t] = "accepted" /\ t \notin canceled
    /\ canceled' = canceled \cup {t}
    /\ UNCHANGED <<control, channels, table, next, caller, routine, history>>

\* After Stop the call may also return without sending.
Cancel(i) ==
    /\ cancels < MaxCancels /\ HasRoom(cancelCh)
    /\ cancels' = cancels + 1
    /\ cancelCh' = Append(cancelCh, i)
    /\ UNCHANGED <<now, loop, stopper, addCh, table, next, caller, canceled, routine, history>>

-----------------------------------------------------------------------------
(* loop                                                                    *)

Mapped == {byId[i] : i \in Ids} \ {NoTask}

\* Mutant: a task of the same id stays in the heap.
LoopAddsBeside ==
    /\ loop = "select" /\ addCh # <<>>
    /\ LET t == Head(addCh) IN
        /\ heap' = heap \cup {t}
        /\ byId' = [byId EXCEPT ![Id[t]] = t]
        /\ canceled' = canceled \cup ({byId[Id[t]]} \ {NoTask})
        /\ over' = over \cup ({byId[Id[t]]} \ {NoTask})
    /\ addCh' = Tail(addCh)
    /\ UNCHANGED <<control, cancelCh, next, caller, routine, lateRuns>>

\* A mapped task of the same id is cancelled and gives way.
LoopAdds ==
    /\ loop = "select" /\ addCh # <<>>
    /\ LET t == Head(addCh)
           old == {byId[Id[t]]} \ {NoTask} IN
        /\ heap' = (heap \ old) \cup {t}
        /\ byId' = [byId EXCEPT ![Id[t]] = t]
        /\ canceled' = canceled \cup old
        /\ over' = over \cup old
    /\ addCh' = Tail(addCh)
    /\ UNCHANGED <<control, cancelCh, next, caller, routine, lateRuns>>

\* An id that is not mapped, because its task is running or still in addCh,
\* is ignored.
LoopCancels ==
    /\ loop = "select" /\ cancelCh # <<>>
    /\ LET i == Head(cancelCh)
           old == {byId[i]} \ {NoTask} IN
        /\ heap' = heap \ old
        /\ byId' = [byId EXCEPT ![i] = NoTask]
        /\ canceled' = canceled \cup old
        /\ over' = over \cup old
    /\ cancelCh' = Tail(cancelCh)
    /\ UNCHANGED <<control, addCh, next, caller, routine, lateRuns>>

\* Mutant: Less is the wrong way round.
IsLast(t) == t \in heap /\ \A u \in heap : next[u] <= next[t]

\* heap[0], the root that the timer was set for.
IsTop(t) == t \in heap /\ \A u \in heap : next[t] <= next[u]

\* The timer fires: the task leaves heap and map and gets a goroutine.
LoopFires(t) ==
    /\ loop = "select" /\ IsTop(t) /\ next[t] <= now
    /\ heap' = heap \ {t}
    /\ byId' = [byId EXCEPT ![Id[t]] = NoTask]
    /\ routine' = [routine EXCEPT ![t] = "running"]
    /\ lateRuns' = IF t \in canceled THEN [lateRuns EXCEPT ![t] = @ + 1] ELSE lateRuns
    /\ UNCHANGED <<control, channels, next, caller, canceled, over>>

LoopStops ==
    /\ loop = "select" /\ Stopped
    /\ canceled' = canceled \cup Mapped
    /\ loop' = "done"
    /\ UNCHANGED <<now, stopper, cancels, channels, table, next, caller, routine, history>>

-----------------------------------------------------------------------------
(* The goroutine of a run, and Stop                                        *)

FnReturns(t) ==
    /\ routine[t] = "running"
    /\ IF Interval[t] > 0 /\ t \notin canceled
       THEN /\ next' = [next EXCEPT ![t] = now + Interval[t]]
            /\ routine' = [routine EXCEPT ![t] = "again"]
            /\ UNCHANGED over
       ELSE /\ routine' = [routine EXCEPT ![t] = "off"]
            /\ over' = over \cup {t}
            /\ UNCHANGED next
    /\ UNCHANGED <<control, channels, table, caller, canceled, lateRuns>>

\* The panic is recovered; a periodic task is not added again either.
FnPanics(t) ==
    /\ routine[t] = "running"
    /\ routine' = [routine EXCEPT ![t] = "off"]
    /\ over' = over \cup {t}
    /\ UNCHANGED <<control, channels, table, next, caller, canceled, lateRuns>>

AddsAgain(t) ==
    /\ routine[t] = "again" /\ HasRoom(addCh)
    /\ routine' = [routine EXCEPT ![t] = "off"]
    /\ addCh' = Append(addCh, t)
    /\ UNCHANGED <<control, cancelCh, table, next, caller, canceled, history>>

\* Mutant: the select has no case for stopCh.
GivesUpNever(t) == routine[t] = "stopping" /\ UNCHANGED vars

GivesUp(t) ==
    /\ routine[t] = "again" /\ Stopped
    /\ routine' = [routine EXCEPT ![t] = "off"]
    /\ canceled' = canceled \cup {t}
    /\ UNCHANGED <<control, channels, table, next, caller, history>>

StopCloses ==
    /\ stopper = "open" /\ stopper' = "closed"
    /\ UNCHANGED <<now, loop, cancels, channels, table, next, caller, canceled, routine, history>>

\* <-doneCh and wg.Wait()
StopReturns ==
    /\ stopper = "closed" /\ loop = "done"
    /\ \A t \in Tasks : routine[t] = "off"
    /\ stopper' = "returned"
    /\ UNCHANGED <<now, loop, cancels, channels, table, next, caller, canceled, routine, history>>

-----------------------------------------------------------------------------
LoopStep == LoopAdds \/ LoopCancels \/ LoopStops \/ \E t \in Tasks : LoopFires(t)
Routine(t) == FnReturns(t) \/ FnPanics(t) \/ AddsAgain(t) \/ GivesUp(t)

Next ==
    \/ Tick
    \/ \E t \in Tasks :
        \/ ScheduleCall(t) \/ ScheduleSends(t) \/ ScheduleRefused(t) \/ CallCancelFunc(t)
        \/ Routine(t)
    \/ \E i \in Ids : Cancel(i)
    \/ LoopStep
    \/ StopCloses \/ StopReturns

\* Goroutines run and every Fn returns or panics; callers may do nothing.
Fairness ==
    /\ WF_vars(LoopStep) /\ WF_vars(StopReturns)
    /\ \A t \in Tasks : WF_vars(Routine(t))

Spec == Init /\ [][Next]_vars
FairSpec == Spec /\ Fairness

-----------------------------------------------------------------------------
(* Properties                                                              *)

TypeOK ==
    /\ now \in Nat /\ cancels \in Nat
    /\ addCh \in Seq(Tasks) /\ Len(addCh) <= Buffer
    /\ cancelCh \in Seq(Ids) /\ Len(cancelCh) <= Buffer
    /\ heap \in SUBSET Tasks
    /\ byId \in [Ids -> Tasks \cup {NoTask}]
    /\ next \in [Tasks -> Nat]
    /\ caller \in [Tasks -> {"idle", "sending", "accepted", "refused"}]
    /\ routine \in [Tasks -> {"off", "running", "again"}]
    /\ loop \in {"select", "done"}
    /\ stopper \in {"open", "closed", "returned"}
    /\ {canceled, over} \subseteq SUBSET Tasks
    /\ lateRuns \in [Tasks -> Nat]

Waiting == {addCh[j] : j \in 1..Len(addCh)}
NoRepeats == \A j, k \in 1..Len(addCh) : addCh[j] = addCh[k] => j = k
Active(t) == routine[t] # "off"

\* A task is waiting in addCh, in the heap, or has a goroutine, and never two
\* of these; the heap and the map hold the same tasks, one for each id.  A
\* task added twice would run beside itself and spoil its index in the heap.
OnePlacePerTask ==
    /\ NoRepeats
    /\ \A t \in Tasks :
        /\ ~(t \in Waiting /\ t \in heap)
        /\ ~(Active(t) /\ t \in Waiting \cup heap)
        /\ t \in heap <=> byId[Id[t]] = t

\* A task the loop took out of the heap to cancel it never runs again, and
\* one cancelled through its cancel function runs at most once more, however
\* its last run and its re-entry interleave with the call.
CancelIsHeeded ==
    /\ \A t \in over : t \notin Waiting \cup heap /\ ~Active(t)
    /\ \A t \in Tasks : lateRuns[t] <= 1

\* When Stop has returned nothing runs, and an accepted task has ended or is
\* cancelled, but for those the loop never received from addCh.
StopSettlesTasks ==
    stopper = "returned" => \A t \in Tasks :
        /\ ~Active(t)
        /\ caller[t] = "accepted" => t \in over \cup canceled \cup Waiting

\* A task whose time has come leaves the heap, unless the loop stops first.
DueTaskRuns ==
    \A t \in Tasks : t \in heap /\ next[t] <= now ~> t \notin heap \/ loop = "done"

\* Stop returns although periodic tasks are about to be added again.
StopCompletes == stopper = "closed" ~> stopper = "returned"

\* A task is in one place, a cancelled task does not run again, and a stopped scheduler leaves
\* nothing behind.
Safe == TypeOK /\ OnePlacePerTask /\ CancelIsHeeded /\ StopSettlesTasks
=============================================================================
