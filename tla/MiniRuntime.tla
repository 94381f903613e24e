---------------------------- MODULE MiniRuntime ----------------------------
(***************************************************************************)
(* Three programs of the mini framework: the agent runtime, the router and *)
(* the scheduler.                                                          *)
(***************************************************************************)
EXTENDS SseServer, PubSub, Integers, SequencesExt, FiniteSets

(***************************************************************************)
(* AgentRuntime of mini_agent_runtime.py: register, run and the events it  *)
(* emits.  A handler may run a tool itself, so runs nest; an asynchronous  *)
(* handler that does so finds the event loop running and fails.            *)
(***************************************************************************)

CONSTANTS ToolName, MaxDepth, MaxEmitted,
          Listeners      \* what a listener does with an event: "hears" or "raises", in order
ASSUME ListenersAssumption == Listeners \in Seq({"hears", "raises"})

VARIABLES tools,         \* name -> "sync" or "async", once registered
          calls,         \* the stack of runs: [tool, timeout]
          emitted,       \* per listener, the events it got: [type, tool, depth]
          lastRun        \* how the last run ended
agentVars == <<tools, calls, emitted, lastRun>>

AgentInit ==
  /\ tools = <<>> /\ calls = <<>> /\ lastRun = "none"
  /\ emitted = [l \in DOMAIN Listeners |-> <<>>]

Depth == Len(calls)
ToAll(report) == [l \in DOMAIN Listeners |-> Append(emitted[l], report)]
Emit(type, tool, depth) == emitted' = ToAll([type |-> type, tool |-> tool, depth |-> depth])
MayEmit == \A l \in DOMAIN Listeners : Len(emitted[l]) < MaxEmitted

Register(name, kind) ==
  /\ name \notin DOMAIN tools /\ calls = <<>>
  /\ tools' = [n \in DOMAIN tools \cup {name} |-> IF n = name THEN kind ELSE tools[n]]
  /\ UNCHANGED <<calls, emitted, lastRun>>

\* A name that is taken, or one that is not registered: ValueError and no event.
Refuse == lastRun' = "ValueError" /\ UNCHANGED <<tools, calls, emitted>>
RegisterTwice(name) == name \in DOMAIN tools /\ calls = <<>> /\ Refuse
RunUnknown(name) == name \notin DOMAIN tools /\ calls = <<>> /\ Refuse

RunTool(name, timeout) ==
  /\ name \in DOMAIN tools /\ Depth < MaxDepth /\ MayEmit
  /\ Emit("start", name, Depth)
  /\ calls' = Append(calls, [tool |-> name, timeout |-> timeout])
  /\ UNCHANGED <<tools, lastRun>>

Current == calls[Depth]
EndRun(type) ==
  /\ Emit(type, Current.tool, Depth - 1)
  /\ calls' = SubSeq(calls, 1, Depth - 1) /\ lastRun' = type
  /\ UNCHANGED tools

\* asyncio.run inside a running loop; a timeout for a synchronous handler.
CannotStart ==
  \/ tools[Current.tool] = "async" /\ \E k \in 1..(Depth - 1) : tools[calls[k].tool] = "async"
  \/ tools[Current.tool] = "sync" /\ Current.timeout

HandlerEnds(type) ==
  /\ calls # <<>>
  /\ CannotStart => type = "error"
  /\ EndRun(type)

\* Only a handler that runs can run another tool.
NestedRun(name, timeout) == calls # <<>> /\ ~CannotStart /\ RunTool(name, timeout)

AgentNext ==
  \/ \E name \in ToolName :
       \/ RegisterTwice(name) \/ RunUnknown(name)
       \/ \E kind \in {"sync", "async"} : Register(name, kind)
       \/ \E timeout \in BOOLEAN : (calls = <<>> /\ RunTool(name, timeout)) \/ NestedRun(name, timeout)
  \/ \E type \in {"done", "error"} : HandlerEnds(type)
AgentSpec == AgentInit /\ [][AgentNext]_agentVars
----------------------------------------------------------------------------
Opens(trace, k) == trace[k].type = "start"
\* The start an end belongs to: the last one of its depth before it.
StartOf(trace, k) ==
  CHOOSE i \in 1..(k - 1) : /\ Opens(trace, i) /\ trace[i].depth = trace[k].depth
                            /\ \A j \in (i + 1)..(k - 1) : Opens(trace, j) => trace[j].depth # trace[k].depth

\* Every listener hears the same well-nested story, whichever listener raises: a run's end
\* follows its start with only whole inner runs in between, and what is open now is the stack.
EventsNest ==
  \A l \in DOMAIN Listeners :
    LET trace == emitted[l]
        Ends == {k \in DOMAIN trace : ~Opens(trace, k)}
    IN  /\ \A k \in Ends : trace[StartOf(trace, k)].tool = trace[k].tool
        /\ Len(trace) = 2 * Cardinality(Ends) + Depth
        /\ trace = emitted[1]

\* Whoever listens hears all of it, in order and in full, whatever another listener does: the
\* clients of the event stream, the subscribers of Python and of Go, the handlers of the bus,
\* the agent's listeners.
ListenersHearInOrder == EventsInOrder /\ FanOutIsFair /\ GoFanOut /\ EventsNest

\* The programs with listeners, side by side.
ListenersSpec == SseSpec /\ PubSubSpec /\ GoSpec /\ AgentSpec
----------------------------------------------------------------------------
(***************************************************************************)
(* Router of mini_router.py and MiniFastAPI on top of it: the routes in    *)
(* the order of the dict they are kept in, middlewares, and the dispatch   *)
(* of one request.  A path is a sequence of segments, a parameter segment  *)
(* is Param.  Every middleware passes the request on, and leaves a trace   *)
(* when the request goes in and when the response comes out.               *)
(***************************************************************************)

CONSTANTS Method, Param, RoutePaths, RequestPaths, RouteHandler,
          MiddlewareName, MaxRoutes

VARIABLES routes,          \* sequence of [method, path, handler]: the dict
          middlewares,
          added,           \* history: every call of add, in order
          response         \* of the last dispatch: status, handler, params, trace
routerVars == <<routes, middlewares, added, response>>

RouterInit == routes = <<>> /\ middlewares = <<>> /\ added = <<>> /\ response = <<>>

SameKey(a, b) == a.method = b.method /\ a.path = b.path

\* self._routes[(method, path)] = ...: a key that is there keeps its place.
AppendAlways(route) == Append(routes, route)
DictSet(route) ==
  IF \E k \in DOMAIN routes : SameKey(routes[k], route)
  THEN [k \in DOMAIN routes |-> IF SameKey(routes[k], route) THEN route ELSE routes[k]]
  ELSE Append(routes, route)

AddRoute(route) ==
  /\ Len(added) < MaxRoutes
  /\ routes' = DictSet(route) /\ added' = Append(added, route)
  /\ UNCHANGED <<middlewares, response>>

Use(m) ==
  /\ ~Contains(middlewares, m) /\ middlewares' = Append(middlewares, m)
  /\ UNCHANGED <<routes, added, response>>

PathMatches(path, request) ==
  /\ Len(path) = Len(request)
  /\ \A k \in DOMAIN path : path[k] = Param \/ path[k] = request[k]

Match(method, request) ==
  SelectInSeq(routes, LAMBDA r : r.method = method /\ PathMatches(r.path, request))

\* The chain built from the last middleware to the first, called from the outside.
Wrap(handler) == FoldRight(LAMBDA m, inner : <<"in", m>> \o inner \o <<"out", m>>, middlewares, <<"handler", handler>>)

\* 404 when nothing matches, also when only the method differs; MiniFastAPI answers 400 to a
\* body that is not JSON before it looks for a route.
Dispatch(method, request, json) ==
  LET found == Match(method, request)
  IN  /\ response' =
           IF ~json THEN [status |-> 400, method |-> method, path |-> request, trace |-> <<>>]
           ELSE IF found = 0 THEN [status |-> 404, method |-> method, path |-> request, trace |-> <<>>]
           ELSE [status |-> 200, method |-> method, path |-> request, trace |-> Wrap(routes[found].handler)]
      /\ UNCHANGED <<routes, middlewares, added>>

RouterNext ==
  \/ \E m \in Method, p \in RoutePaths, h \in RouteHandler : AddRoute([method |-> m, path |-> p, handler |-> h])
  \/ \E m \in MiddlewareName : Use(m)
  \/ \E m \in Method, p \in RequestPaths, json \in BOOLEAN : Dispatch(m, p, json)

RouterSpec == RouterInit /\ [][RouterNext]_routerVars
----------------------------------------------------------------------------
\* The calls of add that a request matches, and the handler add was last given for the first
\* of their paths.
Matching(method, request) ==
  {k \in DOMAIN added : added[k].method = method /\ PathMatches(added[k].path, request)}
FirstPath(S) == added[CHOOSE k \in S : \A j \in S : k <= j]
LastFor(route) ==
  added[CHOOSE k \in DOMAIN added : /\ SameKey(added[k], route)
                                    /\ \A j \in DOMAIN added : SameKey(added[j], route) => j <= k].handler

\* A dispatch answers with the route registered first of those that match, with the handler it
\* was given last, inside the middlewares: the first one used is the outermost.
RouterAnswers ==
  [][response' # response /\ response'.status # 400 =>
       LET S == Matching(response'.method, response'.path)
           n == Len(middlewares)
           trace == response'.trace
       IN  IF S = {} THEN response'.status = 404
           ELSE /\ trace[2 * n + 2] = LastFor(FirstPath(S))
                /\ \A k \in 1..n : /\ trace[2 * k - 1] = "in" /\ trace[2 * k] = middlewares[k]
                                   /\ trace[4 * n + 3 - 2 * k] = "out"
                                   /\ trace[4 * n + 4 - 2 * k] = middlewares[k]]_routerVars
-----------------------------------------------------------------------------
(***************************************************************************)
(* MiniScheduler of mini_scheduler.py: the _run loop on the sorted list of *)
(* tasks, schedule_once and schedule_periodic, cancellation by the flag of *)
(* the task, and stop, which sets the event and cancels the loop.  A       *)
(* coroutine ends, raises an Exception, or awaits when it is cancelled.    *)
(***************************************************************************)

CONSTANTS Scheduled,          \* the tasks a client schedules, each once
          IntervalOf,         \* task -> its interval, 0 for once
          RunDelays, IdleWait,    \* IdleWait: the 1.0 s of an empty list
          MaxSchedulerTime,
          LastSchedule        \* bounds when tasks are scheduled: the clock gets past the waits after it

ASSUME PySchedulerAssumption ==
  "none" \notin Scheduled /\ IntervalOf \in [Scheduled -> Nat] /\ RunDelays \subseteq Nat

VARIABLES schedNow, tasks, nextRun, cancelled,
          loopAt, turnNow, wakeUp, current,   \* _run: its place and its locals
          stopEvent, stopReturnedAt,
          runs                                \* task -> times it was started
schedVars == <<schedNow, tasks, nextRun, cancelled, loopAt, turnNow, wakeUp, current, stopEvent,
               stopReturnedAt, runs>>

NotStopped == -1

\* The clock of the event loop is past 0: a next_run of 0 is that of a task not scheduled yet.
SchedulerInit ==
  /\ schedNow = 1 /\ tasks = <<>> /\ nextRun = [t \in Scheduled |-> 0] /\ cancelled = {}
  /\ loopAt = "turn" /\ turnNow = 0 /\ wakeUp = 0 /\ current = "none"
  /\ stopEvent = FALSE /\ stopReturnedAt = NotStopped
  /\ runs = [t \in Scheduled |-> 0]

AtTheEnd(t, time) == Append(tasks, t)
\* append and the stable sort of the list.
SortedIn(t, time) ==
  LET later == SelectInSeq(tasks, LAMBDA x : nextRun[x] > time)
  IN  IF later = 0 THEN Append(tasks, t) ELSE InsertAt(tasks, later, t)
Enter(t, time) == tasks' = SortedIn(t, time) /\ nextRun' = [nextRun EXCEPT ![t] = time]

Known(t) == nextRun[t] > 0
Schedule(t) ==
  /\ ~Known(t) /\ schedNow <= LastSchedule
  /\ \E d \in RunDelays : Enter(t, schedNow + IF IntervalOf[t] = 0 THEN d ELSE IntervalOf[t])
  /\ UNCHANGED <<schedNow, cancelled, loopAt, turnNow, wakeUp, current, stopEvent, stopReturnedAt, runs>>

CancelTask(t) ==
  /\ Known(t) /\ t \notin cancelled /\ cancelled' = cancelled \cup {t}
  /\ UNCHANGED <<schedNow, tasks, nextRun, loopAt, turnNow, wakeUp, current, stopEvent, stopReturnedAt, runs>>

\* From one await of the loop to the next.
WaitUntil(time) ==
  /\ loopAt' = "wait" /\ wakeUp' = time
  /\ UNCHANGED <<tasks, turnNow, current, runs>>

IsCancelled(t) == t \in cancelled
LoopTurn ==
  /\ loopAt = "turn" /\ ~stopEvent
  /\ \/ /\ tasks = <<>> /\ WaitUntil(schedNow + IdleWait)
     \/ /\ tasks # <<>> /\ IsCancelled(tasks[1])
        /\ tasks' = Tail(tasks)
        /\ UNCHANGED <<loopAt, turnNow, wakeUp, current, runs>>
     \/ /\ tasks # <<>> /\ ~IsCancelled(tasks[1]) /\ nextRun[tasks[1]] > schedNow
        /\ WaitUntil(nextRun[tasks[1]])
     \/ /\ tasks # <<>> /\ ~IsCancelled(tasks[1]) /\ nextRun[tasks[1]] <= schedNow
        /\ current' = tasks[1] /\ tasks' = Tail(tasks) /\ turnNow' = schedNow
        /\ runs' = [runs EXCEPT ![tasks[1]] = @ + 1]
        /\ loopAt' = "coro" /\ UNCHANGED wakeUp
  /\ UNCHANGED <<schedNow, nextRun, cancelled, stopEvent, stopReturnedAt>>

\* The timeout of wait_for; nothing wakes the loop when an earlier task is scheduled.
WaitIsOver ==
  /\ loopAt = "wait" /\ schedNow >= wakeUp /\ loopAt' = "turn"
  /\ UNCHANGED <<schedNow, tasks, nextRun, cancelled, turnNow, wakeUp, current, stopEvent, stopReturnedAt, runs>>

\* The coroutine ended or raised, which is swallowed: a periodic task goes back at its interval from the turn's time.
CoroEnds ==
  /\ loopAt = "coro" /\ loopAt' = "turn" /\ current' = "none"
  /\ IF IntervalOf[current] # 0 /\ ~IsCancelled(current)
     THEN Enter(current, turnNow + IntervalOf[current])
     ELSE UNCHANGED <<tasks, nextRun>>
  /\ UNCHANGED <<schedNow, cancelled, turnNow, wakeUp, stopEvent, stopReturnedAt, runs>>

\* stop: the event, the cancellation, which ends the loop where it waits, and the await of it.
Stop ==
  /\ ~stopEvent /\ stopEvent' = TRUE
  /\ loopAt' = "ended" /\ current' = "none" /\ stopReturnedAt' = schedNow
  /\ UNCHANGED <<schedNow, tasks, nextRun, cancelled, turnNow, wakeUp, runs>>

\* Time goes on while the loop waits or a coroutine does, without being late.
SchedulerTick ==
  /\ schedNow < MaxSchedulerTime
  /\ loopAt \in {"coro", "ended"} \/ (loopAt = "wait" /\ schedNow < wakeUp)
  /\ schedNow' = schedNow + 1
  /\ UNCHANGED <<tasks, nextRun, cancelled, loopAt, turnNow, wakeUp, current, stopEvent, stopReturnedAt, runs>>

SchedulerNext == \/ \E t \in Scheduled : Schedule(t) \/ CancelTask(t)
                 \/ LoopTurn \/ WaitIsOver \/ CoroEnds \/ Stop \/ SchedulerTick
PySchedulerSpec == SchedulerInit /\ [][SchedulerNext]_schedVars
----------------------------------------------------------------------------
\* What is started is due, was not cancelled, is the earliest of all the tasks in the list,
\* those put back after a run included, and nothing starts once stop was called.
EarliestDueRuns ==
  [][\A t \in Scheduled : runs'[t] > runs[t] =>
       /\ nextRun[t] <= schedNow /\ t \notin cancelled /\ ~stopEvent
       /\ \A i \in DOMAIN tasks : nextRun[t] <= nextRun[tasks[i]]]_schedVars

\* A task that is due and neither cancelled nor stopped runs, though others come before it.
DueTasksRun ==
  \A t \in Scheduled :
    (Known(t) /\ runs[t] = 0) ~> (runs[t] > 0 \/ t \in cancelled \/ stopEvent)
=============================================================================
