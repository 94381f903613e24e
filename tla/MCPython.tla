------------------------------ MODULE MCPython ------------------------------
(***************************************************************************)
(* The Python programs for model checking: the thread and asyncio          *)
(* exercises, the mini runtime, the patterns and the algorithms, and the   *)
(* publish and subscribe programs of Go.  The initial state chooses one;   *)
(* the others stay where they start.                                       *)
(***************************************************************************)
EXTENDS ThreadPool, SentinelQueues, Decorators, AsyncLimits,
        MiniRuntime, EngineeringPatterns, Algorithms

VARIABLE program

threadVars == <<poolVars, pcVars, tqVars, onceVars, gatherVars, bucketVars, retryVars, propertyVars>>
runtimeVars == <<sseVars, pubsubVars, schedVars, agentVars, routerVars, uowVars, diVars, ormVars, configVars, goVars>>
vars == <<threadVars, runtimeVars, algorithmVars, program>>

Is(p) == program = p

MCIntervals == [t \in Scheduled |-> IF t = CHOOSE x \in Scheduled : TRUE THEN 2 ELSE 0]
MCGoBuffer == [s \in Subscriber |-> IF s = CHOOSE x \in Subscriber : TRUE THEN 0 ELSE 1]
MCListeners == <<"hears", "raises", "hears">>
MCRoutePaths == {<<"users", Param>>, <<"users", "me">>}
MCRequestPaths == {<<"users", "me">>, <<"users", "you">>}

AlgorithmPrograms == {"min_stack", "trie", "graph", "deep_copy", "lists", "iterators"}
Programs == AlgorithmPrograms \cup
            {"thread_pool", "producer_consumer", "mini_task_queue", "once", "bounded_gather",
             "token_bucket", "retry", "sse_server", "pubsub", "event_bus", "go_pubsub", "scheduler", "agent_runtime",
             "router", "unit_of_work", "di_container",
             "cached_property", "mini_orm", "config_loader"}

\* A program that does not run is given one input.
One(S) == CHOOSE x \in S : TRUE
Init ==
  /\ program \in Programs
  /\ PropertyInit /\ (~Is("cached_property") => \A cell \in Cell : needs[cell] = NoCell)
  /\ ConfigInit /\ (~Is("config_loader") => source = <<>>)
  /\ PoolInit /\ TaskQueueInit /\ OnceInit /\ OrmInit
  /\ ProducerInit /\ (~Is("producer_consumer") => maxsize = 0 /\ raising = {})
  /\ GatherInit /\ (~Is("bounded_gather") => returnExceptions /\ hasTimeout)
  /\ BucketInit /\ (~Is("token_bucket") => wants = One([Waiter -> [client : LimitedClient, tokens : {1}]]))
  /\ RetryInit /\ (~Is("retry") => flavour = "async" /\ retryPolicy = One({p \in Policies : p.max_delay = Unbounded}))
  /\ SseInit /\ PubSubInit /\ SchedulerInit /\ AgentInit /\ RouterInit /\ UowInit
  /\ GoInit /\ (~Is("go_pubsub") => goBus = "pubsub")
  /\ DiInit /\ (~Is("di_container") => \A c \in Class : deps[c] = <<>> /\ lifetime[c] = "none")
  /\ AlgorithmInit(program)

ThreadNext ==
  \/ Is("thread_pool") /\ PoolNext
     /\ UNCHANGED <<pcVars, tqVars, onceVars, gatherVars, bucketVars, retryVars, propertyVars>>
  \/ Is("producer_consumer") /\ ProducerNext
     /\ UNCHANGED <<poolVars, tqVars, onceVars, gatherVars, bucketVars, retryVars, propertyVars>>
  \/ Is("mini_task_queue") /\ TaskQueueNext
     /\ UNCHANGED <<poolVars, pcVars, onceVars, gatherVars, bucketVars, retryVars, propertyVars>>
  \/ Is("once") /\ OnceNext
     /\ UNCHANGED <<poolVars, pcVars, tqVars, gatherVars, bucketVars, retryVars, propertyVars>>
  \/ Is("bounded_gather") /\ GatherNext
     /\ UNCHANGED <<poolVars, pcVars, tqVars, onceVars, bucketVars, retryVars, propertyVars>>
  \/ Is("token_bucket") /\ BucketNext
     /\ UNCHANGED <<poolVars, pcVars, tqVars, onceVars, gatherVars, retryVars, propertyVars>>
  \/ Is("retry") /\ RetryStep
     /\ UNCHANGED <<poolVars, pcVars, tqVars, onceVars, gatherVars, bucketVars, propertyVars>>
  \/ Is("cached_property") /\ PropertyNext
     /\ UNCHANGED <<poolVars, pcVars, tqVars, onceVars, gatherVars, bucketVars, retryVars>>

RuntimeNext ==
  \/ Is("sse_server") /\ SseNext
     /\ UNCHANGED <<pubsubVars, schedVars, agentVars, routerVars, uowVars, diVars, ormVars, configVars, goVars>>
  \/ ((Is("pubsub") /\ TopicNext) \/ (Is("event_bus") /\ BusNext))
     /\ UNCHANGED <<sseVars, schedVars, agentVars, routerVars, uowVars, diVars, ormVars, configVars, goVars>>
  \/ Is("scheduler") /\ SchedulerNext
     /\ UNCHANGED <<sseVars, pubsubVars, agentVars, routerVars, uowVars, diVars, ormVars, configVars, goVars>>
  \/ Is("agent_runtime") /\ AgentNext
     /\ UNCHANGED <<sseVars, pubsubVars, schedVars, routerVars, uowVars, diVars, ormVars, configVars, goVars>>
  \/ Is("router") /\ RouterNext
     /\ UNCHANGED <<sseVars, pubsubVars, schedVars, agentVars, uowVars, diVars, ormVars, configVars, goVars>>
  \/ Is("unit_of_work") /\ UowNext
     /\ UNCHANGED <<sseVars, pubsubVars, schedVars, agentVars, routerVars, diVars, ormVars, configVars, goVars>>
  \/ Is("di_container") /\ DiNext
     /\ UNCHANGED <<sseVars, pubsubVars, schedVars, agentVars, routerVars, uowVars, ormVars, configVars, goVars>>
  \/ Is("mini_orm") /\ OrmNext
     /\ UNCHANGED <<sseVars, pubsubVars, schedVars, agentVars, routerVars, uowVars, diVars, configVars, goVars>>
  \/ Is("config_loader") /\ ReadConfig
     /\ UNCHANGED <<sseVars, pubsubVars, schedVars, agentVars, routerVars, uowVars, diVars, ormVars, goVars>>
  \/ Is("go_pubsub") /\ GoNext
     /\ UNCHANGED <<sseVars, pubsubVars, schedVars, agentVars, routerVars, uowVars, diVars, ormVars, configVars>>

Next ==
  /\ UNCHANGED program
  /\ \/ ThreadNext /\ UNCHANGED <<runtimeVars, algorithmVars>>
     \/ RuntimeNext /\ UNCHANGED <<threadVars, algorithmVars>>
     \/ AlgorithmNext(program) /\ UNCHANGED <<threadVars, runtimeVars>>

\* Every thread that can go on does, an event loop runs what is ready, time goes on.  Nobody is
\* obliged to call submit, schedule or stop: only a stop that has begun goes on.
Spec ==
  /\ Init /\ [][Next]_vars
  /\ \A t \in PoolTask : WF_poolVars(Is("thread_pool") /\ SubmitStep(t))
  /\ \A w \in Worker : WF_poolVars(Is("thread_pool") /\ PoolWorkerStep(w))
  /\ WF_pcVars(Is("producer_consumer") /\ (PutSentinel \/ ReturnFromStop))
  /\ \A w \in Consumer : WF_pcVars(Is("producer_consumer") /\ ConsumerStep(w))
  /\ WF_tqVars(Is("mini_task_queue") /\ (QueueJoined \/ PutEndMark \/ QueueStopReturns))
  /\ \A w \in QueueWorker : WF_tqVars(Is("mini_task_queue") /\ QueueWorkerStep(w))
  /\ \A w \in Waiter : WF_bucketVars(Is("token_bucket") /\ TryAgain(w))
  /\ WF_bucketVars(Is("token_bucket") /\ BucketTick)
  /\ WF_schedVars(Is("scheduler") /\ (LoopTurn \/ WaitIsOver))
  /\ WF_schedVars(Is("scheduler") /\ CoroEnds)
  /\ WF_schedVars(Is("scheduler") /\ SchedulerTick)

\* The programs settle, however their steps interleave: the pool runs all its tasks and shrinks
\* to its core, both stops come back, a waiter for tokens is served, a due task runs.
ProgramsSettle ==
  /\ Is("thread_pool") => PoolDrains
  /\ StopComesBack /\ QueueStopComesBack
  /\ Is("token_bucket") => WaitersAreServed
  /\ Is("scheduler") => DueTasksRun

\* The patterns keep what they promise, and the algorithms compute what their names say.
ResultsAreRight == PatternsKeepTheirWord /\ (program \in AlgorithmPrograms => AlgorithmsAgree)
=============================================================================
