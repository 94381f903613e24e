------------------------------- MODULE MCLabs -------------------------------
(***************************************************************************)
(* The labs on databases, distributed systems and performance for model    *)
(* checking.  They are separate programs: the initial state chooses which  *)
(* one runs, and only that one takes steps.                                *)
(***************************************************************************)
EXTENDS Wal, Mvcc, Replication, LockScripts, CapacitySim, LoadTester, PerfReports, ClusterSims, Benchmarks

VARIABLE lab

databaseVars == <<walVars, mvccVars, replicationVars, raftVars>>
lockVars == <<redisVars, zkVars, redlockVars>>
benchVars == <<pingVars, countVars, traceVars>>
measureVars == <<simVars, testVars, perfVars, clusterVars, benchVars>>
labsVars == <<databaseVars, lockVars, crdtVars, measureVars, lab>>

ClusterLabs == {"pod", "node", "balancer", "local_policy", "slo", "http"}
Labs == ClusterLabs \cup
        {"wal", "mvcc", "replication", "redis", "zk", "redlock", "crdt",
         "raft",
         "capacity_simulator", "load_tester", "reports", "ping_pong", "lock_contention", "tracer"}

LabsInit ==
  /\ lab \in Labs
  /\ MvccInit /\ RedisInit /\ ZkInit /\ RedlockInit /\ CrdtInit
  /\ WalInit /\ (lab # "wal" => impl = "simulator")
  /\ ReplicationInit /\ (lab # "replication" => slaveWorkers = 1)
  /\ RaftInit /\ (lab # "raft" => clusterSize = 1)
  /\ SimInit /\ (lab # "capacity_simulator" => \E e \in events : e.time = 1)
  /\ TestInit /\ (lab # "load_tester" => model = "open" /\ staged)
  /\ TraceInit /\ PingInit /\ (lab # "ping_pong" => how = "pipe" /\ pingPongs = 1)
  /\ CountInit /\ (lab # "lock_contention" => strategy = "mutex" /\ iterations = 0)
  /\ PerfInit /\ (lab # "reports" => components = <<>> /\ plan = SomePlan /\ records = SomeRecords)
  /\ ClusterInit /\ (lab # "pod" => startupDelay = 1 /\ failAt = MaxPodTicks) /\ (lab # "slo" => sloTarget = 0)

DatabaseNext ==
  \/ lab = "wal" /\ WalNext /\ UNCHANGED <<mvccVars, replicationVars, raftVars>>
  \/ lab = "mvcc" /\ MvccNext /\ UNCHANGED <<walVars, replicationVars, raftVars>>
  \/ lab = "replication" /\ ReplicationNext /\ UNCHANGED <<walVars, mvccVars, raftVars>>
  \/ lab = "raft" /\ RaftNext /\ UNCHANGED <<walVars, mvccVars, replicationVars>>

LockNext ==
  \/ lab = "redis" /\ RedisNext /\ UNCHANGED <<zkVars, redlockVars>>
  \/ lab = "zk" /\ ZkNext /\ UNCHANGED <<redisVars, redlockVars>>
  \/ lab = "redlock" /\ RedlockNext /\ UNCHANGED <<redisVars, zkVars>>

BenchNext ==
  \/ lab = "ping_pong" /\ PingNext /\ UNCHANGED <<countVars, traceVars>>
  \/ lab = "lock_contention" /\ CountNext /\ UNCHANGED <<pingVars, traceVars>>
  \/ lab = "tracer" /\ TraceNext /\ UNCHANGED <<pingVars, countVars>>

MeasureNext ==
  \/ lab = "capacity_simulator" /\ SimNext /\ UNCHANGED <<testVars, perfVars, clusterVars, benchVars>>
  \/ lab = "load_tester" /\ TestNext /\ UNCHANGED <<simVars, perfVars, clusterVars, benchVars>>
  \/ lab = "reports" /\ PerfNext /\ UNCHANGED <<simVars, testVars, clusterVars, benchVars>>
  \/ ClusterNext(lab) /\ UNCHANGED <<simVars, testVars, perfVars, benchVars>>
  \/ BenchNext /\ UNCHANGED <<simVars, testVars, perfVars, clusterVars>>

LabsNext ==
  /\ UNCHANGED lab
  /\ \/ DatabaseNext /\ UNCHANGED <<lockVars, crdtVars, measureVars>>
     \/ LockNext /\ UNCHANGED <<databaseVars, crdtVars, measureVars>>
     \/ lab = "crdt" /\ CrdtNext /\ UNCHANGED <<databaseVars, lockVars, measureVars>>
     \/ MeasureNext /\ UNCHANGED <<databaseVars, lockVars, crdtVars>>

\* The clients of the file lock are threads of their own.  The load tester's event loop runs
\* what is ready: every worker that can go on, the runner, the clock.  The target owes nobody
\* an answer.
LabsSpec == /\ LabsInit /\ [][LabsNext]_labsVars
        /\ \A c \in ZkClient : WF_zkVars(lab = "zk" /\ ZkStep(c))
        /\ \A p \in Player : WF_pingVars(lab = "ping_pong" /\ PlayerStep(p))
        /\ \A w \in Workers : WF_testVars(lab = "load_tester" /\ WorkerStep(w))
        /\ WF_testVars(lab = "load_tester" /\ StopStage)
        /\ WF_testVars(lab = "load_tester" /\ CollectStage)
        /\ WF_testVars(lab = "load_tester" /\ TestTick)

\* Nobody waits for ever: each client of the file lock gets through all its rounds, a load test
\* ends with a report even against a target that never answers, and a game of ping-pong is over
\* unless its two threads wait for each other in the one way named in Embraced.  (The lab never
\* changes, so that at most one of the three says anything.)
EveryLabEnds ==
  <>(/\ lab = "zk" => AllRoundsDone
     /\ lab = "load_tester" => phase = "reported"
     /\ lab = "ping_pong" => PingPongOver)

\* The numbers the performance labs print are right: the simulator's areas are the times its jobs
\* spent, the load tester's report counts every request once, the calculators and the
\* tracer are sound, the benchmarks do the rounds and increments they divide by, and the cluster and reliability labs measure what they say.
NumbersAreRight ==
  /\ LittlesLaw /\ FirstComeFirstServedQueue /\ ReportIsComplete /\ ReportsAreSound
  /\ TurnsAlternate /\ NoCountIsLost
  /\ (lab = "capacity_simulator" => ResultAddsUp)
  /\ (lab \in ClusterLabs => ClusterLabsAreRight)

\* The databases keep their word: pages never run ahead of the log and acknowledged writes survive
\* a crash, and a transaction that keeps its read view finds the same versions again.
DatabasesHold == []WriteAhead /\ AckedSurvivesCrash /\ RepeatableRead
=============================================================================
