CONSTANTS
  WalTrx = {t1, t2, t3}  Page = {p1, p2}  MaxLsn = 3  MaxWalCrashes = 1
  Key = {k1}  MaxTrx = 3  MaxVersions = 3
  MaxMasterWrites = 4  MaxWorkers = 3  MaxRounds = 6
  RedisClient = {a, b, c}  None = None  LeaseTtl = 2  Interval = 1  MaxRedisTime = 5
  NumClients = 3  Contention = 1
  RedlockClient = {a, b}  NoOne = NoOne  NumNodes = 3  Quorum = 2  RedlockTtl = 2  MaxRedlockTime = 5
  Replica = {a, b, c}  Value = {v1, v2}  NoValue = NoValue  MaxIncrements = 1  MaxStamp = 2
  Servers = 2  MaxQueueSize = 2  SimDuration = 7  Gaps = {1, 2}  ServiceTimes = {1, 3}
  Workers = {w1, w2}  NumStages = 2  StageTime = 2  RequestTimeout = 2  MaxLag = 1  MaxTestTime = 12
  MaxComponents = 4  MaxLatency = 3  QpsInputs = {0, 1, 250, 700}  SafetyPercents = {35, 70, 100}
  MaxRecords = 3  MaxSamples = 2  MaxTraceTime = 2
  MaxPingPongs = 3  Nobody = Nobody  NumCounters = 3  IterationInputs = {0, 3, 7}
  ClusterSizes = {1, 3}  MaxTerm = 3  MaxCommands = 3  NoVote = NoVote
  StartupDelays = {1, 2, 4}  MaxPodTicks = 12  NodeCpu = 3  NodeMemory = 3  MaxPods = 2
  NumEndpoints = 2  NumClientIps = 3  NumIngressNodes = 3  MaxIngressRequests = 3
  SloTargets = {0, 2, 200}  SloWindow = 3  MaxSloRequests = 6
  Latencies = {1, 3}  SlowLatency = 10  LossPenalty = 6  MaxHttpRequests = 5
SPECIFICATION LabsSpec
INVARIANTS
  SnapshotIsCommitted
  ReplicasAgree
  FirstComeFirstServed
  RedlockMutex
  Convergence
  NumbersAreRight
PROPERTIES
  DatabasesHold
  RedisLockSafe
  EveryLabEnds
CHECK_DEADLOCK FALSE
