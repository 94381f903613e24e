CONSTANTS
  PoolTask = {t1, t2, t3}  MinWorkers = 1  MaxWorkers = 2  NoTask = notask
  Item = {x, y, z}  Consumer = {c1, c2}  QueueSizes = {0, 1}  Sentinel = sentinel
  Job = {j1, j2}  QueueWorker = {q1, q2}  MaxRetries = 1  EndMark = mark
  Caller = {a, b, c}  Value = value  Unset = unset
  NumItems = 3  GatherLimit = 2
  LimitedClient = {k1, k2}  Rate = 2  Capacity = 3  TokenAmounts = {1, 2}  Waiter = {w1, w2}
  MaxAllows = 2  MaxBucketTime = 3
  MaxAttemptsInputs = {0, 3}  Delays = {0, 1, 2}  Backoffs = {1, 2}  MaxDelays = {3}  Jitters = {0, 1}
  Unbounded = none
  Reader = {a, b}  Property = {pr, ps}  NumInstances = 2  MaxNeeds = 2
  ColumnValue = {1, 2}  MaxRows = 2  MaxFilters = 2  NoLimit = none
  Client = {a, b, c}  MaxEvents = 2
  Subscriber = {s1, s2}  ChannelSize = 2  MaxMessages = 4  Handler = {h1, h2}
  Publisher = {p1}  GoBuffer <- MCGoBuffer  BrokerBuffer = 1  MaxDeliveries = 2
  Scheduled = {t1, t2, t3}  IntervalOf <- MCIntervals  RunDelays = {1}  IdleWait = 2  MaxSchedulerTime = 5  LastSchedule = 2
  ToolName = {f, g}  MaxDepth = 2  MaxEmitted = 5  Listeners <- MCListeners
  Method = {"GET", "POST"}  Param = "{id}"  RoutePaths <- MCRoutePaths
  RequestPaths <- MCRequestPaths  RouteHandler = {r1, r2}  MiddlewareName = {m1, m2}  MaxRoutes = 3
  UserId = {u1, u2}  UserName = {ada, bob}  MaxChanges = 4  NoUser = nouser
  NumClasses = 3  MaxResolves = 2
  MaxValue = 3  MaxLen = 4  Char = {"a", "b"}  MaxWordLen = 2  MaxWords = 3
  NumVertices = 3  MaxNeighbours = 2  MaxEdges = 3  NumObjects = 2  MaxItems = 2
SPECIFICATION Spec
INVARIANTS
  WorkersCounted
  StopsAreComplete
  CallsAsPromised
  WithinLimits
  ListenersHearInOrder
  ResultsAreRight
PROPERTIES
  EarliestDueRuns
  RouterAnswers
  ProgramsSettle
CHECK_DEADLOCK FALSE
