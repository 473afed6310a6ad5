SPECIFICATION PartsSpec
CONSTANTS
  c1 = c1
  c2 = c2
  k1 = k1
  k2 = k2
  Call = {c1, c2}
  Client = {k1, k2}
  MaxConnection = 1
  Retry = 1
  IntSpace = 2
  Detect = TRUE
  InitMayFail = TRUE
  MaxFlips = 2
  Connector = {"c1", "c2"}
  ConnectRetry = 2
  MaxMoves = 1
  Caller = {"c1", "c2"}
  HostCount = 3
  IndexSpace = 5
  Weights <- SomeWeights
  Elem = {"a", "b"}
  Capacity = 3
  Ticks = 3
  Intervals = {2, 3, 4}
  Burst = 6
  MaxPermits = 3
  MaxTime = 9
  Thread = {0, 1, 2}
  Slots = 2
  Values = {2}
  MaxOps = 1
  Null = Null
  Logger = {"l1", "l2"}
  Records = 2
  MaxSize = 0
  MaxFiles = 2
CHECK_DEADLOCK FALSE
INVARIANTS
  TypeOK
  FreeMeansAlive
  RefusedAfterRetries
  AliveDetected
  ObjectAlive
  RetriesSuffice
  AliveFound
  SharesKept
  
  Conserved
  ReadBetween
  NewestKept
PROPERTIES
  AliveAgain
  IdleCollected
  SignalReturns
  StaleLeaves
  ImplementsQueue
  StopReturns
