CONSTANTS
  a = a
  b = b
  n1 = n1
  n2 = n2
  p1 = p1
  p2 = p2
  r1 = r1
  r2 = r2
  w1 = w1
  w2 = w2
  t1 = t1
  t2 = t2
  t3 = t3
  None = None
  NoLimit = NoLimit
  Modes = {"task lock", "crowded task lock", "policies", "rate limiter", "bulkhead", "shield", "health", "duplicate filter"}
  Configs <- MCConfigs
  Styles = {"async", "sync", "attempts", "sync_attempts"}
  Message <- MCMessage
  Cause <- MCCause
  Seconds = 2
  BaseDelay = 1
  MaxDelay = 3
  MaxTime = 5
  Null = Null
  Callers = {a, b}
  MaxReconfigures = 1
  Workers = {w1, w2}
  Coroutines = {t1, t3}
  Threads = {t2}
  WorkerOf <- MCWorkerOf
  MinHolds = {2, 3}
  Lease = 3
  LeaseTime = 4
  MaxEntries = 1
  MaxFaults = 1
  RateLimits = {1, 2}
  Ticks = 2
  TicksPerSecond = 2
  MinPoll = 1
  Adapters = {"memory", "redis", "threads", "postgres", "sqlite"}
  Kinds = {"token_bucket", "sliding_window"}
  LimiterTime = 2
  MaxSince = 1
  MaxWait = 2
  MaxEvents = 1
  PermitLimits = {1, 2, Null}
  Waits = {TRUE, FALSE}
  PoolWorkers = {1, Null}
  Items = 2
  MaxNesting = 2
  MaxFailures = 1
  Rates = {1, 2}
  InitialRate = 2
  Unit = 2
  Burst = 3
  Capacity = 1
  InitialTimeout = 1
  ClampMin = 1
  ClampMax = 2
  SampleWindow = 1
  BackoffScale = 1
  BackoffCap = 1
  Recoveries = {{"cache"}}
  MaxAttempts = 2
  ShieldTime = 1
  Names = {n1, n2}
  Providers <- MCProviders
  ShortName <- MCShortName
  Checkless = {p2}
  ThreadChecks = {n2}
  CheckTTLs = {0, 1}
  Timeout = 1
  CheckTime = 1
  MaxRuns = 2
  Records = {r1, r2}
  KeyOf <- MCKeyOf
  FilterConfigs <- MCFilterConfigs
  LogTime = 3
  MaxRecords = 6
SPECIFICATION MCSpec
INVARIANT PolicyTypes
INVARIANT LimiterKeepsItsRate
INVARIANT RetriesStayInBudget
INVARIANT PermitsConserved
INVARIANT ShieldHoldsBack
INVARIANT ChecksFold
INVARIANT FloodsAreReminded
PROPERTY MinHoldSeparation
SYMMETRY CallerSymmetry
CHECK_DEADLOCK FALSE
