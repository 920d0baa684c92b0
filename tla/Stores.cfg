CONSTANTS
  None = None
  a = a
  b = b
  p = p
  q = q
  k1 = k1
  k2 = k2
  k3 = k3
  x = x
  y = y
  redis = redis
  pg = pg
  o1 = o1
  o2 = o2
  coord = coord
  cache = cache
  log1 = log1
  log2 = log2
  owner1 = owner1
  owner2 = owner2
  fake1 = fake1
  fake2 = fake2
  dcoord = dcoord
  dcache = dcache
  Modes = {"cache store", "ttl cache", "cached", "idempotency", "http", "install", "app"}
  Callers = {a, b}
  Procs = {p, q}
  Homes <- MCHomes
  CacheKeys = {k1, k2}
  Tags = {x, y}
  Adapters = {"memory", "redis", "postgres", "sqlite"}
  TTLs = {1, 2}
  JanitorAge = 1
  CacheTime = 4
  Payloads = {x, y}
  Distributed = {TRUE, FALSE}
  TTL = 2
  Margin = 1
  BlockTime = 3
  MaxBlocks = 3
  Decorations <- MCDecorations
  MaxSource = 1
  MaxCalls = 2
  MaxLosses = 1
  RequestKeys = {k1}
  Settings <- MCSettings
  Bodies <- MCBodies
  Chunks = {x}
  MaxChunks = 3
  MaxRequests = 2
  TrackedKeys = {k1, k2, k3}
  MaxSize = 1
  MaxTracked = 3
  Apps = {a, b}
  Others = {o1, o2}
  MaxMiddlewares = 4
  Tasks = {p, q}
  Providers = {redis, pg, o1, o2}
  Components <- MCComponents
  Key <- MCKey
  Singletons = {"log"}
  Globals = {log1, log2}
  Backends <- MCBackends
  Pool <- MCPool
  Defaults <- MCDefaults
  Uses <- MCUses
  Strict = {TRUE, FALSE}
  AllowMultiple = FALSE
  Fakes = {fake1, fake2}
  MaxFailures = 1
  MaxOverrides = 2
SPECIFICATION MCSpec
INVARIANT StoreTypes
INVARIANT OverflowBounded
 
 
INVARIANT ReplayIsWhole
INVARIANT AllWithinTheBinding
INVARIANT BorrowedIsOpen
INVARIANT TagsCover
CHECK_DEADLOCK FALSE
