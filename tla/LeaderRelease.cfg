CONSTANTS
  Chosen = {"leader"}
  Tokens = {t1, t2}
  NoToken = NoToken
  Idle = Idle
  Closer = Closer
  MaxDuration = 2
  MaxFence = 3
  MaxTime = 3
  MaxOpens = 1
  MaxVersion = 3
  RedisDuration = 5
  TicksPerMs = 2
  RedisTime = 8
  SQLiteDuration = 3
  TicksPerSecond = 2
  SQLiteTime = 5
  LeaseDuration = 1
  LeaseSecond = 1
  LeaseTime = 2
  ElectionAdapters = {"memory", "redis", "postgres", "kubernetes"}
  Skews <- MCSkews
  LeaderDuration = 2
  LeaderSecond = 2
  CancelAt = {"upsert"}
SPECIFICATION MCSpec
PROPERTY ReleasesOnlyItsOwn
CHECK_DEADLOCK FALSE
