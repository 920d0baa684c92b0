CONSTANTS
  Tokens = {t1, t2}
  NoToken = NoToken
  MaxDuration = 3
  TicksPerSecond = 2
  MaxFence = 3
  MaxTime = 5
  CancelAt = {"begin", "upsert"}
SPECIFICATION Spec
PROPERTY ReleasedMeansReleased
CHECK_DEADLOCK FALSE
