SPECIFICATION FairSpec
CONSTANTS
  Calls = {a, b, c, d}
  ErrorThreshold = 2
  SuccessThreshold = 2
  HalfOpenCapacity = 2
  ResetTimeout = 2
  StateTtl = 2
  TtlFactor = 2
  IdleTtl = 2
  Lapses = TRUE
  MaxErrors = 5
  MaxAborts = 2
  MaxOps = 2
INVARIANTS ProbesBounded OpenOutlivesCoolDown
PROPERTY HoldIsKept Recovers
