SPECIFICATION Spec
CONSTANTS
  Calls = {a, b}
  ErrorThreshold = 2
  SuccessThreshold = 2
  HalfOpenCapacity = 1
  ResetTimeout = 2
  StateTtl = 2
  TtlFactor = 2
  IdleTtl = 2
  Lapses = FALSE
  MaxErrors = 4
  MaxAborts = 1
  MaxOps = 0
INVARIANT ProbeSlotsAreReturned
