CONSTANTS
  Relays = {r1, r2}
  Nobody = Nobody
  Capable = {r1, r2}
  Messages = {m1, m2, m3}
  Twins = {m1, m2}
  MaxAttempts = 2
  BatchSize = 2
  Concurrency = 2
  Keep = TRUE
  MaxRedrives = 1
  MaxFaults = 2
  MaxEvents = 3
SPECIFICATION MCSpec
INVARIANT OnlyLatestSettles
INVARIANT RunsWithinBudget
INVARIANT DeliveredMeansHandled
INVARIANT SkippedHasTwin
PROPERTY TerminalIsFinal
PROPERTY EventuallySettled
CHECK_DEADLOCK FALSE
