CONSTANTS
  None = None
  j1 = j1
  j2 = j2
  j3 = j3
  i1 = i1
  f1 = f1
  f2 = f2
  v1 = v1
  v2 = v2
  Bad = Bad
  Unreadable = Unreadable
  Modes = {"cron task", "tasks", "config"}
  Workers = {w1, w2}
  Fires = {0, 1, 3}
  Grace = 1
  MaxTime = 3
  MaxFaults = 2
  Jobs = {j1, j2, j3}
  Kind <- MCKind
  Options <- MCOptions
  Graceful = {TRUE, FALSE}
  Instances = {i1}
  Fields = {f1, f2}
  Tracked = {i1}
  Immutable = {}
  Values = {v1, v2}
  Contents <- MCContents
  MaxSwaps = 2
  MaxCalls = 1
  MaxOpens = 1
SPECIFICATION MCSpec
INVARIANT TaskTypes
INVARIANT OneOutcomeEach
PROPERTY MissedFiresReplay
PROPERTY DrainEnds
PROPERTY ReloadsConverge
CHECK_DEADLOCK FALSE
