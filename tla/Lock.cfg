CONSTANTS
  Tasks = {a}
  Threads = {b}
  Tokens = {a, b}
  NoToken = NoToken
  MaxFence = 2
  Optimistic = TRUE
  MayEnd = {a, b}
  MaxFaults = 2
  FewFaults = 1
SPECIFICATION MCSpec
INVARIANT FencingTokensDistinct
 
PROPERTY PatientWaitersProgress
