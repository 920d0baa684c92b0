CONSTANTS
  Workers = {w1, w2}
  Nobody = Nobody
  LeaseDuration = 3
  RenewDeadline = 2
  BackendTimeout = 1
  MaxFaults = 2
  Busy = {w1}
SPECIFICATION MCSpec
INVARIANT AtMostOneLeader
PROPERTY LeadershipRecovers
