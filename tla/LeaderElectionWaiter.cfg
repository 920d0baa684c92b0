CONSTANTS
  Workers = {w1}
  Nobody = Nobody
  LeaseDuration = 3
  RenewDeadline = 2
  BackendTimeout = 1
  MaxFaults = 0
SPECIFICATION FairSpec
PROPERTY WaiterIsWoken
