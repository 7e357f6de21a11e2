SPECIFICATION FairSpec
CONSTANTS
  u = u
  n = n
  m = m
  Clients <- MCOneClient
  Names <- MCNames
  MaxEdits = 2
  MaxTraffic = 2
  MaxFaults = 1
INVARIANTS AppliedIsRunning 
PROPERTIES NothingLost PendingIsApplied TrafficIsCounted
CHECK_DEADLOCK FALSE
