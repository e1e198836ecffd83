SPECIFICATION FairSpec
CONSTANTS
  Requests = {r1, r2, r3, r4}
  Vehicles = {v1, v2}
  v1 = v1
  v2 = v2
  Workers = 2
  Connections = 2
  WorkerPlans <- TwoLocks
  AsyncPlans <- NoLock
CHECK_DEADLOCK FALSE
PROPERTY EveryRequestEnds
