SPECIFICATION FairSpec
CONSTANTS
  r1 = r1
  StopMsg = StopMsg
  Requests <- MCRequests1
  WorkerCount = 2
  QueueSize = 1
  MaxGen = 8
  MaxCrashes = 2
  MaxExits = 1
INVARIANTS ExecutionInv WaitersAreReachable StopLeavesNothing
PROPERTIES PoolStopReturns ReplacedUnlessSupervisorDied
CHECK_DEADLOCK FALSE
