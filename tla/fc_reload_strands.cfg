SPECIFICATION FairSpec
CONSTANTS
  r1 = r1
  r2 = r2
  r3 = r3
  r4 = r4
  k1 = k1
  k2 = k2
  NoKey = NoKey
  NoReq = NoReq
  Keys = {k1, k2}
  Requests <- MCRequests3
  KeyOf <- OneKey3
  Proto <- WithTcp3
  MaxReloads = 1
PROPERTY RunningQueriesReturn
CHECK_DEADLOCK FALSE
