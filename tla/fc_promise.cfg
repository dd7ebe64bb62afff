SPECIFICATION FairSpec
CONSTANTS
  r1 = r1
  r2 = r2
  r3 = r3
  r4 = r4
  k1 = k1
  k2 = k2
  NoKey = NoKey
  NoReq = NoReq
  Keys = {k1, k2}
  Requests <- MCRequests4
  KeyOf <- Keys4
  Proto <- Mixed4
  MaxReloads = 0
INVARIANTS AnswersOwnQuestion
PROPERTIES ImplementsSingleFlight
CHECK_DEADLOCK FALSE
