SPECIFICATION FairSpec
CONSTANTS
  q1 = q1
  q2 = q2
  q3 = q3
  q4 = q4
  k1 = k1
  k2 = k2
  NoQuery = NoQuery
  Keys = {k1, k2}
  Queries <- MCQueries
  KeyOf <- MCKeyOf
  Garbled = {q4}
  Blocked = {k2}
  Redirected = {k1}
  MaxResults = 2
INVARIANTS OwnerInv FollowersAreReachable SharedAsReturned
PROPERTIES EveryQueryEnds
CHECK_DEADLOCK FALSE
