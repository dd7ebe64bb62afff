SPECIFICATION FairSpec
CONSTANTS
  a1 = a1
  a2 = a2
  s1 = s1
  Nobody = Nobody
  Appenders <- MCAppenders
  Sizes = {1, 2}
  Subscribers <- MCSubscribers
  MaxId = 4
INVARIANTS SleeperWillBeWoken
PROPERTIES StreamIsFaithful
CHECK_DEADLOCK FALSE
