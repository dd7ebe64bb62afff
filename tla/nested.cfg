SPECIFICATION Spec
CONSTANTS
  c1 = c1
  c2 = c2
  long = long
  mid = mid
  end = end
  ping = ping
  pong = pong
  Calls = {c1, c2}
  Sigs <- MCSigs
  Asks <- MCAsks
  Leads <- MCLeads
  MaxDepth = 3
  QueueSize = 2
  MaxGen = 2
  MaxQueries = 1
  MaxLogs = 2
INVARIANTS CallInv SameAsLocal WaitersWillBeAnswered
PROPERTIES EveryCallEnds
CHECK_DEADLOCK FALSE
