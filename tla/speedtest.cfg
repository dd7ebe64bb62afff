SPECIFICATION Spec
CONSTANTS
  r1 = r1
  r2 = r2
  u1 = u1
  u2 = u2
  u3 = u3
  x = x
  y = y
  Inf = Inf
  NoRtt = NoRtt
  Raised = Raised
  Missing = Missing
  Requests = {r1, r2}
  Upstreams = {u1, u2, u3}
  Owner <- MCOwner
  IPs = {x, y}
  Offers <- MCOffers
  Rewrites <- MCRewrites
  Collects = {r1}
  Exemptions = {{}, {u2}}
  ProbeCount = 2
  Rtts = {fast}
  fast = fast
  MaxConcurrency = 1
  MaxExpiries = 1
  MaxAborts = 1
INVARIANTS ProbeInv DurationsAreFounded NoWaitOnCancelled
PROPERTIES RepliedRequestsEnd
CHECK_DEADLOCK FALSE
