SPECIFICATION Spec
CONSTANTS
  a = a
  b = b
  c = c
  d = d
  e = e
  w1 = w1
  q1 = q1
  q2 = q2
  Torn = Torn
  Gone = Gone
  NoSession = NoSession
  First = a
  Configs <- MCConfigs
  Buildable <- MCBuildable
  Signature <- MCSignature
  Bootstrap <- MCBootstrap
  Capacity <- MCCapacity
  Workers = {w1}
  Resolves <- MCResolves
  MaxPools = 3
  MaxSaves = 2
  MaxExits = 1
INVARIANTS ResourceInv  StoreHasCapacityInForce SessionsAreRight
SYMMETRY Symmetry
CHECK_DEADLOCK FALSE
