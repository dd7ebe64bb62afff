SPECIFICATION Spec
CONSTANTS
  u1 = u1
  u2 = u2
  u3 = u3
  outer = outer
  inner = inner
  Unknown = Unknown
  Upstreams = {u1, u2, u3}
  Groups = {outer, inner}
  Root = outer
  Parent <- MCParent
  Durations = {1, 2}
INVARIANTS TaskInv RightVerdict
PROPERTIES DispatchEnds
CHECK_DEADLOCK FALSE
