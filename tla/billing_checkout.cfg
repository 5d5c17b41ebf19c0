SPECIFICATION Spec
CONSTANTS
  Customers = {c1, c2}
  Sessions = {s1, s2}
  Legacy = {}
  Events = {e1, e2}
  Requests = {r1, r2}
  c1 = c1
  c2 = c2
  s1 = s1
  s2 = s2
  e1 = e1
  e2 = e2
  r1 = r1
  r2 = r2
  Ops <- AllOps
  None = None
INVARIANTS
  TypeOK
  PaymentsReachOrg
PROPERTIES
  NoDoubleBilling
  MirrorSpec
SYMMETRY Symmetry
CHECK_DEADLOCK FALSE
