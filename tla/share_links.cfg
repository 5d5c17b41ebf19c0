SPECIFICATION Spec
CONSTANTS
  Orgs = {o1, o2, o3}
  Credentials = {k1, k2, k3}
  Tokens = {t1}
  Requests = {r1, r2}
  o1 = o1
  o2 = o2
  o3 = o3
  k1 = k1
  k2 = k2
  k3 = k3
  t1 = t1
  r1 = r1
  r2 = r2
  Nobody = Nobody
  Grades = {"VERIFIED", "REVOKED"}
  Expiries = {1}
  Lifetime = 1
  MaxNow = 2
  ExpiryBatch = 1
  Ops <- AllOps
INVARIANTS
  TypeOK
  ShareListExact
PROPERTIES
  NoCopyAfterRevoke
  LinkRefinement
SYMMETRY Symmetry
CHECK_DEADLOCK FALSE
