SPECIFICATION Spec
CONSTANTS
  Credentials = {k1}
  Staff = {s1, s2}
  Runs = {r1}
  Digests = {d1, d2}
  Rows = {n1, n2}
  k1 = k1
  s1 = s1
  s2 = s2
  r1 = r1
  d1 = d1
  d2 = d2
  n1 = n1
  n2 = n2
  Window = 1
  Terms = {2}
  Ops <- AllOps
  NoRow = NoRow
INVARIANTS
  TypeOK
  StampedWasMailed
  NoEcho
PROPERTIES
  LapseIsAnnounced
  ToldOncePerCycle
SYMMETRY Symmetry
CHECK_DEADLOCK FALSE
