SPECIFICATION Spec
CONSTANTS
  Rows = {x1, x2}
  Applications = {a1, a2}
  Opportunities = {o1}
  Shifts = {s1}
  Requests = {r1, r2}
  x1 = x1
  x2 = x2
  a1 = a1
  a2 = a2
  o1 = o1
  s1 = s1
  r1 = r1
  r2 = r2
  For <- Same
  Ops <- AllOps
  None = None
INVARIANTS
  TypeOK
  RefusedIsOffRoster
  DeclinedIsNotBound
  RosterInv
PROPERTIES
  RefusedIsNotScheduled
  ApprovedIsRostered
SYMMETRY Symmetry
CHECK_DEADLOCK FALSE
