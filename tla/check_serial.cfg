SPECIFICATION Spec
CONSTANTS
  Volunteers = {u1}
  Checks = {c1, c2}
  Events = {e1, e2}
  Requests = {r1}
  u1 = u1
  c1 = c1
  c2 = c2
  e1 = e1
  e2 = e2
  r1 = r1
  NoOne = NoOne
  Provider = "CHECKR"
  WaitingPeriod = 0
  MaxNow = 1
  Ops <- AllOps
INVARIANTS
  OneActiveCheck
PROPERTIES
  TerminalFinal
SYMMETRY Symmetry
CHECK_DEADLOCK FALSE
