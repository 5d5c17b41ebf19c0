SPECIFICATION Spec
CONSTANTS
  Volunteers = {u1}
  Checks = {c1}
  Events = {e1}
  Requests = {r1, r2, r3}
  u1 = u1
  c1 = c1
  e1 = e1
  r1 = r1
  r2 = r2
  r3 = r3
  NoOne = NoOne
  Provider = "CHECKR"
  WaitingPeriod = 2
  MaxNow = 3
  Ops <- ReviewOps
INVARIANTS
  TypeOK
  NoticeInv
PROPERTIES
  AdverseLetterWaits
  FcraRefinement
SYMMETRY Symmetry
CHECK_DEADLOCK FALSE
