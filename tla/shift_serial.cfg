SPECIFICATION Spec
CONSTANTS
  Volunteers = {u1, u2, u3, u4}
  Shifts = {s1}
  Requests = {r1}
  u1 = u1
  u2 = u2
  u3 = u3
  u4 = u4
  s1 = s1
  r1 = r1
  NoOne = NoOne
  Capacities = {1, 2}
  Times = {0, 1}
  MaxDuration = 2
  MaxNow = 1
  CronBatch = 1
  Ops <- SerialOps
INVARIANTS
  SeatsAgree
  NobodyWaitsBesideFreeSeat
PROPERTIES
  CancelledSeatIsPassedOn
  LedgerRefinement
SYMMETRY Symmetry
CHECK_DEADLOCK FALSE
