SPECIFICATION Spec
CONSTANTS
  Volunteers = {u1, u2}
  Shifts = {s1, s2}
  Requests = {r1}
  u1 = u1
  u2 = u2
  s1 = s1
  s2 = s2
  r1 = r1
  NoOne = NoOne
  Capacities = {1}
  Times = {0, 1, 2}
  MaxDuration = 2
  MaxNow = 0
  CronBatch = 1
  Ops <- ScheduleOps
INVARIANTS
  TypeOK
  NoDoubleBooking
SYMMETRY Symmetry
CHECK_DEADLOCK FALSE
