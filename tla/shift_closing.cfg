SPECIFICATION FairSpec
CONSTANTS
  Volunteers = {u1}
  Shifts = {s1, s2}
  Requests = {r1}
  u1 = u1
  s1 = s1
  s2 = s2
  r1 = r1
  NoOne = NoOne
  Capacities = {1}
  Times = {0, 1}
  MaxDuration = 2
  MaxNow = 2
  CronBatch = 1
  Ops <- ClosingOps
PROPERTIES
  EndedShiftsClose
CHECK_DEADLOCK FALSE
