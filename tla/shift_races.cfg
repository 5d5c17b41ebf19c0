SPECIFICATION Spec
CONSTANTS
  Volunteers = {u1, u2, u3}
  Shifts = {s1}
  Requests = {r1, r2}
  u1 = u1
  u2 = u2
  u3 = u3
  s1 = s1
  r1 = r1
  r2 = r2
  NoOne = NoOne
  Capacities = {1}
  Times = {0, 1}
  MaxDuration = 2
  MaxNow = 1
  CronBatch = 1
  Ops <- RacingOps
INVARIANTS
  BookingInv
  NoLockCycle
PROPERTIES
  AttendanceNeedsConfirmedSeat
  PromotionIsFifo
SYMMETRY Symmetry
CHECK_DEADLOCK FALSE
