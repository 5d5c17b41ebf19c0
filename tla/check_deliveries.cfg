SPECIFICATION FairSpec
CONSTANTS
  Volunteers = {u1}
  Checks = {c1, c2}
  Events = {e1, e2}
  Requests = {r1, r2}
  u1 = u1
  c1 = c1
  c2 = c2
  e1 = e1
  e2 = e2
  r1 = r1
  r2 = r2
  NoOne = NoOne
  Provider = "STERLING"
  WaitingPeriod = 0
  MaxNow = 0
  Ops <- DeliveryOps
INVARIANTS
  ResultReachesCheck
PROPERTIES
  EventsAnswered
CHECK_DEADLOCK FALSE
