SPECIFICATION FairSpec
CONSTANTS
  Customers = {c1}
  Sessions = {}
  Legacy = {l1}
  Events = {e1, e2}
  Requests = {r1, r2}
  c1 = c1
  l1 = l1
  e1 = e1
  e2 = e2
  r1 = r1
  r2 = r2
  Ops = {"change", "webhook"}
  None = None
INVARIANTS
  SettledPlanIsExact
PROPERTIES
  PlanCatchesUp
CHECK_DEADLOCK FALSE
