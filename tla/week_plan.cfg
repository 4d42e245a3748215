CONSTANTS
  Cgis = {c1, c2}
  NoCgi = NoCgi
  Values = {1}
  AskedRequests <- AllRequests
  MaxRequests = 1
  MaxStops = 1
SPECIFICATION Spec
INVARIANTS WeekPlanIsSchedule
