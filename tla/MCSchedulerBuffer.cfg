\* A LOT of which some work is already finished.
SPECIFICATION Spec
CONSTANTS
  a1 = a1
  a2 = a2
  b1 = b1
  b2 = b2
  c = c
  worker = worker
  tester = tester
  Ops = {a1, a2, b1, b2, c}
  LotOf <- Lot
  UnitOf <- Unit
  StepOf <- Routing
  SeqOf <- Routing
  Resources <- Resource
  Capacity <- Pool
  Need <- Requirement
  Jobs <- BegunLot
  None = None
  DayLength = 4
  WorkStart = 1
  WorkEnd = 3
  ActiveWeekdays = {0, 1, 3, 4}
\* the call returns
CHECK_DEADLOCK FALSE
INVARIANT ForecastCalculated
