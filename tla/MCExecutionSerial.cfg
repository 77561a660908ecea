\* Requests served one at a time.
SPECIFICATION Spec
CONSTANTS
  tuning = tuning
  test = test
  s1 = s1
  Sessions = {s1}
  Ops = {tuning, test}
  RequestOps = {tuning, test, 0}
  UnitOf <- Unit
  ProcessOf <- Process
  MaxEvents = 6
  MaxTime = 0
  None = None
INVARIANTS NotWedged
PROPERTIES OneAtATime
