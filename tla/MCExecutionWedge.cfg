\* A stale START after the unit was sent back to tuning.
SPECIFICATION AheadSpec
CONSTANTS
  tuning = tuning
  test = test
  s1 = s1
  s2 = s2
  Sessions = {s1, s2}
  Ops = {tuning, test}
  RequestOps = {tuning, test}
  UnitOf <- Unit
  ProcessOf <- Process
  MaxEvents = 5
  MaxTime = 0
  None = None
SYMMETRY AnySession
ACTION_CONSTRAINT PlainStep
INVARIANT NotWedged
