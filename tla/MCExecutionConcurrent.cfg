\* Two request threads over one unit: new, in its test, or in its rework.
SPECIFICATION AnySpec
CONSTANTS
  tuning = tuning
  test = test
  s1 = s1
  s2 = s2
  Sessions = {s1, s2}
  Ops = {tuning, test}
  RequestOps = {tuning, test}
  UnitOf <- Unit
  ProcessOf <- Process
  MaxEvents = 7
  MaxTime = 2
  None = None
VIEW Unanswered
SYMMETRY AnySession
ACTION_CONSTRAINT AnyStep
INVARIANTS TypeOK EventRecordedOnce CurrentIsLatest FailureReworked ReworkTraceable
PROPERTIES AllOrNothing AttemptsKept
