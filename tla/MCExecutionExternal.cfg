\* One unit, tuned and tested, with another team's step in between: the live
\* forecast does not wait for it.
SPECIFICATION Shop
CONSTANTS
  tuning = tuning
  test = test
  packing = packing
  tuning2 = tuning2
  test2 = test2
  packing2 = packing2
  Ops = {tuning, test}
  UnitOf <- Unit
  ProcessOf <- Process
  StepOf <- Step
  Standard <- StandardMinutes
  PaceMinSamples = 1
  Grain = 1
  External = {2}
  PlannedAt <- Plan
  WarningThreshold = 1
  MaxEvents = 2
  MaxTime = 0
  Early = 0
  Side = 0
  None = None
\* the bound on event ids ends every behaviour
CHECK_DEADLOCK FALSE
INVARIANT LiveForecastHonoured
