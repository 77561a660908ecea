\* A LOT of two units, tuned, tested and packed, each event judged on what is
\* committed: two rounds of rework, time on hold, and two units tuned together.
SPECIFICATION Lives
CONSTANTS
  tuning = tuning
  test = test
  packing = packing
  tuning2 = tuning2
  test2 = test2
  packing2 = packing2
  Ops = {tuning, test, packing, tuning2, test2, packing2}
  UnitOf <- Unit
  ProcessOf <- Process
  StepOf <- Step
  Standard <- StandardMinutes
  PaceMinSamples = 1
  Grain = 4
  External = {2}
  PlannedAt <- Plan
  WarningThreshold = 1
  MaxEvents = 8
  MaxTime = 2
  Early = 3
  Side = 5
  None = None
\* the bound on event ids ends every behaviour
CHECK_DEADLOCK FALSE
INVARIANTS LogReplays ReworkLoop
  ProjectionComplete RepairInPlace DownstreamHeld
  WorkConserved WaitsForCause FullForecastHonoured GateDated UrgentWhenLate EndCoversGates
