\* Whole LOTs in any order of dispatch, and requests for a new plan.
SPECIFICATION FairReplanSpec
CONSTANTS
  a1 = a1
  a2 = a2
  b1 = b1
  b2 = b2
  c = c
  d = d
  e = e
  p1 = p1
  p2 = p2
  rework = rework
  retest = retest
  repack = repack
  worker = worker
  tester = tester
  Ops = {a1, a2, b1, b2, c, d, e, p1, p2, rework, retest, repack}
  LotOf <- Lots2
  UnitOf <- Units
  StepOf <- Steps
  SeqOf <- Places
  Resources <- Resource
  Capacity <- Pool
  Need <- Requirements
  Jobs <- EveryJob
  Replanned <- ReplannedJobs
  ReleaseAt <- Released
  DueDate <- DueDates
  Gates <- PendingGates
  Plans <- Approved
  None = None
  DayLength = 4
  WorkStart = 1
  WorkEnd = 3
  ActiveWeekdays = {0, 1, 3, 4}
\* the call returns
CHECK_DEADLOCK FALSE
INVARIANTS SlotsSound RoutingRespected  NeverIdle
  Reproducible NoInversion RanksFollowStarts ApprovedOrderKept
PROPERTY RequestAnswered
