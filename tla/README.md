# Verification of the production control service

TLA+ modules, TLC configurations and TLAPS proofs for the service in
`src/production_control`: a FastAPI application over one SQLite file that records
what happens to every unit of a LOT, forecasts when the LOT will be finished, and
lets a manager replace the production plan when the forecast says it will be late.

Contents: [system](#the-system) · [hard behaviours](#what-is-hard) ·
[modules](#modules-and-the-code) · [runs](#runs) · [proofs](#proofs) ·
[disagreements with the code](#disagreements-found) · [limits](#what-is-not-modelled) ·
[plan](#plan)

## The system

| component | code | state it keeps | operations | modelled in |
|---|---|---|---|---|
| WorkEvent core | `core/execution_state.py` | none (a snapshot is passed through) | `apply_work_event`: one event on one attempt | `WorkEvents` |
| WorkEvent service | `persistence/execution_service.py`, `POST /work-events` | `unit_operation`, `work_attempt`, `work_event` | `persist_work_event`: validate, record, stage rework | `Execution`, `ExecutionAtomic` |
| Plan lifecycle | `persistence/plan_lifecycle.py`, `replan_approval.py`, `POST /replan-approvals` | `schedule_plan`, `schedule_task` | approve a candidate as the next version | `PlanLifecycle`, `PlanHistory` |
| Replan candidates | `persistence/replan_candidates.py`, `core/replan_policy.py`, `replan_orchestrator.py`, `candidate_evaluator.py`, `dynamic_priority.py` | none | when to build candidates, how each rule ranks, which to recommend | `ReplanCandidates`; the policy also in `PlanLifecycle` |
| LOT and gate administration | `persistence/admin_management.py`, `PATCH /lots`, `PATCH /inspection-gates` | `lot`, `inspection_gate`, `unit_operation.eligible_at` | change mutable columns, D060 synchronisation | `LotAdmin` |
| Execution projection | `persistence/execution_projection.py` | none | order and blocking of a unit's attempts | `ExecutionProjection` |
| Forecast inputs, pace | `persistence/forecast_input_bundle.py`, `rework_scheduler_adapter.py`, `pace_snapshot.py`, `core/pace_*.py` | none | operations and durations to be scheduled, WAIT | `ForecastInputs` |
| External steps | `persistence/external_step_barrier.py` | `lot_external_step` | dates of another team's steps, the full bundle | `ExternalSteps` |
| Gate risk, forecast result | `persistence/forecast_result.py`, `core/risk_engine.py` | none | dates of gates; NORMAL, WARNING, URGENT | `GateForecast` |
| Event-driven scheduler | `core/event_scheduler.py`, `slot_engine.py`, `resource_engine.py`, `calendar_engine.py`, `persistence/plan_dispatch.py` | the simulation's clock, slots and allocations | schedule operations over finite capacity | `EventScheduler`, `Slots`, `WorkCalendar`; the orders of dispatch in `ReplanCandidates` |
| Materialization, demo runtime | `persistence/materialization.py`, `demo/`, `api/runtime.py` | the database file | `init_db` with and without `--reset`, the server's start | `DemoRuntime` |
| Schema, API models | `persistence/models.py`, `api/` | – | rows and requests | as state and inputs of the modules above |
| Sequential scheduler, routing lookups, dashboard | `core/finite_scheduler.py`, `core/routing_engine.py`, `ui/` | – | – | [not modelled](#what-is-not-modelled) |

How they interact: the shop-floor terminal posts work events; the service writes them
and the rows they imply in one transaction. The dashboard polls `GET /forecast`, which
reads the current plan, the execution state and the calendar, simulates the remaining
work and rates each gate. When the rating is URGENT, the manager asks for candidates
and approves one with `POST /replan-approvals`; the server recomputes it from the
database and stores a new plan version. Administrators change release and due dates
meanwhile. Nothing is shared in memory: components meet only in the database.

### Concurrency assumptions

All modules with sessions rest on the same reading of the libraries, and on nothing
stronger:

* FastAPI runs the synchronous endpoints in a thread pool, each request with its own
  SQLAlchemy `Session` (`api/app.py:54`). Requests interleave at every statement.
* The engine is pysqlite with its default transaction handling (`database.py:20`): a
  SELECT outside a transaction sees the latest commit and holds nothing afterwards. The
  first INSERT or UPDATE takes SQLite's single write lock, kept until COMMIT; a session
  that waits too long for it gets `OperationalError`, which no endpoint catches: 500
  (`BusyTimeout`).
* SQLAlchemy writes the columns whose value differs from the loaded one
  (`Execution!Column`, `LotAdmin!Changed`); it does not check that the row is unchanged.
* A process may die at any time; SQLite then rolls the open transaction back (`Crash`).
* Clients lose answers and repeat requests.

## What is hard

`PROJECT.json` lists every hazard at its line. In short: requests are decided on reads
that are stale when they write; an approval reads the current plan four times while
others commit; a rework loop runs through two operations and their attempt histories;
retries arrive after their attempt was superseded; a scheduler simulates work that has
half happened, in an order that ranks of LOTs, ranks of tasks and tie-breaks decide
together; a database is initialised in several commits and served by whoever finds it.
The tests send one request at a time and reach none of this.

What makes each component correct:

* *work events*: an event is recorded once or not at all, together with everything it
  implies; attempts are never lost or rewritten; a failed test always leads to a rework
  and a retest that name it; time on hold does not count; no operation gets stuck.
* *plans*: plans form a line of versions that nothing rewrites; there always is one
  current plan; a stored plan is computed from its parent and from a fresh state; an
  approved candidate is what the next forecast dispatches.
* *administration*: release and eligibility agree until work begins and are fixed after;
  independent changes do not undo each other.
* *forecast*: every open attempt has its place, no minutes are lost, nothing waits or is
  released without its cause, dates and risks follow from the schedule.
* *scheduler*: no capacity is exceeded, precedence, buffers and working time are
  respected, nothing waits that could run, and every operation is scheduled.
* *demo runtime*: a server never works on a half-built database, and nothing is deleted
  that nobody asked to delete.

## Modules and the code

Three groups compose: `WorkEvents` → `ExecutionAtomic` → `ExecutionProjection` →
`ForecastInputs` → `ExternalSteps` → `GateForecast` follows the shop floor into its
forecast; `WorkCalendar` → `Slots` → `EventScheduler` → `ReplanCandidates` simulates and
replans; `LotAdmin` → `DemoRuntime` administers and hosts. `Execution` refines
`ExecutionAtomic`, `PlanLifecycle` refines `PlanHistory`.

**`WorkEvents`** – operators only. `Legal(snap, ev, process)` is the absence of every
`ValueError` in `apply_work_event`; `After(snap, ev)` is the snapshot it returns. Minutes
are integers, a reason is present or absent.

**`ExecutionAtomic`** – the promise of `persist_work_event`: `Accept(r)` judges an event
on the state left by the events before it and applies it in one step, rework included.

**`Execution`** – the same service as it runs. A session goes through
`Receive → ReadOperation → ReadAttempt → ReadEvents → ReadExisting → Commit`, one step per
SELECT; `RefuseRework` and `Collide` are the writes that fail (a `ValueError` while the
rework is staged, a duplicate primary key), followed by `BusyTimeout` and `Crash`. `opRead`, `attRead`, `evRead`
are the session's stale copies. `PROPERTY OneAtATime` says that with one session it
implements `ExecutionAtomic` under the identity mapping of the tables.

**`ExecutionProjection`** – `project_unit_execution_order` as operators on the rows of
`ExecutionAtomic`: every state of the service is projected. `Order` inserts the rework groups
in the order of their causes, `Traced` is the absence of every `ValueError` of
`_rework_groups`, `SchedulerCurrent` is what a forecast gets to schedule.

**`ForecastInputs`** – on top of it, the bundle of one LOT at an instant: `Pace` is a process's
mean over its first attempts, or the standard while samples are few, and the work that is left
of its budget; `Bundle` is the outcome of `build_internal_lot_forecast_inputs`, `READY` with an
item for each open attempt, `WAIT`, or `ValueError` once a rework has been started. Minutes are
exact: `Grain` is chosen so that means and shares are whole. `hold_remaining_minutes` and
`expected_remaining_minutes` are read by the code but no service ever writes them, so a held
unit takes the standard and a unit beyond its pace waits.

**`ExternalSteps`** – the LOT's `lot_external_step` rows. `Save` states dates, `Finish` is the
actual finish or else the expected one, `FullReleases` is what
`build_full_lot_forecast_inputs` makes of the bundle: the release of each item behind the
steps that are dated, or nothing until all of them are. A missing row and a row without dates
are one. `GET /forecast` hands the bundle its `as_of`; the full bundle takes none
(`external_step_barrier.py:283`), so it does not count a segment that is still running (`Active`).
The paces are the caller's in both cases.

**`GateForecast`** – `evaluate_persisted_forecast` for a schedule of those items: which units
cover a gate's step (`Settled`, or scheduled), which external step dates it, its slack and
risk, and the LOT's end and risk. Schedules are not computed here: every schedule is taken in
which each item ends one or two instants after it can begin.

**`PlanHistory`** – the promise of `plan_lifecycle.py`: a line of approved versions, each
derived from the last.

**`PlanLifecycle`** – `approve_replan_candidate`: `CheckParent → ReadPlan → CheckClock →
Forecast → ReadBase → BuildCandidate → Confirm → Write`. Each of the four calls of
`load_current_approved_plan` is a step (`CheckParent`, `ReadPlan`, `ReadBase`, `Confirm`),
so is the read of the newest event, and each of the two computations. Forecast
numbers are replaced by any outcome (`WAIT` or a risk level); what is kept is which
LOT × step tasks are open, which plan they are matched against, and the two refusals that
depend on them (`Forecastable`). The shop floor is a stage for each step of a unit, the summary of
what `Execution` does when served serially: TUNING and FINAL_TEST, and SHIPPING for any step behind
the test, which is blocked between a failed test and the staging of its retest (`Blocked`), so that a
plan approved meanwhile has no task for it. Reports may come in any order of steps, as the service
accepts them; `stranded` is the unit of run `stranded`. A step ahead of the tuning is open until it is
done, as the first attempt of the test is, and is left out. The refinement of
`PlanHistory` maps its `plans` to `Line`, the plans up to the first that does not descend
from the one before it. With the identity mapping it would fail as soon as two approvals
race; with `Line` it says how far the promise is kept, in every behaviour.

**`LotAdmin`** – `update_lot` and `update_inspection_gate`: `Load → CheckWork → Sync →
Commit`. The autoflush inside `_sync_lot_operation_eligibility` is what takes the lock
early, and only if the release differs from the loaded one. A PATCH is a function on the
columns it names, as `model_fields_set` is. A row that was never seeded is `None`. `early`
is a history variable, read by the properties only: whose PATCH arrived before work began.

**`DemoRuntime`** – `init_db` and `create_demo_app` over `LotAdmin`: `Run → Check → Open →
Stage ... Stage`, one `Stage` for each commit of `initialize_demo_database`, `Fail` for an
exception in a stage and `Kill` between any two. `Cleaned` is where the code differs: an
exception in `create_schema`, which is called before the `try`, leaves the file. `Start` asks
no more than that the file exists. The server then serves `LotAdmin` (`Served`) until it is
stopped or dies. The operator starts the server when `init_db` has ended and stops it before
a reset, as README.md:52 has it.

**`WorkCalendar`**, **`Slots`** – operators: the weekly calendar and the splitting of work at
closing times; `can_allocate` and the search for the earliest slot. The search is a
recursive function that jumps from conflict to conflict, as the code does; `Fits` and
`Worked` say instant by instant what a slot is, and are what the properties use. Instants
and durations are integers, quantities and capacities are the code's. The bound of 10,000 jumps per
search is left out.

**`EventScheduler`** – `schedule_operations_event_driven`. One turn of the loop is `Decide`
(which operations are ready), then `Continue` for each running and `Dispatch` for each other
ready operation, then `Advance` to the next event, or `Finish`. The ways a call can raise are
phases: `refused` (a buffer on the first step, `ValueError`), `stopped` (a running operation
that cannot go on, `RuntimeError`) and `stuck` (no event left, `RuntimeError`). The order of
dispatch is left to the caller. No caller passes `initial_allocations`, so there are none.
An operation has a routing step (`StepOf`, `step_seq`) and a place in the order of its unit (`SeqOf`,
`precedence_seq`). They differ once a unit is reworked: its rework and retest stand behind its failed
test, where the other units have later steps. Predecessors and buffers go by places, as in the code,
tasks by steps.

**`ReplanCandidates`** – the callers. `POST /replan-candidates` is five calls of the scheduler:
`caller` is `LIVE` in the order of the approved plan, then each rule of `Rules` in turn when a
gate is `Urgent` (`Evaluate`, `Build`); `Approve` makes a candidate's `Ranks` the plan and calls
once more, as `AGAIN`. `Compare` holds the four rules with the recomputation of slack and
remaining minutes at each decision, `Preferred` and `InTurn` the tie-breaks of
`plan_dispatch.py` and `dispatch_builder.py`. CR is compared by cross-multiplication, in
integers. Caller `ANY` dispatches in any order. A candidate keeps its `order` and `slots`, which the
answer of the code sums up as its tasks; `ApprovedOrderKept` reads them, and no action does. A task is a
routing step of a LOT (`KeyOf`): a first test and a retest of two units are one task, with one rank.
`NoInversion` speaks of the operations that were ready at the decision (`WasReady`): one whose buffer is
released by a start of the same turn waits for the next decision, whatever its priority.

**`...Proofs`** – theorems: `AtomicProofs` about `ExecutionAtomic`, `ExecutionProofs` about
`Execution`, `ForecastProofs` about `ExecutionProjection`, `ForecastInputs`, `ExternalSteps` and
`GateForecast`, `PlanProofs` about `PlanLifecycle`, `SlotProofs` about `Slots` and
`WorkCalendar`, `SchedulerProofs` about `EventScheduler` and `ReplanCandidates`, `DemoProofs`
about `DemoRuntime` with `LotAdmin`. **`Induction`** holds the facts about
induction, recursion and sums that they share.

**`MC...`** – instances for TLC: model values, the unit/operation layout, symmetry, and
for `MCExecution` start states later in a unit's life. Those states are reachable by serial
requests; starting there keeps the interleavings of two sessions within reach.

A definition named `X_Word` is a mutant: the form that `X` would take under a plausible
bug. Nothing uses it; substituting it for `X` must break a property, which shows that the
property depends on that piece of the code.

## Runs

Passing runs:

| run | asks | instance and why it is enough |
|---|---|---|
| `rounds` | do the rows equal the replayed event log, does hold time count, does the rework loop keep its order and its past, and what does the forecast make of each state? | a LOT of two units that are tuned, tested and packed, with another team's step between tuning and test. One unit has 8 events: the first 3 at any of 3 instants, so that START, HOLD, RESUME and the end can be apart, then failure, rework and the second failure (`Early`); or both are tuned, with 5 events (`Side`), enough for one to set the pace while the other is at work. The external step is over, undated, expected late, or finished otherwise than expected, and said anew at any point of a life in which packing does not begin (`Told`). Failures have a reason, tests are not held, and a life that reaches the packing has no holds. Forecasts are taken at the last instant and, while something runs, one later |
| `serial` | does the service implement `ExecutionAtomic`? can an operation get stuck? | one session, 6 events, an unknown operation id, retries, crashes |
| `concurrent` | what survives two sessions? | a unit that is new, in its test or in its rework, and every interleaving of two more events (`Room`). The last answer of an idle session is not part of the `VIEW`: nothing reads it |
| `plans_race` | what survives racing approvals, and how long is the history a line? | two sessions, three plans: both may replace the first, or one of them follow the other; one unit that is tuned, tested, repaired and shipped in any order the service accepts; reports at one instant and snapshots of it or earlier, so that a snapshot can be stale. `VIEW` leaves out what nothing reads any more: last answers, and the instant of a snapshot once it has been compared. 560,894 states |
| `scheduler` | is every schedule right, whatever the order of priority, and is a request for candidates answered with the plan it promises? | two LOTs, two workers, one test bench; days of two working instants, a closed day in between, so that work of three instants is split twice; late, running and held operations, a buffer of two and an operation that needs both workers in the 108 jobs dispatched in any order; two LOTs with gates and due dates in the 26 jobs that are replanned, from three approved plans, one of them with interleaved LOTs and a gap in its ranks; ten of them have a unit in rework or awaiting its retest beside units that are tested and packed, with and without a buffer on the packing. 12,405 states |
| `admin` | D060; do concurrent PATCHes stay apart; what do resets, failures and kills leave? | two sessions, LOT and gate, one operation, two values, concurrent work; one move of the release at a time (`OneMove`), and `init_db` only between requests (`Between`), for it refuses or resets before it touches what they touch. `VIEW` as above |

Runs that end in a violation show what the code does against what a document says; see
below. Each `.cfg` opens with the question it asks. Constants named `Max...`, `Early`, `Side`, `Named`,
the start states and the specifications and constraints of the `MC` modules are the only bounds. Two sessions are enough for every race modelled here:
each property speaks of one session's stale copy and one commit that outdates it. All
timestamps share one UTC offset.

Deadlock is checked except in the runs of `ExecutionAtomic`, where the bound on event ids
ends every behaviour, and in those of the scheduler, where the call returns.
`FairReplanSpec` assumes weak fairness of the scheduler's steps and of the request that calls
it: a function that is called goes on until it returns or raises, and a request goes from one call to the
next. Approval is not fair: a manager need not decide. Nowhere else is fairness assumed: a
client that never retries is legal, so no request is obliged to arrive.

## Proofs

The proof modules show properties of the specifications for any number of sessions and any
values of the other constants, assuming only the named ASSUMEs, which the runs evaluate.

**`ExecutionProofs`.** The invariant `IInv` is `TypeOK`, `CurrentIsLatest` and
`SessionFacts`: the attempt a session loaded still exists with the reason it had (rows
are only appended and reasons never updated), and the event it is about to write was legal
for the snapshot it read. `TypeOK` alone is not inductive: that `active_minutes` stays a
natural number needs the legality of the event (time does not run backwards), that the
current attempt exists needs `CurrentIsLatest`. Proved: `TypeCorrect`,
`CurrentAlwaysLatest`, `HistoryKept`, `RequestsAllOrNothing`, `RecordedOnce`,
`Traceable`, `NoFailureLost`. The last two rest on each other:
a fresh event_id names no attempt yet, for a rework is named after an event that is
recorded (`ReworkTraceable`), so the attempt staged with it is the only one that bears its name.

**`PlanProofs`.** `IInv` adds to `Lineage` and `RankedFromParent` what a session has read:
between `ReadBase` and `Confirm`, the base plan is the parent or has a higher version, for
it was current after the parent was, and rows never change. `Confirm` requires the parent
to be current, hence not lower than the base: they are the same plan. Proved:
`PlanTypeCorrect`, `LineageHolds`, `RanksAreTheParents`, `PlansAreKept`,
`AmbiguityIsForEver`; the refinement `HistoryUntilRace`; and `OneThreadNeverRaces`. The
refinement rests on `LineInv`: some plan ends the line, up to it version and place coincide
(`EndsWith`). A write appends to the line only if its parent is that plan and no plan
follows it; any other write comes after a race, and leaves the line as it is. With one
thread (`Single`) the session that is about to write has confirmed the last plan, so
`CurrentUnambiguous`, which run `plans_twice` refutes for two threads, holds for ever.
`FirstPassIsPlanned` bounds what run `plans_rework` finds. `FirstPassInv` says that every plan, and the
tasks a session is about to store, have all first attempts that are open (`FirstPass`), except those behind
a test that has failed: no report opens a first attempt. So what can lack a task is the rework, the retest or a step behind the test of
a unit that has failed one (`Repeated`), and `OpenWorkPlanned` holds, races or not, while no unit has.
A unit counts as one that has failed also after its retest: the steps behind the
test are missing from every plan approved while they were blocked, and nothing brings them back.

**`Induction`.** The models are full of recursive functions and of sums over sets. The provers
know neither, but they know sets and functions: `InductionOnNat`, `FiniteInduction` and
`LinearRecursion` are induction and recursion in a form that needs no operator as a parameter. A
property is given as the set of the values that have it, a recursive definition as the functions
it is made of: whether to go on, where, and what to do with the result. They follow from the
library's fact that `<` on the naturals is well-founded. `Total...` says what a sum does when
its set grows or shrinks.

**`AtomicProofs`.** `LogIsTruth` and `LoopKeepsStep`. The invariant `IInv` relates the rows to the
log: the current attempt is the last one and every event is recorded under an attempt that
exists (`Keyed`); and the row of an attempt is the replay of its events (`RowReplays`), whose last
instant is the latest of them, which says of a running attempt when it was last begun, and whose active
time is the number of instants at which the log has it being worked on. A replay over the log
with one event more is the replay over the log and one step (`LinearRecursion`). `LoopInv` adds
the roles of the attempts, and that a tuning whose test has caught up with it is complete.

With one session (the last part of `ExecutionProofs`), what it has read is what the database
holds when it writes (`Fresh`), for nobody else writes. The refinement `ServedOneAtATime` follows
step by step: reads are stutters, `Commit` is `Accept`. `NeverWedged` needs that a RUNNING
operation has an event of its current attempt that began it (`Begun`), and that event ids are used
up in order (`Numbered`).

**`ForecastProofs`.** About `ShopSpec`: any number of units, steps and external steps, any events
and any dates. `ShopInv` is `LoopInv` of `AtomicProofs` with `RowFacts` (attempt 1 is plain, the
later ones are rework; an attempt has an end exactly when its operation has left it) and
`DatesOK`. From it follow `ExternalStepsHonoured`, `LotEndCoversGates` and `LotUrgentWhenLate`: the
end of a LOT is the greatest of what it covers, and the properties read the very dates the code reads.

* Rework. `RoundInv` says that the tuning and the test of a unit go through rounds (`Rounds`): the n-th
  tuning and the n-th test name the FAIL of the (n-1)-th test, and after a failure the tuning is one ahead.
  Hence what is caused by a failure is unresolved exactly while it is the latest
  (`UnresolvedRound`), which gives `DownstreamWaits` and `GatesDated`. It needs that the
  unit is tuned and tested once, in that order (`TunedThenTested`), as the service does; a gate also
  needs that the units have the same steps (`SameRouting`), as the materialization makes them.
* Order of rework. The loop of `_insert_rework_groups` has a value for every order and every set of
  pending causes, for each turn takes one cause away (`InsertsExists`, by `LinearRecursion`, and
  `OrderUnwinds`). After each turn the attempts of the rounds up to some j have their place, the later
  rounds are pending, and exactly the next one can be placed (`UpTo`, `NextPlaced`, `NextRound`): the
  failed test it names is there, and that of no later round is. The order so far is ascending in
  `Ahead`, by step and then by round, with rework counted to the step of the test; a round goes in
  right after the test that caused it, before all of a later step, so it stays so (`InsertAscends`). So no group is left over (`ProjectionEnds`), and the rework of a failure lies
  between the failed test and the rest of the routing (`RepairsStayInPlace`).
* Retests. `CompletedReworksRetested`: a tuning that is done and still ahead of its test has a verdict
  (`AheadIsJudged`), so one that was only completed has its retest. Run `stranded` shows the other case.
* Work. `EffectiveIsLogged` equates the minutes of the rows with those of the log, and
  `SharesAreWhole` makes the division exact. The open units then share the budget in equal
  parts, rolled over as units are done: `WorkStaysConserved` and `WaitingHasCause`. Both take a
  process to be one step of the routing (`OneStepEach`): were it two, the code would share the
  whole budget of the process out twice, once over the units of each step.

These hypotheses on the layout are definitions of the models; `MCExecutionAtomic` assumes them, so
that the runs evaluate them.

**`SlotProofs`.** For every calendar with an active day and every set of bookings. `FitsMeans`: the
sweep of `can_allocate` over the starts of intervals finds the largest load, so it misses no
instant. `EarliestSlotFirst`: each jump of the search is over instants at which the operation does not
fit, by the conflict that made it jump, and the search ends, as no booking lies beyond the
last of their ends. On the way: what `WorkingSegments` returns
covers the minutes asked for, and the end of work moves with its beginning.

**`SchedulerProofs`.** For every job, calendar, set of resources and order of priority.

* `RoutingNeverBroken`: `RoutingRespected` is inductive together with `Partition` (an operation is scheduled or pending,
  never both, and the ready ones are pending) and `ReadyAreDue` (what a ready operation waits for is
  scheduled and over), which `Decide` establishes and no step of the turn disturbs.
* `BuffersHold`: the clock only moves forward (`SlotFacts`), so what has ended stays ended;
  `BInv` says that the buffers of the ready operations are released, and stay so through the turn.
* `SlotsAreSound`: `Ledger` says that at each working instant the `allocations` of a resource add
  up to the needs of what is at work, and to no more than its capacity; a slot is taken where
  `FitsMeans` says that there is room.
* `NothingWaitsInVain`: `BusyInv` says that what was tried in this turn and has not started does not fit
  now, and that nothing that waited fitted at an earlier instant: `EarliestSlotFirst` grants the one, and
  the next event is not later than the first instant at which something due would fit.
* `Replan...`: the same for every call of a request, whatever is ranked and approved.
* `NeverInverted` and `AlwaysReproducible`: `TurnInv` is about one turn: what has been tried and
  has not started does not fit, nor what goes before an operation that has started beside what
  had started until then; and preference is a strict order of the operations, in which no two tie.
* `RanksAreStarts`: `order` lists the scheduled operations in the order of their starts
  (`CallInv`), and the plan and each candidate rank every task once (`PlanInv`).
* `ApprovalIsReplayed` compares two runs of the scheduler. A schedule is `Greedy` when whoever started
  at some instant was due and fitted beside those before it, was the running operation that had
  waited longest, or had the best tie break of its task (`GreedyInv`, in every call of a request).
  `KnownInv` carries the schedule of each candidate over to the call after the approval.
  There `FollowInv` says that what has been dispatched is the beginning of the candidate's order, with
  its slots, and that the clock has not passed the next of its starts. In a turn, the next operation
  of the list is due and fits, for the same was done before it; what the plan prefers to it
  belongs to a task that is over, for the candidate went task by task; and inside its task nothing else goes
  first, for the list is greedy (`NextOfList`). The candidate and the new call decide at the same
  instants (`Instants`, `Timely`): those between two starts at which nothing starts matter as well, because
  a buffer is looked at when a decision is made. So nothing has to be assumed about buffers, which may differ
  between a rework and a first pass of one task. `SinglesAreReplayed`: with one operation to a
  task every candidate goes task by task.
* `CalculatedIfAttainable`: as long as something is pending, the earliest step of a LOT that is not over
  comes due when what runs has ended (`SomethingComes`), given that the job has the operations each
  buffer counts (`BuffersAttainable`). Run `scheduler_buffer` shows what happens otherwise.

**`DemoProofs`.** `AdminInv` says what a request rests on: the row it loaded is still there, and
one that passed the check for work, or is at work while there is none, is `early`. `FileInv`
says that nobody is served while the tool builds, that what it builds on has no work, and that
an uncut run leaves no file or all of it. Both are inductive together only, for a reset would
take the rows away under a request: it waits until the server is down. Proved: `DemoServes`,
`WorkSurvives`, `PatchesAreApplied` and `ReleaseStays`, without the bounds `OneMove` and
`Between` of the run. `ReleaseIsCopied` assumes `[]OneMove`, without which the code does not keep
it: its invariant adds that what the one mover has read is still so (`MovesFresh`).

Assumptions on constants are the named ASSUMEs of the modules; some of them are there for the
proofs: a job, the set of resources, the operations of a forecast and the external steps are finite,
the instants of a gate's due dates are on the same scale as the clock's, and, of `SchedulerAssumption`,
that a unit has one operation at a place and one of a step in a job: its current attempt is one
(`execution_projection.py:42`). How places and steps are related is left open, as is the buffer
of each operation. A process code is any string; `"NONE"` stands for no process.

Only model-checked: `RequestAnswered`, for liveness and ENABLED are out of the prover's reach.
`CalculatedIfAttainable` has its safety part: where the buffers are attainable, a call is not refused
and its clock never runs out of events.

## Disagreements found

| run | property | in short |
|---|---|---|
| `wedge` | `NotWedged` | a START judged on a superseded attempt leaves an operation nothing can stop |
| `stranded` | `ReworkReachesRetest` | PASS on a rework completes it without staging the retest |
| `plans_twice` | `CurrentUnambiguous` | two approvals of one parent leave no current plan, for ever (`NoWayBack`) |
| `plans_rework` | `OpenWorkPlanned` | a replan lacks the task of a step that a failed test reopens, and of those blocked behind it |
| `scheduler_buffer` | `ForecastCalculated` | a release buffer ignores units finished before the snapshot: no forecast |
| `external` | `LiveForecastHonoured` | the live forecast schedules work before the stored finish of the external step in front of it |

`PROJECT.json` quotes the contradicted line for each. Behaviours of the models that differ
from a contract in a smaller way, and have no run of their own:

* a retry of an event whose attempt has been superseded is answered 409
  (`Execution!ReadExisting`), where `work_event_contract.md:52` says 200;
* two events judged on one snapshot can both be accepted (`Execution!Commit`);
* an event committed between the clock check and the COMMIT of an approval goes unnoticed
  (`PlanLifecycle!CheckClock`);
* a RUNNING operation at an `as_of` outside working time, or beyond a capacity that was
  reduced, makes the scheduler raise `RuntimeError` (`EventScheduler!Continue`), which
  `GET /forecast` answers with 500;
* `live_forecast_contract.md:70` speaks of a worker-entered remaining-time estimate, but no
  service stores one: a unit beyond its pace makes the forecast wait until it is done, and a
  unit not begun waits too once the others have used up the budget (`ForecastInputs!Waits`);
* the first event of a LOT can be committed between `LotAdmin!CheckWork` and `Sync`, so that
  a release moves after work began (`ReleaseFrozen` says by whom); and of two PATCHes that move
  the release at the same time, the one whose value equals its stale copy writes the operations
  but not the LOT;
* a LOT with nothing left to schedule ends, for the forecast, with its last external step,
  although gates of its finished work may be dated later: `EndCoversGates` holds while work is
  left;
* the order of an approved candidate need not be kept, nor its key figures, where the candidate
  went back and forth between tasks: `event_scheduler.py:331` has the live forecast "preserve an
  already-approved operation order", but the plan holds only the first dispatch of each task. Let a
  LOT have two units with steps a and b, two minutes each on one worker, and a second LOT one
  operation e elsewhere, released at minute 3. A rule ranks LOTs, and dispatches a1, b1, a2, b2:
  first a at 0, b at 2, e at 3. Ranked in that order, the live forecast does a1, a2 first and begins b
  at 4, after e. `ApprovedOrderKept` is what holds: for candidates that go task by task (`TaskByTask`);
* with negative time left, CR prefers the LOT with less work left;
* README.md:71 has the runtime refuse a database that is not initialised, but it only asks for
  the file: after a kill, or an exception in `create_schema`, it serves a part of one. That is
  why `ServedComplete` excepts runs that were `cut`.

## What is not modelled

* Floating-point rounding and the text of messages. SLACK and CR add up minutes in the order of a set of
  strings (`replan_candidates.py:175`); a tie that rounding breaks differently from one process
  to the next is no tie in the model, whose minutes are integers.
* Timestamps of different UTC offsets. They are stored as text with their own offset
  (`types.py:26`) and compared as text by ORDER BY, so mixed offsets would let an older event
  pass for the newest in `pace_snapshot.py:45` and `live_forecast.py:91`, and another gate for the next in
  `replan_candidates.py:122`.
* `PlanLifecycle` keeps the outcome of a forecast only; it may take any, so its properties hold
  for whatever the scheduler computes. In the same way `GateForecast` takes schedules that
  `EventScheduler` need not produce.
* A forecast reads several rows with several SELECTs; `Forecast` and `BuildCandidate` take
  them as one look at the shop floor. Work that commits between those SELECTs may mix two
  states in the tasks of one candidate. The properties of `PlanLifecycle` do not depend on
  it: tasks are matched against the base plan whatever state they come from.
* Two sessions that create the row of one external step: no endpoint calls
  `save_lot_external_step_state`. Two `init_db` at once, and a reset under a running server,
  which README.md:52 tells the operator not to do.
* Field validation in the API models (422) and missing configuration (503).
* The response bodies: the row that `update_lot` refreshes after COMMIT may already show
  a later change.
* Code that no service calls: `finite_scheduler.py` (the types it shares with the event-driven
  scheduler are modelled there), `routing_engine.py`, `external_lead_time.py`,
  `mixed_routing_state.py`, `materialize_final_test_rework`, the dispatch objects of
  `rework_core.py`. The dashboard shows what the API returns and keeps no state.

## Plan

The order in which the project was built, and what would come next:

1. `Execution`, `PlanLifecycle`, `LotAdmin` with their abstract specifications, runs and proofs.
2. `WorkCalendar`, `Slots`, `EventScheduler`: the simulation behind every forecast.
3. `ExecutionProjection`, `ForecastInputs`, `ExternalSteps`, `GateForecast` over the rows of
   `ExecutionAtomic`.
4. `ReplanCandidates` over the scheduler, `DemoRuntime` over the administration.
5. Next: the bundle's items as a job of `EventScheduler`, and its result as the schedule of
   `GateForecast`; timestamps with two offsets.
