--------------------------- MODULE PlanLifecycle ----------------------------
(***************************************************************************)
(* POST /replan-approvals: approve_replan_candidate                          *)
(* (persistence/replan_approval.py) run by several request threads while the *)
(* shop floor goes on reporting.                                            *)
(*                                                                         *)
(* The service recomputes the candidate the manager chose and stores it as   *)
(* the next approved plan.  It reads the current plan four times and the     *)
(* execution state twice; each SELECT sees the latest commit, and only the   *)
(* final INSERTs and their COMMIT are one transaction.                       *)
(*                                                                         *)
(* The numbers of a forecast (pace, schedule, gate slack) are abstracted to  *)
(* its outcome, any outcome; what is kept is which LOT x RoutingStep tasks   *)
(* it covers and which plan they were taken from.                           *)
(***************************************************************************)
EXTENDS Integers, Sequences

CONSTANTS
  Sessions,      \* request threads, each with its own database session
  Units,         \* the units on the shop floor
  LotOf,         \* the LOT of a unit
  Rules,         \* the rules a candidate is built for
  Candidates,    \* the candidate ids a client may name, known or not
  MaxPlans,      \* bound: approved plans
  MaxTime,       \* bound: the last instant a client reports
  None           \* a null reference

ASSUME PlanLifecycleAssumption ==
  /\ MaxPlans \in Nat \ {0} /\ MaxTime \in Nat
  /\ None \notin Int
  /\ Units # {} /\ Rules # {}

(* SHIPPING is any step behind the final test.  A step ahead of it is open     *)
(* until it is completed, as the first attempt of the test is: left out.     *)
Steps == {"TUNING", "FINAL_TEST", "SHIPPING"}
Lots == {LotOf[u] : u \in Units}
Keys == Lots \X Steps
Times == 0 .. MaxTime
PlanIds == 1 .. MaxPlans      \* a plan is named by its place in commit order
NoTime == -1                  \* an instant before every report

VARIABLES
  stage,         \* where a unit stands with each step: see OpenSteps
  newest,        \* the latest occurred_at of a LOT's persisted work events
  plans,         \* approved schedule_plan rows, each with its schedule_task rows
  pc,            \* what a session does next
  req,           \* the approval it serves
  seen,          \* what it read: the live plan, the base plan, the tasks
  code           \* the status code it answered, 0 while there is no response

shop == <<stage, newest>>
vars == <<stage, newest, plans, pc, req, seen, code>>

-----------------------------------------------------------------------------
(* The shop floor, as the forecast sees it: how far the current attempt of    *)
(* each step is.  Reports need not follow the routing.                       *)
(*   open, done        the first attempt; of a test, done is with a verdict   *)
(*   tested            the final test is COMPLETED, its verdict is to come    *)
(*   rework, working   a TUNING_REWORK or FINAL_TEST_RETEST, begun or not     *)
(*   redone            the TUNING_REWORK is COMPLETED, its retest staged      *)
(*   stranded          a verdict completed it, and no retest is staged (see   *)
(*                     ReworkReachesRetest)                                  *)
Stages == {"open", "done", "tested", "rework", "working", "redone", "stranded"}

(* _blocked_attempt_ids: a failed test has a rework and no retest yet.        *)
Blocked(g) == g["TUNING"] \in {"rework", "working", "stranded"}

(* The steps that a forecast has to schedule.                               *)
OpenSteps(g) ==
  {s \in Steps : g[s] \in {"open", "rework", "working"} /\ ~ (s = "SHIPPING" /\ Blocked(g))}

Ongoing == {"open", "working"}

(* What a report makes of the steps of a unit.  START, HOLD, RESUME and a late *)
(* verdict change nothing, unless a rework STARTs.                          *)
Continued(g) ==
  IF \E s \in Steps : g[s] \in Ongoing \/ (s # "FINAL_TEST" /\ g[s] \in {"done", "redone"})
  THEN {g} ELSE {}
Begun(g) == {[g EXCEPT ![s] = "working"] : s \in {s \in Steps : g[s] = "rework"}}

(* COMPLETE or a verdict; the test has its verdict at once or later.          *)
Ended(g) == {[g EXCEPT ![s] = "done"] : s \in {s \in Steps \ {"FINAL_TEST"} : g[s] = "open"}}
VerdictAfter(state) ==
  IF state \in Ongoing THEN {"tested", "done"} ELSE IF state = "tested" THEN {"done"} ELSE {}
Tested(g) == {[g EXCEPT !["FINAL_TEST"] = v] : v \in VerdictAfter(g["FINAL_TEST"])}

(* A FAIL is refused while the tuning is not COMPLETED.                      *)
Failed(g) ==
  IF g["FINAL_TEST"] \in Ongoing \cup {"tested"} /\ g["TUNING"] \in {"done", "redone"}
  THEN {[g EXCEPT !["FINAL_TEST"] = "done", !["TUNING"] = "rework"]} ELSE {}

(* A TUNING_REWORK is COMPLETED, and its retest staged, or has a verdict.     *)
Repaired(g) ==
  IF g["TUNING"] = "working"
  THEN {[g EXCEPT !["TUNING"] = "redone", !["FINAL_TEST"] = "rework"], [g EXCEPT !["TUNING"] = "stranded"]}
  ELSE {}

After(g) == Continued(g) \cup Begun(g) \cup Ended(g) \cup Tested(g) \cup Failed(g) \cup Repaired(g)

(* A work event is committed; it may have occurred earlier than one that is  *)
(* already there.                                                           *)
Later(a, b) == IF a < b THEN b ELSE a

Work(u, g, t) ==
  /\ stage' = [stage EXCEPT ![u] = g]
  /\ newest' = [newest EXCEPT ![LotOf[u]] = Later(@, t)]
  /\ UNCHANGED <<plans, pc, req, seen, code>>

-----------------------------------------------------------------------------
(* Plans                                                                    *)

Plans == 1 .. Len(plans)
Approved == {p \in Plans : plans[p].status = "APPROVED"}
Highest(p) == p \in Approved /\ \A q \in Approved : plans[q].version <= plans[p].version

(* load_current_approved_plan: the only plan with the highest version.       *)
(* Mutant: one of the plans with the highest version.                       *)
IsCurrent_AnyHighest(p) == Highest(p)
IsCurrent(p) == Highest(p) /\ \A q \in Approved : Highest(q) => q = p

LotsOf(p) == {k[1] : k \in plans[p].tasks}

(* The operations a forecast for a plan has to schedule: those of the LOTs   *)
(* the plan names.                                                          *)
Open == UNION {{LotOf[u]} \X OpenSteps(stage[u]) : u \in Units}
OpenIn(p) == {k \in Open : k[1] \in LotsOf(p)}

(* A rework that has begun and an operation without a task in the plan are   *)
(* both refused with a ValueError.                                          *)
Forecastable(p) ==
  /\ \A u \in Units : LotOf[u] \in LotsOf(p) => \A s \in Steps : stage[u][s] # "working"
  /\ OpenIn(p) \subseteq plans[p].tasks

Outcomes == {"WAIT", "NORMAL", "WARNING", "URGENT"}

(* automatic_replan_action; a forecast that WAITs is refused before it.      *)
Action(outcome) ==
  CASE outcome = "NORMAL" -> "KEEP_PLAN"
    [] outcome = "WARNING" -> "MONITOR_ONLY"
    [] outcome = "URGENT" -> "GENERATE_CANDIDATES"
    [] outcome = "WAIT" -> "NONE"

-----------------------------------------------------------------------------
(* Approvals                                                                *)

Requests == [parent : PlanIds, candidate : Candidates, asOf : Times \cup {NoTime}]
Nothing == [live |-> None, base |-> None, tasks |-> {}]

Busy(s) == pc[s] # "idle"

Receive(s, r) ==
  /\ ~ Busy(s)
  /\ pc' = [pc EXCEPT ![s] = "parent"]
  /\ req' = [req EXCEPT ![s] = r]
  /\ code' = [code EXCEPT ![s] = 0]
  /\ UNCHANGED <<stage, newest, plans, seen>>

Goto(s, step) ==
  /\ pc' = [pc EXCEPT ![s] = step]
  /\ UNCHANGED <<req, code>>

Reply(s, c) ==
  /\ pc' = [pc EXCEPT ![s] = "idle"]
  /\ req' = [req EXCEPT ![s] = None]
  /\ seen' = [seen EXCEPT ![s] = Nothing]
  /\ code' = [code EXCEPT ![s] = c]

(* Is the parent still the current plan?                                    *)
CheckParent(s) ==
  /\ pc[s] = "parent"
  /\ IF IsCurrent(req[s].parent)
     THEN Goto(s, "plan") /\ UNCHANGED seen
     ELSE Reply(s, 409)
  /\ UNCHANGED <<stage, newest, plans>>

(* build_live_forecast reads the plan it forecasts.                         *)
ReadPlan(s) ==
  /\ pc[s] = "plan"
  /\ \/ \E p \in Plans : /\ IsCurrent(p)
                         /\ seen' = [seen EXCEPT ![s].live = p]
                         /\ Goto(s, "clock")
     \/ /\ \A p \in Plans : ~ IsCurrent(p)
        /\ Reply(s, 409)
  /\ UNCHANGED <<stage, newest, plans>>

(* No work event of the plan's LOTs may be newer than the snapshot.         *)
CheckClock(s) ==
  /\ pc[s] = "clock"
  /\ IF \A l \in LotsOf(seen[s].live) : newest[l] <= req[s].asOf
     THEN Goto(s, "forecast") /\ UNCHANGED seen
     ELSE Reply(s, 409)
  /\ UNCHANGED <<stage, newest, plans>>

(* The live forecast, and the policy on its risk.                           *)
Forecast(s, outcome) ==
  /\ pc[s] = "forecast"
  /\ IF Forecastable(seen[s].live) /\ Action(outcome) = "GENERATE_CANDIDATES"
     THEN Goto(s, "base") /\ UNCHANGED seen
     ELSE Reply(s, 409)
  /\ UNCHANGED <<stage, newest, plans>>

(* build_replan_candidates reads the current plan and its tasks again, to    *)
(* rank the candidate's tasks in that plan's rank slots.                     *)
ReadBase(s) ==
  /\ pc[s] = "base"
  /\ \/ \E p \in Plans : /\ IsCurrent(p)
                         /\ seen' = [seen EXCEPT ![s].base = p]
                         /\ Goto(s, "items")
     \/ /\ \A p \in Plans : ~ IsCurrent(p)
        /\ Reply(s, 409)
  /\ UNCHANGED <<stage, newest, plans>>

(* The candidate's tasks, from the execution state of now.  A candidate id   *)
(* that names no rule is a LookupError.                                     *)
BuildCandidate(s, outcome) ==
  /\ pc[s] = "items"
  /\ IF /\ Forecastable(seen[s].base) /\ outcome # "WAIT"
        /\ seen[s].live = req[s].parent
     THEN IF req[s].candidate \in Rules
          THEN /\ seen' = [seen EXCEPT ![s].tasks = OpenIn(seen[s].base)]
               /\ Goto(s, "confirm")
          ELSE Reply(s, 404)
     ELSE Reply(s, 409)
  /\ UNCHANGED <<stage, newest, plans>>

(* persist_approved_replan: some tasks, and the parent still current.        *)
(* Mutants: the parent was checked before; a candidate may be empty.         *)
Confirmed_Before(s) == seen[s].tasks # {}
Confirmed_Empty(s) == IsCurrent(req[s].parent)
Confirmed(s) == seen[s].tasks # {} /\ IsCurrent(req[s].parent)

Confirm(s) ==
  /\ pc[s] = "confirm"
  /\ IF Confirmed(s)
     THEN Goto(s, "write") /\ UNCHANGED seen
     ELSE Reply(s, 409)
  /\ UNCHANGED <<stage, newest, plans>>

(* Mutants: versions count the rows; the version is not raised.              *)
NextVersion_Counted(parent) == Len(plans) + 1
NextVersion_Kept(parent) == plans[parent].version
NextVersion(parent) == plans[parent].version + 1

NewPlan(s) ==
  [version |-> NextVersion(req[s].parent), status |-> "APPROVED",
   rule |-> req[s].candidate, parent |-> req[s].parent, ranked |-> seen[s].base,
   tasks |-> seen[s].tasks]

(* Mutant: the parent is marked as superseded.                              *)
PlansWritten_Superseding(s) ==
  Append([plans EXCEPT ![req[s].parent].status = "SUPERSEDED"], NewPlan(s))
PlansWritten(s) == Append(plans, NewPlan(s))

Write(s) ==
  /\ pc[s] = "write"
  /\ Len(plans) < MaxPlans
  /\ plans' = PlansWritten(s)
  /\ Reply(s, 201)
  /\ UNCHANGED <<stage, newest>>

(* Another writer holds the lock for too long: OperationalError, not caught. *)
BusyTimeout(s) ==
  /\ pc[s] = "write"
  /\ Reply(s, 500)
  /\ UNCHANGED <<stage, newest, plans>>

(* The server process dies; nothing of an approval is stored before COMMIT.  *)
Crash ==
  /\ \E s \in Sessions : Busy(s)
  /\ pc' = [s \in Sessions |-> "idle"]
  /\ req' = [s \in Sessions |-> None]
  /\ seen' = [s \in Sessions |-> Nothing]
  /\ code' = [s \in Sessions |-> 0]
  /\ UNCHANGED <<stage, newest, plans>>

-----------------------------------------------------------------------------
(* A baseline plan with a task for every LOT and step, and no work yet.      *)
Init ==
  /\ stage = [u \in Units |-> [s \in Steps |-> "open"]]
  /\ newest = [l \in Lots |-> NoTime]
  /\ \E rule \in Rules :
       plans = <<[version |-> 1, status |-> "APPROVED", rule |-> rule, parent |-> None,
                  ranked |-> None, tasks |-> Keys]>>
  /\ pc = [s \in Sessions |-> "idle"]
  /\ req = [s \in Sessions |-> None]
  /\ seen = [s \in Sessions |-> Nothing]
  /\ code = [s \in Sessions |-> 0]

Serve(s) ==
  \/ CheckParent(s)
  \/ ReadPlan(s)
  \/ CheckClock(s)
  \/ \E outcome \in Outcomes : Forecast(s, outcome) \/ BuildCandidate(s, outcome)
  \/ ReadBase(s)
  \/ Confirm(s)
  \/ Write(s)
  \/ BusyTimeout(s)

Next ==
  \/ \E u \in Units, t \in Times : \E g \in After(stage[u]) : Work(u, g, t)
  \/ \E s \in Sessions : (\E r \in Requests : Receive(s, r)) \/ Serve(s)
  \/ Crash

Spec == Init /\ [][Next]_vars

-----------------------------------------------------------------------------
(* Properties                                                               *)

PlanRow ==
  [version : Nat \ {0}, status : {"APPROVED"}, rule : Rules,
   parent : Nat \cup {None}, ranked : Nat \cup {None}, tasks : (SUBSET Keys) \ {{}}]

Reading == {"parent", "plan", "clock", "forecast", "base", "items", "confirm", "write"}

(* TypeOK: every approved plan has tasks and a known rule; what a session     *)
(* works with belongs to its request.                                       *)
TypeOK ==
  /\ stage \in [Units -> [Steps -> Stages]]
  /\ newest \in [Lots -> Times \cup {NoTime}]
  /\ plans \in Seq(PlanRow) /\ plans # <<>>
  /\ pc \in [Sessions -> Reading \cup {"idle"}]
  /\ code \in [Sessions -> {0, 201, 404, 409, 500}]
  /\ req \in [Sessions -> Requests \cup {None}]
  /\ seen \in [Sessions -> [live : Nat \cup {None}, base : Nat \cup {None},
                            tasks : SUBSET Keys]]
  /\ \A s \in Sessions : Busy(s) => req[s] \in Requests

(* Lineage: however approvals race, every replan has a parent that was        *)
(* approved before it, its version is its parent's plus one, and it plans    *)
(* nothing that its parent did not plan.                                    *)
Lineage ==
  \A p \in Plans \ {1} :
    /\ plans[p].parent \in 1 .. p - 1
    /\ plans[p].version = plans[plans[p].parent].version + 1
    /\ plans[p].tasks \subseteq plans[plans[p].parent].tasks

(* RankedFromParent: the service reads the current plan four times, but a     *)
(* stored plan never mixes two of them: its ranks are those of its parent.   *)
RankedFromParent ==
  \A p \in Plans \ {1} : plans[p].ranked = plans[p].parent

(* HistoryKept: approved plans are preserved by version: no plan row is ever *)
(* changed or removed.                                                      *)
HistoryKept ==
  [][\A p \in Plans : p \in 1 .. Len(plans') /\ plans'[p] = plans[p]]_vars

(* NoWayBack: once two plans share the highest version and no approval is     *)
(* about to write, no request can ever be accepted again: every request       *)
(* reads the current plan first and is refused.                             *)
Ambiguous == \E p, q \in Plans : p # q /\ Highest(p) /\ Highest(q)
Stuck == Ambiguous /\ \A s \in Sessions : pc[s] # "write"

NoWayBack == [][Stuck => Stuck' /\ plans' = plans]_vars

(* LinearHistory: the plans approved before the first race, each the parent   *)
(* of the next, are a history as PlanHistory has it: a race stops the         *)
(* history, but never bends it.                                             *)
Unraced(p) == \A q \in 2 .. p : plans[q].parent = q - 1
Line == [p \in {p \in Plans : Unraced(p)} |-> plans[p]]

History == INSTANCE PlanHistory WITH Keys <- Keys, Rules <- Rules, None <- None, plans <- Line
LinearHistory == History!Spec

(* CurrentUnambiguous: there always is a current plan ("The current plan is   *)
(* the latest approved version").                                           *)
CurrentUnambiguous == \E p \in Plans : IsCurrent(p)

(* OpenWorkPlanned: unfinished work always has its task in the current plan,  *)
(* so that GET /forecast can use an approved plan automatically.             *)
OpenWorkPlanned ==
  \A p \in Plans : IsCurrent(p) => Open \subseteq plans[p].tasks
=============================================================================
