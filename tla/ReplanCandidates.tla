-------------------------- MODULE ReplanCandidates --------------------------
(***************************************************************************)
(* persistence/replan_candidates.py: the scheduler and the callers that tell *)
(* it which of the ready operations goes next.                              *)
(*                                                                         *)
(* A request makes five calls at one instant: the live forecast, in the      *)
(* order of the approved plan, and, when that is URGENT, a candidate for     *)
(* each priority rule.  A manager may approve one of them (POST             *)
(* /replan-approvals): its ranks are the plan of the next live forecast.     *)
(***************************************************************************)
EXTENDS EventScheduler

CONSTANTS
  ReleaseAt, DueDate,   \* release_at and due_at of each LOT
  Gates,                \* the pending gates, [lot, step, at]
  Plans,                \* approved plans: the priority_rank of each task
  Replanned             \* the jobs that are replanned

(* operation_key: a task of a plan is a routing step of a LOT.               *)
KeyOf(o) == <<LotOf[o], StepOf[o]>>
Lots == {LotOf[o] : o \in Ops}

(* load_plan_task_priorities: ranks are positive.                            *)
IsPlan(p) ==
  /\ DOMAIN p = {KeyOf(o) : o \in Ops}
  /\ \A k, l \in DOMAIN p : p[k] \in Nat \ {0} /\ (p[k] = p[l] => k = l)

ASSUME ReplanAssumption ==
  /\ ReleaseAt \in [Lots -> Nat] /\ DueDate \in [Lots -> Nat]
  /\ \A g \in Gates : /\ g.at \in Nat
                      /\ \A j \in Replanned : \E o \in j.ops : KeyOf(o) = <<g.lot, g.step>>
  /\ \A p \in Plans : IsPlan(p)
  /\ Replanned \subseteq Jobs

VARIABLES
  caller,     \* who is calling the scheduler, or "MANAGER"
  plan,       \* priority_rank of the tasks of the current plan
  order,      \* the operations in the order of schedule.operations
  built       \* the candidates so far

callVars == <<caller, plan, built>>
replanVars == <<vars, callVars, order>>

Rules == <<"FCFS", "EDD", "SLACK", "CR">>

-----------------------------------------------------------------------------
(* core/priority_rules.py and core/dynamic_priority.py: the rank of a LOT     *)

(* The next pending gate, or else the due date.                             *)
Deadline(l) ==
  LET due == {g.at : g \in {g \in Gates : g.lot = l}}
  IN IF due = {} THEN DueDate[l] ELSE Min(due)

(* working_minutes_until: negative when the deadline has passed.             *)
TimeLeft(l) ==
  IF now <= Deadline(l) THEN Cardinality(Worked(now, Deadline(l)))
  ELSE - Cardinality(Worked(Deadline(l), now))

(* Mutant: what is under way counts for nothing.                             *)
Remaining_Pending(l) ==
  MapThenSumSet(LAMBDA o : job.duration[o], {o \in pending : LotOf[o] = l})

(* What is pending, and what is left of what is under way.                   *)
Remaining(l) ==
  MapThenSumSet(LAMBDA o : IF o \in pending THEN job.duration[o]
                           ELSE Cardinality(Worked(now, placed[o].end)),
                {o \in job.ops : LotOf[o] = l})

LotSlack(l) == TimeLeft(l) - Remaining(l)

(* Negative when l goes before m, 0 when the rule does not tell.             *)
Compare(l, m) ==
  CASE caller = "FCFS"  -> ReleaseAt[l] - ReleaseAt[m]
    [] caller = "EDD"   -> Deadline(l) - Deadline(m)
    [] caller = "SLACK" -> LotSlack(l) - LotSlack(m)
    [] caller = "CR"    -> TimeLeft(l) * Remaining(m) - TimeLeft(m) * Remaining(l)

(* The LOTs in the order of the plan: the sort is stable.                    *)
PlanOrder(l) == Min({plan[k] : k \in {k \in DOMAIN plan : k[1] = l}})
LotBefore(l, m) ==
  Compare(l, m) < 0 \/ (Compare(l, m) = 0 /\ PlanOrder(l) < PlanOrder(m))

(* persistence/plan_dispatch.py and core/dispatch_builder.py                  *)
Forecasting == caller \in {"LIVE", "AGAIN"}
Preferred(p, o) ==
  IF Forecasting
  THEN plan[KeyOf(p)] < plan[KeyOf(o)] \/ (KeyOf(p) = KeyOf(o) /\ TieBreak(p, o))
  ELSE LotBefore(LotOf[p], LotOf[o]) \/ (LotOf[p] = LotOf[o] /\ TieBreak(p, o))

-----------------------------------------------------------------------------
(* The calls                                                                *)

(* Mutant: the ready operations are taken as the set gives them.             *)
InTurn_Any(o) == TRUE
InTurn(o) == \A p \in ready \ {o} : caller # "ANY" => ~ Preferred(p, o)

Try(o) ==
  /\ Continue(o) \/ (Dispatch(o) /\ InTurn(o))
  /\ order' = IF caller # "ANY" /\ o \notin pending' THEN Append(order, o) ELSE order

Step ==
  /\ \/ (Decide \/ Advance \/ Finish) /\ UNCHANGED order
     \/ \E o \in ready : Try(o)
  /\ UNCHANGED callVars

Call(c) ==
  /\ caller' = c
  /\ phase' = "decide" /\ now' = job.start
  /\ pending' = job.ops /\ ready' = {}
  /\ placed' = [o \in {} |-> None] /\ allocations' = {}
  /\ order' = <<>>
  /\ UNCHANGED job

-----------------------------------------------------------------------------
(* What a call is worth                                                     *)

Tasks == {KeyOf(o) : o \in job.ops}
Of(k) == {o \in job.ops : KeyOf(o) = k}

ForecastAt(g) == Max({placed[o].end : o \in Of(<<g.lot, g.step>>)})
Slack(g) == g.at - ForecastAt(g)
Urgent == \E g \in Gates : Slack(g) <= 0

(* _candidate_tasks: the tasks, in the order in which they are first          *)
(* dispatched, take the ranks that these tasks have in the plan.             *)
FirstDispatch_Last(k) == Max({i \in DOMAIN order : KeyOf(order[i]) = k})
FirstDispatch(k) == Min({i \in DOMAIN order : KeyOf(order[i]) = k})
RankSlots == {plan[k] : k \in Tasks}
Ranks ==
  [k \in Tasks |->
     CHOOSE r \in RankSlots :
       Cardinality({s \in RankSlots : s <= r}) =
         Cardinality({l \in Tasks : FirstDispatch(l) <= FirstDispatch(k)})]

Kpi ==
  [late      |-> Cardinality({g.lot : g \in {g \in Gates : Slack(g) < 0}}),
   tardiness |-> MapThenSumSet(LAMBDA g : IF Slack(g) < 0 THEN - Slack(g) ELSE 0, Gates)]

(* The frozen horizon is released: every task counts.                        *)
Changes == Cardinality({k \in Tasks : Ranks[k] # plan[k]})

(* order and slots are its schedule, which the answer sums up as the tasks:    *)
(* only the properties read them.                                           *)
Candidate ==
  [ranks   |-> Ranks,
   start   |-> [k \in Tasks |-> Min({placed[o].start : o \in Of(k)})],
   kpi     |-> Kpi,
   changes |-> Changes,
   order   |-> order,
   slots   |-> placed]

(* build_replan_candidates: candidates are built only when it is URGENT.      *)
Evaluate ==
  /\ phase = "done" /\ caller = "LIVE" /\ Urgent
  /\ Call(Rules[1])
  /\ UNCHANGED <<plan, built>>

Build ==
  /\ phase = "done"
  /\ \E i \in DOMAIN Rules :
       /\ caller = Rules[i]
       /\ built' = [r \in DOMAIN built \cup {caller} |->
                      IF r = caller THEN Candidate ELSE built[r]]
       /\ IF i = Len(Rules)
          THEN caller' = "MANAGER" /\ UNCHANGED <<vars, order>>
          ELSE Call(Rules[i + 1])
  /\ UNCHANGED plan

(* The new plan has the tasks of the candidate.                              *)
Approve(r) ==
  /\ caller = "MANAGER"
  /\ plan' = built[r].ranks
  /\ Call("AGAIN")
  /\ UNCHANGED built

-----------------------------------------------------------------------------
ReplanInit ==
  /\ Init
  /\ \/ caller = "ANY" /\ job \notin Replanned /\ plan = [k \in {} |-> None]
     \/ caller = "LIVE" /\ job \in Replanned /\ plan \in Plans
  /\ order = <<>>
  /\ built = [r \in {} |-> None]

ReplanNext == Step \/ Evaluate \/ Build \/ \E r \in DOMAIN built : Approve(r)

(* A request runs to its end; a manager need not decide.                     *)
ReplanSpec == ReplanInit /\ [][ReplanNext]_replanVars
FairReplanSpec == ReplanSpec /\ WF_replanVars(Step) /\ WF_replanVars(Evaluate \/ Build)

-----------------------------------------------------------------------------
(* Properties                                                               *)

(* Reproducible: one operation at most may go next, although the code keeps   *)
(* the pending operations in a set of strings, which has no order of its own. *)
Reproducible ==
  caller # "ANY" /\ phase = "dispatch" /\ Running = {} =>
    \A o, p \in ready : InTurn(o) /\ InTurn(p) => o = p

Week == 7 * DayLength

(* What the decision at this instant found ready: an operation whose buffer   *)
(* is released by a start of this very turn waits for the next decision.      *)
WasReady(o) ==
  /\ Due(o)
  /\ \/ job.buffer[o] = None
     \/ \E p \in SamePlace(o) \cap Scheduled : placed[p].start < now
     \/ Cardinality(CompletedUpstream(o, now)) >= job.buffer[o]

(* NoInversion: an operation that has started leaves none waiting that was    *)
(* ready, goes before it in the plan or by the rule, and would have fitted    *)
(* beside what had started until then; and the rule still says so when the   *)
(* work it ranks by has begun ("to preserve an already-approved operation     *)
(* order").                                                                 *)
NoInversion ==
  \A i \in DOMAIN order :
    LET o == order[i]
        beside == {a \in allocations : \E n \in 1 .. i - 1 : order[n] = a.op}
    IN phase = "dispatch" /\ placed[o].start = now /\ job.state[o] # "RUNNING" =>
         \A p \in pending : WasReady(p) /\ Preferred(p, o) =>
           ~ \E e \in now + 1 .. now + Week :
               Fits(now, e, job.duration[p], Need[p], beside)

(* RanksFollowStarts: the ranks of a candidate are those of the plan, each    *)
(* given to one task, and no task starts before one of higher priority       *)
(* ("projected from the candidate scheduler's actual first-dispatch order    *)
(* into the rank slots of the current approved plan").                       *)
RanksFollowStarts ==
  \A r \in DOMAIN built :
    LET ranks == built[r].ranks
    IN caller # "AGAIN" =>
         /\ {ranks[k] : k \in Tasks} = RankSlots
         /\ \A k, l \in Tasks : ranks[k] < ranks[l] => built[r].start[k] <= built[r].start[l]

(* A candidate dispatches its tasks one after another: when it has begun a    *)
(* task, no operation of an earlier one is left.                            *)
TaskByTask(c) ==
  \A i, j \in DOMAIN c.order :
    i < j => c.ranks[KeyOf(c.order[i])] <= c.ranks[KeyOf(c.order[j])]

(* ApprovedOrderKept: once such a candidate is approved, the live forecast is   *)
(* its schedule, operation by operation and to the minute, though it ranks    *)
(* tasks where the candidate ranked LOTs, some anew at every decision; and    *)
(* its key figures are those the manager approved.                           *)
ApprovedOrderKept ==
  \A r \in DOMAIN built :
    caller = "AGAIN" /\ plan = built[r].ranks /\ TaskByTask(built[r]) =>
      /\ \A i \in DOMAIN order :
           i \in DOMAIN built[r].order /\ order[i] = built[r].order[i]
      /\ \A o \in Scheduled : placed[o] = built[r].slots[o]
      /\ phase = "done" => order = built[r].order /\ Kpi = built[r].kpi

(* RequestAnswered: every request is answered, with the forecast or with four *)
(* candidates, unless an operation that is running cannot go on at the        *)
(* instant of the request.                                                  *)
Answered ==
  \/ phase = "done" /\ caller \in {"ANY", "AGAIN"}
  \/ phase = "done" /\ caller = "LIVE" /\ ~ Urgent
  \/ caller = "MANAGER" /\ DOMAIN built = {Rules[i] : i \in DOMAIN Rules}
  \/ phase = "stopped" /\ \E o \in pending : job.state[o] = "RUNNING"
RequestAnswered == phase = "decide" ~> Answered
=============================================================================
