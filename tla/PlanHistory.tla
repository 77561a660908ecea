---------------------------- MODULE PlanHistory -----------------------------
(***************************************************************************)
(* What plan_lifecycle.py promises: "Approved plans are preserved by version *)
(* instead of being overwritten.  The current plan is the latest approved    *)
(* version."  Plans form one line, and each replan is derived from the plan  *)
(* that was current when it was approved.  PlanLifecycle implements this up  *)
(* to the first race of two approvals; served one at a time none happens.    *)
(***************************************************************************)
EXTENDS Naturals, Sequences

CONSTANTS Keys, Rules, None

VARIABLE plans

Row(n, tasks, rule) ==
  [version |-> n, status |-> "APPROVED", rule |-> rule,
   parent |-> IF n = 1 THEN None ELSE n - 1,
   ranked |-> IF n = 1 THEN None ELSE n - 1, tasks |-> tasks]

Init == \E rule \in Rules : plans = <<Row(1, Keys, rule)>>

Approve(tasks, rule) ==
  plans' = Append(plans, Row(Len(plans) + 1, tasks, rule))

Next == \E tasks \in (SUBSET plans[Len(plans)].tasks) \ {{}}, rule \in Rules :
          Approve(tasks, rule)

Spec == Init /\ [][Next]_plans
=============================================================================
