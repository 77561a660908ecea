----------------------------- MODULE PlanProofs -----------------------------
(***************************************************************************)
(* Theorems about PlanLifecycle for any number of sessions, units, rules and *)
(* plans: what racing approvals cannot break, that the plans implement       *)
(* PlanHistory up to the first race, that one thread never races, and that   *)
(* only rework can be without a task in the current plan.                   *)
(***************************************************************************)
EXTENDS PlanLifecycle, SequenceTheorems, TLAPS

USE PlanLifecycleAssumption

-----------------------------------------------------------------------------
(* The inductive invariant                                                  *)

(* What a session has read stays true of the plans, for rows never change:   *)
(* the base plan it ranks by was current when it was read, after the parent  *)
(* was, so it is the parent or a later version; being confirmed, the parent  *)
(* is not older than the base.                                              *)
SessionFacts(s) ==
  /\ pc[s] \notin {"idle", "parent"} => req[s].parent \in Plans
  /\ pc[s] \in {"items", "confirm", "write"} =>
       /\ seen[s].base \in Plans
       /\ \/ seen[s].base = req[s].parent
          \/ plans[req[s].parent].version < plans[seen[s].base].version
  /\ pc[s] \in {"confirm", "write"} =>
       /\ req[s].candidate \in Rules
       /\ seen[s].tasks \subseteq plans[seen[s].base].tasks
  /\ pc[s] = "write" => seen[s].tasks # {} /\ seen[s].base = req[s].parent

IInv ==
  /\ TypeOK
  /\ Lineage
  /\ RankedFromParent
  /\ \A s \in Sessions : SessionFacts(s)

-----------------------------------------------------------------------------
(* Lemmas about plans                                                       *)

LEMMA RowType ==
  ASSUME TypeOK, NEW p \in Plans
  PROVE  /\ plans[p] \in PlanRow
         /\ p \in Approved
<1>1. plans \in Seq(PlanRow) /\ p \in 1 .. Len(plans)
  BY DEF TypeOK, Plans
<1>2. plans[p] \in PlanRow
  BY <1>1, ElementOfSeq
<1>3. plans[p].status = "APPROVED"
  BY <1>2 DEF PlanRow
<1> QED BY <1>2, <1>3 DEF Approved

(* A current plan has a higher version than every other plan.               *)
LEMMA CurrentIsAbove ==
  ASSUME TypeOK, NEW p, IsCurrent(p), NEW q \in Plans, q # p
  PROVE  p \in Plans /\ plans[q].version < plans[p].version
<1>1. p \in Plans /\ p \in Approved /\ q \in Approved
  BY RowType DEF IsCurrent, Highest, Approved
<1>2. plans[p].version \in Nat /\ plans[q].version \in Nat
  BY <1>1, RowType DEF PlanRow
<1>3. plans[q].version <= plans[p].version /\ ~ Highest(q)
  BY <1>1 DEF IsCurrent, Highest
<1>4. PICK r \in Approved : ~ (plans[r].version <= plans[q].version)
  BY <1>1, <1>3 DEF Highest
<1>5. plans[r] \in PlanRow
  BY RowType DEF Approved
<1>6. plans[r].version \in Nat /\ plans[r].version <= plans[p].version
  BY <1>5 DEF IsCurrent, Highest, PlanRow
<1> QED BY <1>1, <1>2, <1>3, <1>4, <1>6

(* What Write stores is a row, ranked by its parent, one version above it.   *)
LEMMA NewPlanFacts ==
  ASSUME IInv, NEW s \in Sessions, pc[s] = "write"
  PROVE  /\ NewPlan(s) \in PlanRow
         /\ NewPlan(s).parent = req[s].parent /\ NewPlan(s).ranked = req[s].parent
         /\ NewPlan(s).version = plans[req[s].parent].version + 1
         /\ NewPlan(s).tasks \subseteq plans[req[s].parent].tasks
<1>1. SessionFacts(s) /\ TypeOK
  BY DEF IInv
<1>2. req[s].parent \in Plans /\ plans[req[s].parent] \in PlanRow
  BY <1>1, RowType, "write" \notin {"idle", "parent"} DEF SessionFacts
<1>3. plans[req[s].parent].version + 1 \in Nat \ {0}
  BY <1>2 DEF PlanRow
<1>4. seen[s].tasks \in (SUBSET Keys) \ {{}}
  BY <1>1 DEF SessionFacts, TypeOK
<1>5. req[s].parent \in Nat /\ req[s].candidate \in Rules /\ seen[s].base = req[s].parent
  BY <1>1, <1>2 DEF SessionFacts, Plans
<1>6. seen[s].tasks \subseteq plans[req[s].parent].tasks
  BY <1>1, <1>5 DEF SessionFacts
<1> QED BY <1>3, <1>4, <1>5, <1>6 DEF NewPlan, NextVersion, PlanRow

(* Writing appends one row and leaves the others as they are.               *)
LEMMA Written ==
  ASSUME IInv, NEW s \in Sessions, pc[s] = "write", plans' = PlansWritten(s)
  PROVE  /\ plans' \in Seq(PlanRow)
         /\ Len(plans') = Len(plans) + 1
         /\ \A p \in Plans : p \in 1 .. Len(plans') /\ plans'[p] = plans[p]
         /\ plans'[Len(plans) + 1] = NewPlan(s)
<1>1. plans \in Seq(PlanRow) /\ NewPlan(s) \in PlanRow
  BY NewPlanFacts DEF IInv, TypeOK
<1>2. Len(plans) \in Nat
  BY <1>1, LenProperties
<1> HIDE DEF NewPlan
<1> QED BY <1>1, <1>2, AppendProperties DEF PlansWritten, Plans

-----------------------------------------------------------------------------
(* The invariant is inductive                                               *)

LEMMA InitiallyIInv == Init => IInv
<1> SUFFICES ASSUME Init PROVE IInv
  OBVIOUS
<1>1. PICK rule \in Rules :
        plans = <<[version |-> 1, status |-> "APPROVED", rule |-> rule, parent |-> None,
                   ranked |-> None, tasks |-> Keys]>>
  BY DEF Init
<1>2. Keys # {}
  <2>1. PICK u \in Units : TRUE
    OBVIOUS
  <2>2. <<LotOf[u], "TUNING">> \in Keys
    BY DEF Keys, Lots, Steps
  <2> QED BY <2>2
<1>3. plans \in Seq(PlanRow) /\ plans # <<>> /\ Len(plans) = 1
  BY <1>1, <1>2 DEF PlanRow
<1>4. TypeOK
  BY <1>3 DEF Init, TypeOK, Stages, NoTime, Reading, Nothing, Busy
<1>5. Plans = {1}
  BY <1>3 DEF Plans
<1> QED BY <1>4, <1>5 DEF Init, IInv, Lineage, RankedFromParent, SessionFacts

(* Whatever is appended to the plans, a session that does nothing keeps its  *)
(* facts.                                                                   *)
LEMMA FactsKept ==
  ASSUME NEW s \in Sessions, SessionFacts(s),
         \A p \in Plans : p \in Plans' /\ plans'[p] = plans[p],
         pc'[s] = pc[s], req'[s] = req[s], seen'[s] = seen[s]
  PROVE  SessionFacts(s)'
BY DEF SessionFacts

(* A session that answers has no facts to keep.                             *)
LEMMA ReplyKeepsFacts ==
  ASSUME IInv, NEW s \in Sessions, NEW c \in {201, 404, 409, 500}, Reply(s, c),
         \A p \in Plans : p \in Plans' /\ plans'[p] = plans[p]
  PROVE  /\ \A t \in Sessions : SessionFacts(t)'
         /\ pc' \in [Sessions -> Reading \cup {"idle"}]
         /\ code' \in [Sessions -> {0, 201, 404, 409, 500}]
         /\ req' \in [Sessions -> Requests \cup {None}]
         /\ seen' \in [Sessions -> [live : Nat \cup {None}, base : Nat \cup {None},
                                   tasks : SUBSET Keys]]
         /\ \A t \in Sessions : Busy(t)' => req'[t] \in Requests
<1>1. TypeOK /\ \A t \in Sessions : SessionFacts(t)
  BY DEF IInv
<1>2. \A t \in Sessions : t # s => SessionFacts(t)'
  <2> SUFFICES ASSUME NEW t \in Sessions, t # s PROVE SessionFacts(t)'
    OBVIOUS
  <2>1. pc'[t] = pc[t] /\ req'[t] = req[t] /\ seen'[t] = seen[t]
    BY <1>1 DEF Reply, TypeOK
  <2> QED BY <1>1, <2>1, FactsKept
<1>3. pc'[s] = "idle"
  BY <1>1 DEF Reply, TypeOK
<1>4. SessionFacts(s)'
  BY <1>3 DEF SessionFacts
<1>5. /\ pc' \in [Sessions -> Reading \cup {"idle"}]
      /\ code' \in [Sessions -> {0, 201, 404, 409, 500}]
      /\ req' \in [Sessions -> Requests \cup {None}]
  BY <1>1 DEF Reply, TypeOK
<1>6. seen' \in [Sessions -> [live : Nat \cup {None}, base : Nat \cup {None},
                             tasks : SUBSET Keys]]
  BY <1>1 DEF Reply, TypeOK, Nothing
<1>7. \A t \in Sessions : Busy(t)' => req'[t] \in Requests
  BY <1>1, <1>3 DEF Reply, TypeOK, Busy
<1> QED BY <1>2, <1>4, <1>5, <1>6, <1>7

(* The part of the invariant that speaks of plans alone.                     *)
PlanFacts == Lineage /\ RankedFromParent

LEMMA PlansUnchanged ==
  ASSUME IInv, UNCHANGED plans
  PROVE  /\ PlanFacts'
         /\ \A p \in Plans : p \in Plans' /\ plans'[p] = plans[p]
         /\ plans' \in Seq(PlanRow) /\ plans' # <<>>
BY DEF IInv, PlanFacts, Lineage, RankedFromParent, TypeOK, Plans

(* A refusal.                                                               *)
LEMMA RefusalKeepsIInv ==
  ASSUME IInv, NEW s \in Sessions, NEW c \in {201, 404, 409, 500}, Reply(s, c),
         UNCHANGED <<stage, newest, plans>>
  PROVE  IInv'
<1>1. \A p \in Plans : p \in Plans' /\ plans'[p] = plans[p]
  BY PlansUnchanged
<1>2. TypeOK'
  BY <1>1, ReplyKeepsFacts, PlansUnchanged DEF IInv, TypeOK
<1> QED BY <1>1, <1>2, ReplyKeepsFacts, PlansUnchanged DEF IInv, PlanFacts

(* A read: the session goes on, with something more in its hands.           *)
LEMMA ReadKeepsIInv ==
  ASSUME IInv, NEW s \in Sessions, Busy(s), NEW step \in Reading, Goto(s, step),
         UNCHANGED <<stage, newest, plans>>,
         NEW r \in [live : Nat \cup {None}, base : Nat \cup {None}, tasks : SUBSET Keys],
         seen' = [seen EXCEPT ![s] = r],
         SessionFacts(s)'
  PROVE  IInv'
<1>1. TypeOK /\ \A t \in Sessions : SessionFacts(t)
  BY DEF IInv
<1>2. \A t \in Sessions : SessionFacts(t)'
  <2> SUFFICES ASSUME NEW t \in Sessions, t # s PROVE SessionFacts(t)'
    OBVIOUS
  <2>1. pc'[t] = pc[t] /\ req'[t] = req[t] /\ seen'[t] = seen[t]
    BY <1>1 DEF Goto, TypeOK
  <2> QED BY <1>1, <2>1, FactsKept, PlansUnchanged
<1>3. TypeOK'
  <2>1. /\ pc' \in [Sessions -> Reading \cup {"idle"}]
        /\ UNCHANGED <<req, code>>
        /\ \A t \in Sessions : Busy(t)' => Busy(t)
    BY <1>1 DEF Goto, TypeOK, Busy
  <2>2. seen' \in [Sessions -> [live : Nat \cup {None}, base : Nat \cup {None},
                               tasks : SUBSET Keys]]
    BY <1>1 DEF TypeOK
  <2> QED BY <1>1, <2>1, <2>2, PlansUnchanged DEF TypeOK
<1> QED BY <1>2, <1>3, PlansUnchanged DEF IInv, PlanFacts

(* The steps of a request that only read.                                   *)
LEMMA ReadingKeepsIInv ==
  ASSUME IInv, NEW s \in Sessions,
         \/ CheckParent(s) \/ ReadPlan(s) \/ CheckClock(s) \/ ReadBase(s) \/ Confirm(s)
         \/ \E outcome \in Outcomes : Forecast(s, outcome) \/ BuildCandidate(s, outcome)
  PROVE  IInv'
<1>1. TypeOK /\ SessionFacts(s)
  BY DEF IInv
<1>2. UNCHANGED <<stage, newest, plans>>
  BY DEF CheckParent, ReadPlan, CheckClock, ReadBase, Confirm, Forecast, BuildCandidate
<1>3. \A c \in {201, 404, 409, 500} : Reply(s, c) => IInv'
  BY <1>2, RefusalKeepsIInv
<1>4. seen[s] \in [live : Nat \cup {None}, base : Nat \cup {None}, tasks : SUBSET Keys]
  BY <1>1 DEF TypeOK
<1>5. ASSUME NEW step \in Reading, Goto(s, step)
      PROVE  pc'[s] = step /\ req' = req
  BY <1>1, <1>5 DEF Goto, TypeOK
<1>6. ASSUME UNCHANGED seen
      PROVE  seen' = [seen EXCEPT ![s] = seen[s]]
  BY <1>1, <1>6 DEF TypeOK
<1>7. CASE CheckParent(s)
  <2>1. CASE ~ IsCurrent(req[s].parent)
    BY <1>3, <1>7, <2>1 DEF CheckParent
  <2>2. CASE IsCurrent(req[s].parent)
    <3>1. Goto(s, "plan") /\ UNCHANGED seen /\ Busy(s)
      BY <1>7, <2>2 DEF CheckParent, Busy
    <3>2. SessionFacts(s)'
      BY <1>2, <1>5, <2>2, <3>1 DEF SessionFacts, IsCurrent, Highest, Approved, Plans, Reading
    <3> QED BY <1>2, <1>4, <1>6, <3>1, <3>2, ReadKeepsIInv DEF Reading
  <2> QED BY <2>1, <2>2
<1>8. CASE ReadPlan(s)
  <2>1. ASSUME NEW p \in Plans, seen' = [seen EXCEPT ![s].live = p], Goto(s, "clock")
        PROVE  IInv'
    <3>1. Busy(s) /\ pc[s] = "plan"
      BY <1>8 DEF ReadPlan, Busy
    <3>2. seen' = [seen EXCEPT ![s] = [seen[s] EXCEPT !.live = p]]
      BY <1>1, <2>1 DEF TypeOK
    <3>3. [seen[s] EXCEPT !.live = p] \in
            [live : Nat \cup {None}, base : Nat \cup {None}, tasks : SUBSET Keys]
      BY <1>4 DEF Plans
    <3>4. SessionFacts(s)'
      BY <1>1, <1>2, <1>5, <2>1, <3>1 DEF SessionFacts, Plans, Reading
    <3> QED BY <1>2, <2>1, <3>1, <3>2, <3>3, <3>4, ReadKeepsIInv DEF Reading
  <2> QED BY <1>3, <1>8, <2>1 DEF ReadPlan
<1>9. CASE CheckClock(s)
  <2>1. CASE Goto(s, "forecast") /\ UNCHANGED seen
    <3>1. Busy(s) /\ pc[s] = "clock"
      BY <1>9 DEF CheckClock, Busy
    <3>2. SessionFacts(s)'
      BY <1>1, <1>2, <1>5, <2>1, <3>1 DEF SessionFacts, Plans, Reading
    <3> QED BY <1>2, <1>4, <1>6, <2>1, <3>1, <3>2, ReadKeepsIInv DEF Reading
  <2> QED BY <1>3, <1>9, <2>1 DEF CheckClock
<1>10. ASSUME NEW outcome \in Outcomes, Forecast(s, outcome)
       PROVE  IInv'
  <2>1. CASE Goto(s, "base") /\ UNCHANGED seen
    <3>1. Busy(s) /\ pc[s] = "forecast"
      BY <1>10 DEF Forecast, Busy
    <3>2. SessionFacts(s)'
      BY <1>1, <1>2, <1>5, <2>1, <3>1 DEF SessionFacts, Plans, Reading
    <3> QED BY <1>2, <1>4, <1>6, <2>1, <3>1, <3>2, ReadKeepsIInv DEF Reading
  <2> QED BY <1>3, <1>10, <2>1 DEF Forecast
<1>11. CASE ReadBase(s)
  <2>1. ASSUME NEW p \in Plans, IsCurrent(p), seen' = [seen EXCEPT ![s].base = p],
               Goto(s, "items")
        PROVE  IInv'
    <3>1. Busy(s) /\ pc[s] = "base"
      BY <1>11 DEF ReadBase, Busy
    <3>2. req[s].parent \in Plans
      BY <1>1, <3>1 DEF SessionFacts
    <3>3. p = req[s].parent \/ plans[req[s].parent].version < plans[p].version
      BY <1>1, <2>1, <3>2, CurrentIsAbove
    <3>4. seen' = [seen EXCEPT ![s] = [seen[s] EXCEPT !.base = p]]
      BY <1>1, <2>1 DEF TypeOK
    <3>5. [seen[s] EXCEPT !.base = p] \in
            [live : Nat \cup {None}, base : Nat \cup {None}, tasks : SUBSET Keys]
      BY <1>4 DEF Plans
    <3>6. seen'[s].base = p
      BY <1>1, <1>4, <3>4 DEF TypeOK
    <3>7. pc'[s] = "items" /\ req' = req
      BY <1>5, <2>1 DEF Reading
    <3>8. SessionFacts(s)'
      BY <1>2, <3>2, <3>3, <3>6, <3>7 DEF SessionFacts, Plans
    <3> QED BY <1>2, <2>1, <3>1, <3>4, <3>5, <3>8, ReadKeepsIInv DEF Reading
  <2> QED BY <1>3, <1>11, <2>1 DEF ReadBase
<1>12. ASSUME NEW outcome \in Outcomes, BuildCandidate(s, outcome)
       PROVE  IInv'
  <2>1. ASSUME Forecastable(seen[s].base), req[s].candidate \in Rules, Goto(s, "confirm"),
               seen' = [seen EXCEPT ![s].tasks = OpenIn(seen[s].base)]
        PROVE  IInv'
    <3>1. Busy(s) /\ pc[s] = "items"
      BY <1>12 DEF BuildCandidate, Busy
    <3>2. seen[s].base \in Plans /\ plans[seen[s].base] \in PlanRow
      BY <1>1, <3>1, RowType DEF SessionFacts
    <3>3. OpenIn(seen[s].base) \subseteq plans[seen[s].base].tasks
      BY <2>1 DEF Forecastable
    <3>4. OpenIn(seen[s].base) \subseteq Keys
      BY <3>2, <3>3 DEF PlanRow
    <3> DEFINE r == [seen[s] EXCEPT !.tasks = OpenIn(seen[s].base)]
    <3>5. seen' = [seen EXCEPT ![s] = r]
      BY <1>1, <2>1 DEF TypeOK
    <3>6. r \in [live : Nat \cup {None}, base : Nat \cup {None}, tasks : SUBSET Keys]
      BY <1>4, <3>4
    <3>7. seen'[s].base = seen[s].base /\ seen'[s].tasks = OpenIn(seen[s].base)
      BY <1>1, <1>4, <3>5 DEF TypeOK
    <3>8. pc'[s] = "confirm" /\ req' = req
      BY <1>5, <2>1 DEF Reading
    <3>9. SessionFacts(s)'
      BY <1>1, <1>2, <2>1, <3>1, <3>3, <3>7, <3>8 DEF SessionFacts, Plans
    <3> HIDE DEF r
    <3> QED BY <1>2, <2>1, <3>1, <3>5, <3>6, <3>9, ReadKeepsIInv DEF Reading
  <2> QED BY <1>3, <1>12, <2>1 DEF BuildCandidate
<1>13. CASE Confirm(s)
  <2>1. CASE Confirmed(s)
    <3>1. Goto(s, "write") /\ UNCHANGED seen /\ Busy(s) /\ pc[s] = "confirm"
      BY <1>13, <2>1 DEF Confirm, Busy
    <3>2. seen[s].tasks # {} /\ IsCurrent(req[s].parent)
      BY <2>1 DEF Confirmed
    <3>3. seen[s].base \in Plans /\ req[s].parent \in Plans
      BY <1>1, <3>1 DEF SessionFacts
    <3>4. plans[seen[s].base].version \in Nat /\ plans[req[s].parent].version \in Nat
      BY <1>1, <3>3, RowType DEF PlanRow
    <3>5. seen[s].base = req[s].parent
      <4>1. seen[s].base # req[s].parent =>
              plans[seen[s].base].version < plans[req[s].parent].version
        BY <1>1, <3>2, <3>3, CurrentIsAbove
      <4>2. seen[s].base = req[s].parent
            \/ plans[req[s].parent].version < plans[seen[s].base].version
        BY <1>1, <3>1 DEF SessionFacts
      <4> QED BY <3>4, <4>1, <4>2
    <3>6. SessionFacts(s)'
      BY <1>1, <1>2, <1>5, <3>1, <3>2, <3>5 DEF SessionFacts, Plans, Reading
    <3> QED BY <1>2, <1>4, <1>6, <3>1, <3>6, ReadKeepsIInv DEF Reading
  <2> QED BY <1>3, <1>13, <2>1 DEF Confirm
<1> QED BY <1>7, <1>8, <1>9, <1>10, <1>11, <1>12, <1>13

(* The write: one more row, whose parent and base are the same older row.    *)
LEMMA WriteKeepsIInv ==
  ASSUME IInv, NEW s \in Sessions, Write(s)
  PROVE  IInv'
<1>1. TypeOK /\ SessionFacts(s) /\ pc[s] = "write" /\ plans' = PlansWritten(s)
  BY DEF IInv, Write
<1>2. Reply(s, 201) /\ UNCHANGED <<stage, newest>>
  BY DEF Write
<1>3. /\ plans' \in Seq(PlanRow)
      /\ Len(plans') = Len(plans) + 1
      /\ \A p \in Plans : p \in 1 .. Len(plans') /\ plans'[p] = plans[p]
      /\ plans'[Len(plans) + 1] = NewPlan(s)
  BY <1>1, Written
<1>4. Len(plans) \in Nat
  BY <1>1, LenProperties DEF TypeOK
<1>5. /\ Plans' = Plans \cup {Len(plans) + 1}
      /\ \A p \in Plans : p \in Plans' /\ plans'[p] = plans[p]
  BY <1>3, <1>4 DEF Plans
<1>6. req[s].parent \in Plans
  BY <1>1 DEF SessionFacts
<1>7. PlanFacts'
  <2> SUFFICES ASSUME NEW p \in Plans' \ {1}
               PROVE  /\ plans'[p].parent \in 1 .. p - 1
                      /\ plans'[p].version = plans'[plans'[p].parent].version + 1
                      /\ plans'[p].tasks \subseteq plans'[plans'[p].parent].tasks
                      /\ plans'[p].ranked = plans'[p].parent
    BY DEF PlanFacts, Lineage, RankedFromParent
  <2>1. CASE p \in Plans
    <3>1. /\ plans[p].parent \in 1 .. p - 1
          /\ plans[p].version = plans[plans[p].parent].version + 1
          /\ plans[p].tasks \subseteq plans[plans[p].parent].tasks
          /\ plans[p].ranked = plans[p].parent
      BY <2>1 DEF IInv, Lineage, RankedFromParent
    <3>2. plans[p].parent \in Plans
      BY <1>4, <2>1, <3>1 DEF Plans
    <3> QED BY <1>5, <2>1, <3>1, <3>2
  <2>2. CASE p = Len(plans) + 1
    <3>1. plans'[p] = NewPlan(s)
      BY <1>3, <2>2
    <3>2. plans'[req[s].parent] = plans[req[s].parent]
      BY <1>5, <1>6
    <3>3. req[s].parent \in 1 .. p - 1
      BY <1>4, <1>6, <2>2 DEF Plans
    <3> HIDE DEF NewPlan
    <3> QED BY <1>1, <3>1, <3>2, <3>3, NewPlanFacts
  <2> QED BY <1>5, <2>1, <2>2
<1>8. TypeOK'
  <2>1. plans' # <<>>
    BY <1>3, <1>4
  <2> QED BY <1>1, <1>2, <1>3, <1>5, <2>1, ReplyKeepsFacts DEF TypeOK
<1> QED BY <1>2, <1>5, <1>7, <1>8, ReplyKeepsFacts DEF IInv, PlanFacts

(* A new request knows nothing yet.                                         *)
LEMMA ReceiveKeepsIInv ==
  ASSUME IInv, NEW s \in Sessions, NEW r \in Requests, Receive(s, r)
  PROVE  IInv'
<1>1. TypeOK /\ \A t \in Sessions : SessionFacts(t)
  BY DEF IInv
<1>2. UNCHANGED <<stage, newest, plans, seen>>
  BY DEF Receive
<1>3. \A t \in Sessions : SessionFacts(t)'
  <2> SUFFICES ASSUME NEW t \in Sessions PROVE SessionFacts(t)'
    OBVIOUS
  <2>1. CASE t = s
    <3>1. pc'[t] = "parent"
      BY <1>1, <2>1 DEF Receive, TypeOK
    <3> QED BY <3>1 DEF SessionFacts
  <2>2. CASE t # s
    <3>1. pc'[t] = pc[t] /\ req'[t] = req[t] /\ seen'[t] = seen[t]
      BY <1>1, <2>2 DEF Receive, TypeOK
    <3> QED BY <1>1, <1>2, <3>1, FactsKept, PlansUnchanged
  <2> QED BY <2>1, <2>2
<1>4. TypeOK'
  BY <1>1, <1>2, PlansUnchanged DEF Receive, TypeOK, Busy, Reading
<1> QED BY <1>2, <1>3, <1>4, PlansUnchanged DEF IInv, PlanFacts

(* A unit that has failed a test is marked for good by its tuning; its retest   *)
(* is staged when the tuning has been done again; only these two steps have a  *)
(* second attempt.                                                          *)
Repeated(g) == g["TUNING"] \in {"rework", "working", "redone", "stranded"}
Sound(g) ==
  /\ g["FINAL_TEST"] \in {"rework", "working"} => g["TUNING"] = "redone"
  /\ g["SHIPPING"] \in {"open", "done"}
FirstPass(g, s) == g[s] = "open" /\ (s = "SHIPPING" => ~ Repeated(g))

(* A report opens no first attempt.                                          *)
LEMMA Reports ==
  ASSUME NEW g \in [Steps -> Stages], NEW h \in After(g)
  PROVE  /\ h \in [Steps -> Stages] /\ (Sound(g) => Sound(h))
         /\ \A s \in Steps : FirstPass(h, s) => FirstPass(g, s)
<1>1. Steps = {"TUNING", "FINAL_TEST", "SHIPPING"}
  BY DEF Steps
<1>2. CASE h \in Continued(g)
  BY <1>2 DEF Continued
<1>3. CASE h \in Begun(g)
  <2>1. PICK s \in Steps : g[s] = "rework" /\ h = [g EXCEPT ![s] = "working"]
    BY <1>3 DEF Begun
  <2> QED BY <1>1, <2>1 DEF Stages, Sound, FirstPass, Repeated
<1>4. CASE h \in Ended(g)
  <2>1. PICK s \in Steps \ {"FINAL_TEST"} : g[s] = "open" /\ h = [g EXCEPT ![s] = "done"]
    BY <1>4 DEF Ended
  <2> QED BY <1>1, <2>1 DEF Stages, Sound, FirstPass, Repeated
<1>5. CASE h \in Tested(g)
  <2>1. PICK v \in {"tested", "done"} : h = [g EXCEPT !["FINAL_TEST"] = v]
    BY <1>5 DEF Tested, VerdictAfter
  <2> QED BY <1>1, <2>1 DEF Stages, Sound, FirstPass, Repeated
<1>6. CASE h \in Failed(g)
  <2>1. h = [g EXCEPT !["FINAL_TEST"] = "done", !["TUNING"] = "rework"]
    BY <1>6 DEF Failed
  <2> QED BY <1>1, <2>1 DEF Stages, Sound, FirstPass, Repeated
<1>7. CASE h \in Repaired(g)
  <2>1. /\ g["TUNING"] = "working"
        /\ \/ h = [g EXCEPT !["TUNING"] = "redone", !["FINAL_TEST"] = "rework"]
           \/ h = [g EXCEPT !["TUNING"] = "stranded"]
    BY <1>7 DEF Repaired
  <2> QED BY <1>1, <2>1 DEF Stages, Sound, FirstPass, Repeated
<1> QED BY <1>2, <1>3, <1>4, <1>5, <1>6, <1>7 DEF After

(* Work on the shop floor touches no plan and no session.                   *)
LEMMA WorkKeepsIInv ==
  ASSUME IInv, NEW u \in Units, NEW g \in After(stage[u]), NEW t \in Times, Work(u, g, t)
  PROVE  IInv'
<1>1. TypeOK /\ \A s \in Sessions : SessionFacts(s)
  BY DEF IInv
<1>2. UNCHANGED <<plans, pc, req, seen, code>>
  BY DEF Work
<1>3. stage' \in [Units -> [Steps -> Stages]]
  <2>1. g \in [Steps -> Stages]
    BY <1>1, Reports DEF TypeOK
  <2> QED BY <1>1, <2>1 DEF Work, TypeOK
<1>4. newest' \in [Lots -> Times \cup {NoTime}]
  <2>1. LotOf[u] \in Lots /\ newest \in [Lots -> Times \cup {NoTime}]
    BY <1>1 DEF Lots, TypeOK
  <2>2. Later(newest[LotOf[u]], t) \in Times \cup {NoTime}
    BY <2>1 DEF Later
  <2>3. newest' = [newest EXCEPT ![LotOf[u]] = Later(newest[LotOf[u]], t)]
    BY DEF Work
  <2> QED BY <2>1, <2>2, <2>3
<1>5. TypeOK'
  BY <1>1, <1>2, <1>3, <1>4 DEF TypeOK, Busy
<1>6. \A s \in Sessions : SessionFacts(s)'
  BY <1>1, <1>2, FactsKept, PlansUnchanged
<1> QED BY <1>2, <1>5, <1>6, PlansUnchanged DEF IInv, PlanFacts

(* A crash forgets the requests and keeps the plans.                        *)
LEMMA CrashKeepsIInv ==
  ASSUME IInv, Crash
  PROVE  IInv'
<1>1. TypeOK /\ UNCHANGED <<stage, newest, plans>>
  BY DEF IInv, Crash
<1>2. TypeOK'
  BY <1>1, PlansUnchanged DEF Crash, TypeOK, Nothing, Busy
<1>3. \A s \in Sessions : SessionFacts(s)'
  BY DEF Crash, SessionFacts
<1> QED BY <1>1, <1>2, <1>3, PlansUnchanged DEF IInv, PlanFacts

LEMMA NextKeepsIInv == IInv /\ [Next]_vars => IInv'
<1> SUFFICES ASSUME IInv, [Next]_vars PROVE IInv'
  OBVIOUS
<1>1. CASE UNCHANGED vars
  <2>1. UNCHANGED <<stage, newest, plans, pc, req, seen, code>>
    BY <1>1 DEF vars
  <2> QED BY <2>1 DEF IInv, TypeOK, Lineage, RankedFromParent, SessionFacts, Plans, Busy
<1>2. ASSUME NEW u \in Units, NEW t \in Times, NEW g \in After(stage[u]), Work(u, g, t)
      PROVE  IInv'
  BY <1>2, WorkKeepsIInv
<1>3. ASSUME NEW s \in Sessions, NEW r \in Requests, Receive(s, r)
      PROVE  IInv'
  BY <1>3, ReceiveKeepsIInv
<1>4. ASSUME NEW s \in Sessions, Serve(s)
      PROVE  IInv'
  <2>1. CASE Write(s)
    BY <2>1, WriteKeepsIInv
  <2>2. CASE BusyTimeout(s)
    BY <2>2, RefusalKeepsIInv DEF BusyTimeout
  <2> QED BY <1>4, <2>1, <2>2, ReadingKeepsIInv DEF Serve
<1>5. CASE Crash
  BY <1>5, CrashKeepsIInv
<1> QED BY <1>1, <1>2, <1>3, <1>4, <1>5 DEF Next

LEMMA Inductive == Spec => []IInv
<1> QED BY InitiallyIInv, NextKeepsIInv, PTL DEF Spec

-----------------------------------------------------------------------------
(* Theorems                                                                 *)

(* Every approved plan has tasks and a known rule, and every request in      *)
(* service is one that was received.                                        *)
THEOREM PlanTypeCorrect == Spec => []TypeOK
<1>1. IInv => TypeOK
  BY DEF IInv
<1> QED BY <1>1, Inductive, PTL

(* However many approvals race, each replan descends from a plan approved    *)
(* before it, is one version above it and plans none but its tasks.          *)
THEOREM LineageHolds == Spec => []Lineage
<1>1. IInv => Lineage
  BY DEF IInv
<1> QED BY <1>1, Inductive, PTL

(* The current plan is read four times while other approvals commit, and yet *)
(* the stored ranks are always those of the parent.                         *)
THEOREM RanksAreTheParents == Spec => []RankedFromParent
<1>1. IInv => RankedFromParent
  BY DEF IInv
<1> QED BY <1>1, Inductive, PTL

(* No step changes or removes an approved plan.                             *)
THEOREM PlansAreKept == Spec => HistoryKept
<1> DEFINE Kept == \A p \in Plans : p \in 1 .. Len(plans') /\ plans'[p] = plans[p]
<1>1. IInv /\ [Next]_vars => [Kept]_vars
  <2> SUFFICES ASSUME IInv, [Next]_vars PROVE Kept
    OBVIOUS
  <2>1. CASE UNCHANGED plans
    BY <2>1 DEF Plans
  <2>2. ASSUME NEW s \in Sessions, Write(s)
        PROVE  Kept
    <3>1. pc[s] = "write" /\ plans' = PlansWritten(s)
      BY <2>2 DEF Write
    <3> QED BY <3>1, Written
  <2> QED BY <2>1, <2>2 DEF Next, vars, Work, Receive, Crash, Serve, CheckParent, ReadPlan,
                             CheckClock, Forecast, ReadBase, BuildCandidate, Confirm, BusyTimeout
<1> QED BY <1>1, Inductive, PTL DEF Spec, HistoryKept

(* Two plans with the same highest version are never told apart again: no    *)
(* request gets as far as writing.                                          *)
THEOREM AmbiguityIsForEver == Spec => NoWayBack
<1> DEFINE Dead == Stuck => Stuck' /\ plans' = plans
<1>1. IInv /\ [Next]_vars => [Dead]_vars
  <2> SUFFICES ASSUME IInv, [Next]_vars, Stuck PROVE Stuck' /\ plans' = plans
    OBVIOUS
  <2>1. TypeOK /\ Ambiguous /\ \A s \in Sessions : pc[s] # "write"
    BY DEF IInv, Stuck
  <2>2. \A p : ~ IsCurrent(p)
    <3> SUFFICES ASSUME NEW p, IsCurrent(p) PROVE FALSE
      OBVIOUS
    <3>1. PICK q \in Plans, r \in Plans : q # r /\ Highest(q) /\ Highest(r)
      BY <2>1 DEF Ambiguous
    <3>2. q \in Approved /\ r \in Approved
      BY <3>1 DEF Highest
    <3> QED BY <3>1, <3>2 DEF IsCurrent
  <2>3. UNCHANGED plans
    BY <2>1 DEF Next, vars, Work, Receive, Crash, Serve, CheckParent, ReadPlan,
                CheckClock, Forecast, ReadBase, BuildCandidate, Confirm, Write, BusyTimeout
  <2>4. Ambiguous'
    BY <2>1, <2>3 DEF Ambiguous, Highest, Approved, Plans
  <2>5. \A s \in Sessions : pc'[s] # "write"
    <3>1. CASE UNCHANGED pc
      BY <2>1, <3>1
    <3>2. CASE Crash
      BY <3>2 DEF Crash
    <3>3. ASSUME NEW s \in Sessions, NEW r \in Requests, Receive(s, r)
          PROVE  \A t \in Sessions : pc'[t] # "write"
      BY <2>1, <3>3 DEF Receive, TypeOK
    <3>4. ASSUME NEW s \in Sessions, Serve(s)
          PROVE  \A t \in Sessions : pc'[t] # "write"
      <4>1. ~ Confirmed(s) /\ ~ Write(s) /\ ~ BusyTimeout(s)
        BY <2>1, <2>2 DEF Confirmed, Write, BusyTimeout
      <4>2. \/ \E c \in {404, 409} : Reply(s, c)
            \/ \E step \in {"plan", "clock", "forecast", "base", "items", "confirm"} : Goto(s, step)
        BY <3>4, <4>1 DEF Serve, CheckParent, ReadPlan, CheckClock, Forecast, ReadBase,
                          BuildCandidate, Confirm
      <4> QED BY <2>1, <4>2 DEF Reply, Goto, TypeOK
    <3> QED BY <3>1, <3>2, <3>3, <3>4 DEF Next, vars, Work
  <2> QED BY <2>3, <2>4, <2>5 DEF Stuck
<1> QED BY <1>1, Inductive, PTL DEF Spec, NoWayBack

-----------------------------------------------------------------------------
(* Refinement                                                               *)

(* The line of unraced plans ends with plan k, which has version k.           *)
EndsWith(k) ==
  /\ k \in Plans
  /\ \A p \in Plans : Unraced(p) <=> p <= k
  /\ plans[k].version = k

LineInv == \E k \in Plans : EndsWith(k)

LEMMA PrefixOfPlans ==
  ASSUME NEW ps \in Seq(PlanRow), NEW k \in 1 .. Len(ps),
         NEW line, line = [p \in 1 .. k |-> ps[p]]
  PROVE  /\ line \in Seq(PlanRow)
         /\ Len(line) = k
         /\ \A p \in 1 .. k : line[p] = ps[p]
<1>1. Len(ps) \in Nat /\ k \in Nat
  BY LenProperties
<1>2. \A p \in 1 .. k : ps[p] \in PlanRow
  BY <1>1, ElementOfSeq
<1>3. line \in [1 .. k -> PlanRow]
  BY <1>2
<1>4. line \in Seq(PlanRow)
  BY <1>1, <1>3, SeqDef
<1>5. Len(line) = k
  BY <1>1, <1>3, <1>4, LenProperties
<1> QED BY <1>4, <1>5

LEMMA LineEnds ==
  ASSUME NEW k, EndsWith(k)
  PROVE  k \in 1 .. Len(plans) /\ Line = [p \in 1 .. k |-> plans[p]]
<1>1. k \in 1 .. Len(plans)
  BY DEF EndsWith, Plans
<1>2. {p \in Plans : Unraced(p)} = 1 .. k
  BY <1>1 DEF EndsWith, Plans
<1> QED BY <1>1, <1>2 DEF Line

LEMMA InitiallyLine == Init => LineInv /\ History!Init
<1> SUFFICES ASSUME Init PROVE LineInv /\ History!Init
  OBVIOUS
<1>1. PICK rule \in Rules :
        plans = <<[version |-> 1, status |-> "APPROVED", rule |-> rule, parent |-> None,
                   ranked |-> None, tasks |-> Keys]>>
  BY DEF Init
<1>2. Plans = {1} /\ plans[1].version = 1
  BY <1>1 DEF Plans
<1>3. EndsWith(1)
  BY <1>2 DEF EndsWith, Unraced
<1>4. Line = [p \in 1 .. 1 |-> plans[p]]
  BY <1>3, LineEnds
<1>5. Line = <<plans[1]>>
  BY <1>4
<1>6. plans[1] = History!Row(1, Keys, rule)
  BY <1>1 DEF History!Row
<1> QED BY <1>2, <1>3, <1>5, <1>6 DEF LineInv, History!Init

(* A write that continues the line is an approval of the history; one whose   *)
(* parent is an older plan, or that comes after a race, leaves the line.      *)
LEMMA WriteKeepsLine ==
  ASSUME IInv, NEW s \in Sessions, Write(s), NEW k, EndsWith(k),
         NEW last, last = Len(plans)
  PROVE  LineInv' /\ [History!Next]_Line
<1>1. TypeOK /\ SessionFacts(s) /\ pc[s] = "write" /\ plans' = PlansWritten(s)
  BY DEF IInv, Write
<1>2. /\ last \in Nat /\ k \in 1 .. last /\ Plans = 1 .. last
      /\ req[s].parent \in 1 .. last
      /\ seen[s].base = req[s].parent
  BY <1>1, LenProperties DEF TypeOK, EndsWith, SessionFacts, Plans
<1>3. /\ plans' \in Seq(PlanRow) /\ Len(plans') = last + 1
      /\ \A p \in 1 .. last : plans'[p] = plans[p]
      /\ plans'[last + 1] = NewPlan(s)
  BY <1>1, <1>2, Written
<1>4. Plans' = 1 .. last + 1
  BY <1>3 DEF Plans
<1>5. ASSUME NEW p \in 1 .. last
      PROVE  Unraced(p)' <=> p <= k
  <2>1. \A q \in 2 .. p : plans'[q] = plans[q]
    BY <1>2, <1>3
  <2>2. Unraced(p)' <=> Unraced(p)
    BY <2>1 DEF Unraced
  <2> QED BY <1>2, <2>2 DEF EndsWith
<1>6. NewPlan(s).parent = req[s].parent
  BY <1>1, NewPlanFacts
<1>7. Unraced(last + 1)' <=> k = last /\ req[s].parent = last
  <2>1. \A q \in 2 .. last : q \in 1 .. last /\ q \in 2 .. last + 1
    BY <1>2
  <2>2. \A q \in 2 .. last + 1 : q \in 2 .. last \/ q = last + 1
    BY <1>2
  <2>3. last + 1 \in 2 .. last + 1 /\ last + 1 - 1 = last
    BY <1>2
  <2>4. Unraced(last + 1)' <=> Unraced(last) /\ req[s].parent = last
    <3>1. plans'[last + 1].parent = req[s].parent
      BY <1>3, <1>6
    <3>2. Unraced(last) <=> \A q \in 2 .. last : plans'[q].parent = q - 1
      BY <1>3, <2>1 DEF Unraced
    <3>3. Unraced(last + 1)' <=> \A q \in 2 .. last + 1 : plans'[q].parent = q - 1
      BY DEF Unraced
    <3>4. ASSUME \A q \in 2 .. last + 1 : plans'[q].parent = q - 1
          PROVE  /\ \A q \in 2 .. last : plans'[q].parent = q - 1
                 /\ req[s].parent = last
      BY <2>1, <2>3, <3>1, <3>4
    <3>5. ASSUME \A q \in 2 .. last : plans'[q].parent = q - 1, req[s].parent = last
          PROVE  \A q \in 2 .. last + 1 : plans'[q].parent = q - 1
      <4> SUFFICES ASSUME NEW q \in 2 .. last + 1 PROVE plans'[q].parent = q - 1
        OBVIOUS
      <4>1. CASE q \in 2 .. last
        BY <3>5, <4>1
      <4>2. CASE q = last + 1
        BY <2>3, <3>1, <3>5, <4>2
      <4> QED BY <2>2, <4>1, <4>2
    <3> QED BY <3>2, <3>3, <3>4, <3>5
  <2>5. Unraced(last) <=> k = last
    BY <1>2 DEF EndsWith
  <2> QED BY <2>4, <2>5
<1>8. CASE k = last /\ req[s].parent = last
  <2>1. NewPlan(s).version = last + 1
    BY <1>1, <1>8, NewPlanFacts DEF EndsWith
  <2>2. EndsWith(last + 1)'
    <3>1. \A p \in Plans' : Unraced(p)' <=> p <= last + 1
      BY <1>2, <1>4, <1>5, <1>7, <1>8
    <3>2. last + 1 \in Plans' /\ plans'[last + 1].version = last + 1
      BY <1>2, <1>3, <1>4, <2>1
    <3> QED BY <3>1, <3>2 DEF EndsWith
  <2>3. /\ Line \in Seq(PlanRow) /\ Len(Line) = last
        /\ \A p \in 1 .. last : Line[p] = plans[p]
    BY <1>1, <1>8, LineEnds, PrefixOfPlans DEF TypeOK
  <2>4. /\ Line' \in Seq(PlanRow) /\ Len(Line') = last + 1
        /\ \A p \in 1 .. last + 1 : Line'[p] = plans'[p]
    <3>1. {p \in Plans' : Unraced(p)'} = 1 .. last + 1
      BY <1>4, <1>5, <1>7, <1>8, <1>2
    <3>2. Line' = [p \in 1 .. last + 1 |-> plans'[p]]
      BY <3>1 DEF Line
    <3> QED BY <1>2, <1>3, <3>2, PrefixOfPlans
  <2>5. Line' = Append(Line, NewPlan(s))
    <3>1. NewPlan(s) \in PlanRow
      BY <1>1, NewPlanFacts
    <3> HIDE DEF NewPlan
    <3>2. /\ Append(Line, NewPlan(s)) \in Seq(PlanRow)
          /\ Len(Append(Line, NewPlan(s))) = last + 1
          /\ \A p \in 1 .. last : Append(Line, NewPlan(s))[p] = Line[p]
          /\ Append(Line, NewPlan(s))[last + 1] = NewPlan(s)
      BY <2>3, <3>1, AppendProperties
    <3>3. \A p \in 1 .. last + 1 : Line'[p] = Append(Line, NewPlan(s))[p]
      BY <1>2, <1>3, <2>3, <2>4, <3>2
    <3> QED BY <2>4, <3>2, <3>3, SeqEqual
  <2>6. NewPlan(s) = History!Row(last + 1, seen[s].tasks, req[s].candidate)
    <3>1. last + 1 # 1 /\ last + 1 - 1 = last
      BY <1>2
    <3>2. NextVersion(req[s].parent) = last + 1
      BY <1>8 DEF NextVersion, EndsWith
    <3> QED BY <1>2, <1>8, <3>1, <3>2 DEF NewPlan, History!Row
  <2>7. seen[s].tasks \in (SUBSET Line[Len(Line)].tasks) \ {{}} /\ req[s].candidate \in Rules
    BY <1>1, <1>2, <1>8, <2>3 DEF SessionFacts
  <2>8. History!Approve(seen[s].tasks, req[s].candidate)
    BY <2>3, <2>5, <2>6 DEF History!Approve
  <2>9. LineInv'
    BY <2>2 DEF LineInv, EndsWith
  <2> QED BY <2>7, <2>8, <2>9 DEF History!Next
<1>9. CASE ~ (k = last /\ req[s].parent = last)
  <2>1. \A p \in Plans' : Unraced(p)' <=> p <= k
    BY <1>2, <1>4, <1>5, <1>7, <1>9
  <2>2. k \in Plans' /\ plans'[k].version = k
    BY <1>2, <1>3, <1>4 DEF EndsWith
  <2>3. EndsWith(k)'
    BY <2>1, <2>2 DEF EndsWith
  <2>4. Line = [p \in 1 .. k |-> plans[p]]
    BY LineEnds
  <2>5. Line' = [p \in 1 .. k |-> plans'[p]]
    <3>1. {p \in Plans' : Unraced(p)'} = 1 .. k
      BY <1>2, <1>4, <2>1
    <3> QED BY <3>1 DEF Line
  <2>6. Line' = Line
    BY <1>2, <1>3, <2>4, <2>5
  <2> QED BY <2>3, <2>6 DEF LineInv, EndsWith
<1> QED BY <1>8, <1>9

LEMMA LineKept == IInv /\ LineInv /\ [Next]_vars => LineInv' /\ [History!Next]_Line
<1> SUFFICES ASSUME IInv, LineInv, [Next]_vars PROVE LineInv' /\ [History!Next]_Line
  OBVIOUS
<1>1. ASSUME NEW s \in Sessions, Write(s)
      PROVE  LineInv' /\ [History!Next]_Line
  BY <1>1, WriteKeepsLine DEF LineInv
<1>2. CASE UNCHANGED plans
  BY <1>2 DEF LineInv, EndsWith, Unraced, Line, Plans
<1> QED BY <1>1, <1>2 DEF Next, vars, Work, Receive, Crash, Serve, CheckParent, ReadPlan,
                           CheckClock, Forecast, ReadBase, BuildCandidate, Confirm, BusyTimeout

(* However many threads approve, crash or time out: the plans up to the first *)
(* race are the linear history plan_lifecycle.py promises.                   *)
THEOREM HistoryUntilRace == Spec => LinearHistory
<1>1. Init => LineInv /\ History!Init
  BY InitiallyLine
<1>2. IInv /\ LineInv /\ [Next]_vars => LineInv' /\ [History!Next]_Line
  BY LineKept
<1> QED BY <1>1, <1>2, Inductive, PTL DEF Spec, LinearHistory, History!Spec

-----------------------------------------------------------------------------
(* One request thread                                                       *)

(* A session about to write has confirmed the last plan of the line.         *)
Single(s) ==
  /\ \A p \in Plans : Unraced(p) /\ plans[p].version = p
  /\ pc[s] = "write" => req[s].parent = Len(plans)

(* The plan with the highest version is the last one.                       *)
LEMMA CurrentIsLast ==
  ASSUME TypeOK, NEW s \in Sessions, Single(s)
  PROVE  \A p : IsCurrent(p) <=> p = Len(plans)
<1>1. Len(plans) \in Nat /\ Len(plans) > 0
  BY LenProperties DEF TypeOK
<1>2. Len(plans) \in Plans
  BY <1>1 DEF Plans
<1>3. ASSUME NEW p, IsCurrent(p)
      PROVE  p = Len(plans)
  <2>1. p # Len(plans) => p \in Plans /\ plans[Len(plans)].version < plans[p].version
    BY <1>2, <1>3, CurrentIsAbove
  <2>2. p # Len(plans) => Len(plans) < p /\ p <= Len(plans)
    BY <1>2, <2>1 DEF Single, Plans
  <2> QED BY <1>1, <1>2, <2>1, <2>2 DEF Plans
<1>4. IsCurrent(Len(plans))
  <2>1. \A q \in Approved : q \in Plans /\ plans[q].version = q
    BY DEF Approved, Single
  <2>2. Len(plans) \in Approved
    BY <1>2, RowType
  <2> QED BY <1>1, <2>1, <2>2 DEF IsCurrent, Highest, Plans
<1> QED BY <1>3, <1>4

LEMMA SingleKept ==
  ASSUME NEW s, Sessions = {s}, IInv, Single(s), [Next]_vars
  PROVE  Single(s)'
<1>1. TypeOK /\ s \in Sessions /\ SessionFacts(s) /\ Len(plans) \in Nat
  BY LenProperties DEF IInv, TypeOK
<1>2. CASE Write(s)
  <2>1. pc[s] = "write" /\ plans' = PlansWritten(s) /\ pc'[s] = "idle"
    BY <1>1, <1>2 DEF Write, Reply, TypeOK
  <2> DEFINE last == Len(plans)
  <2>2. req[s].parent = last /\ last \in Plans
    BY <1>1, <2>1 DEF Single, SessionFacts, Plans
  <2>3. /\ Len(plans') = last + 1
        /\ \A p \in Plans : plans'[p] = plans[p]
        /\ plans'[last + 1] = NewPlan(s)
    BY <2>1, Written
  <2>4. NewPlan(s).version = last + 1 /\ NewPlan(s).parent = last
    BY <2>1, <2>2, NewPlanFacts DEF Single
  <2>5. \A p \in Plans' : p \in Plans \/ p = last + 1
    BY <1>1, <2>3 DEF Plans
  <2>6. \A q \in 2 .. last : plans[q].parent = q - 1
    BY <2>2 DEF Single, Unraced
  <2>7. \A q \in 2 .. last + 1 : plans'[q].parent = q - 1
    <3>1. \A q \in 2 .. last + 1 : (q \in Plans /\ q \in 2 .. last) \/ q = last + 1
      BY <1>1 DEF Plans
    <3> HIDE DEF NewPlan
    <3> QED BY <1>1, <2>3, <2>4, <2>6, <3>1
  <2>8. \A p \in Plans' : Unraced(p)'
    BY <1>1, <2>3, <2>7 DEF Unraced, Plans
  <2>9. \A p \in Plans' : plans'[p].version = p
    <3> HIDE DEF NewPlan
    <3> QED BY <2>3, <2>4, <2>5 DEF Single
  <2> QED BY <2>1, <2>8, <2>9 DEF Single
<1>3. CASE ~ Write(s)
  <2>1. UNCHANGED plans
    BY <1>1, <1>3 DEF Next, vars, Work, Receive, Crash, Serve, CheckParent, ReadPlan, CheckClock,
                      Forecast, ReadBase, BuildCandidate, Confirm, BusyTimeout
  <2>2. pc'[s] = "write" =>
          \/ pc[s] = "write" /\ req'[s] = req[s]
          \/ Confirm(s) /\ Confirmed(s)
    BY <1>1, <1>3 DEF Next, vars, Work, Receive, Crash, Serve, CheckParent, ReadPlan, CheckClock,
                      Forecast, ReadBase, BuildCandidate, Confirm, BusyTimeout, Reply, Goto, TypeOK
  <2>3. pc'[s] = "write" => req'[s].parent = Len(plans)
    <3>1. CASE Confirm(s) /\ Confirmed(s)
      <4>1. IsCurrent(req[s].parent) /\ req' = req
        BY <3>1 DEF Confirm, Confirmed, Goto
      <4> QED BY <1>1, <4>1, CurrentIsLast
    <3> QED BY <2>2, <3>1 DEF Single
  <2> QED BY <2>1, <2>3 DEF Single, Unraced, Plans
<1> QED BY <1>2, <1>3

(* Approvals served one at a time, with crashes, lock timeouts and work that  *)
(* goes on meanwhile, never race: there always is one current plan.          *)
THEOREM OneThreadNeverRaces ==
  ASSUME NEW s, Sessions = {s}
  PROVE  Spec => []CurrentUnambiguous
<1>1. Init => Single(s)
  <2> SUFFICES ASSUME Init PROVE Single(s)
    OBVIOUS
  <2>1. Len(plans) = 1 /\ plans[1].version = 1 /\ pc[s] = "idle"
    BY DEF Init
  <2> QED BY <2>1 DEF Single, Unraced, Plans
<1>2. IInv /\ Single(s) /\ [Next]_vars => Single(s)'
  BY SingleKept
<1>3. IInv /\ Single(s) => CurrentUnambiguous
  <2> SUFFICES ASSUME IInv, Single(s) PROVE CurrentUnambiguous
    OBVIOUS
  <2>1. Len(plans) \in Plans
    BY LenProperties DEF IInv, TypeOK, Plans
  <2> QED BY <2>1, CurrentIsLast DEF IInv, CurrentUnambiguous
<1> QED BY <1>1, <1>2, <1>3, Inductive, PTL DEF Spec

-----------------------------------------------------------------------------
(* What is open is planned, but for rework                                   *)

(* Every open first attempt, of a step behind the test as long as the unit      *)
(* has failed none, has its task in every plan.                              *)
PlansFirstPass(T, stages) ==
  \A u \in Units : \A s \in Steps : FirstPass(stages[u], s) => <<LotOf[u], s>> \in T

FirstPassInv ==
  /\ \A u \in Units : Sound(stage[u])
  /\ \A p \in Plans : PlansFirstPass(plans[p].tasks, stage)
  /\ \A s \in Sessions : pc[s] \in {"confirm", "write"} => PlansFirstPass(seen[s].tasks, stage)

LEMMA InitiallyFirstPass == Init => FirstPassInv
<1> SUFFICES ASSUME Init PROVE FirstPassInv
  OBVIOUS
<1>1. \A u \in Units : \A s \in Steps : <<LotOf[u], s>> \in Keys
  BY DEF Keys, Lots
<1>2. \A p \in Plans : plans[p].tasks = Keys
  BY DEF Init, Plans
<1>3. \A s \in Sessions : pc[s] = "idle"
  BY DEF Init
<1>4. \A u \in Units : Sound(stage[u])
  BY DEF Init, Sound, Steps
<1> QED BY <1>1, <1>2, <1>3, <1>4 DEF FirstPassInv, PlansFirstPass

(* Work only takes operations of a first pass away.                          *)
LEMMA WorkKeepsFirstPass ==
  ASSUME IInv, FirstPassInv, NEW v \in Units, NEW g \in After(stage[v]), NEW t \in Times, Work(v, g, t)
  PROVE  FirstPassInv'
<1>1. TypeOK /\ UNCHANGED <<plans, pc, seen>> /\ stage' = [stage EXCEPT ![v] = g]
  BY DEF IInv, Work
<1>2. ASSUME NEW u \in Units
      PROVE  /\ Sound(stage'[u])
             /\ \A s \in Steps : FirstPass(stage'[u], s) => FirstPass(stage[u], s)
  <2>1. CASE u # v
    BY <1>1, <2>1 DEF TypeOK, FirstPassInv
  <2>2. CASE u = v
    <3>1. stage'[u] = g /\ stage[u] \in [Steps -> Stages] /\ Sound(stage[u])
      BY <1>1, <2>2 DEF TypeOK, FirstPassInv
    <3> QED BY <2>2, <3>1, Reports
  <2> QED BY <2>1, <2>2
<1>3. \A T : PlansFirstPass(T, stage) => PlansFirstPass(T, stage')
  BY <1>2 DEF PlansFirstPass
<1> QED BY <1>1, <1>2, <1>3 DEF FirstPassInv, Plans

(* A candidate takes over all that its base plan says of first passes.       *)
LEMMA CandidateHasFirstPass ==
  ASSUME NEW p \in Plans, PlansFirstPass(plans[p].tasks, stage)
  PROVE  PlansFirstPass(OpenIn(p), stage)
<1> SUFFICES ASSUME NEW u \in Units, NEW s \in Steps, FirstPass(stage[u], s)
             PROVE  <<LotOf[u], s>> \in OpenIn(p)
  BY DEF PlansFirstPass
<1>1. <<LotOf[u], s>> \in plans[p].tasks
  BY DEF PlansFirstPass
<1>2. s \in OpenSteps(stage[u])
  BY DEF OpenSteps, FirstPass, Blocked, Repeated
<1>3. <<LotOf[u], s>> \in Open
  BY <1>2 DEF Open
<1> QED BY <1>1, <1>3 DEF OpenIn, LotsOf

LEMMA ServeKeepsFirstPass ==
  ASSUME IInv, FirstPassInv, NEW s \in Sessions, Serve(s)
  PROVE  FirstPassInv'
<1>1. TypeOK /\ SessionFacts(s)
  BY DEF IInv
<1>2. UNCHANGED stage
  BY DEF Serve, CheckParent, ReadPlan, CheckClock, Forecast, BuildCandidate, ReadBase, Confirm,
         Write, BusyTimeout
<1>3. \A T : PlansFirstPass(T, stage) => PlansFirstPass(T, stage')
  BY <1>2 DEF PlansFirstPass
<1>4. \A t \in Sessions : t # s => pc'[t] = pc[t] /\ seen'[t] = seen[t]
  BY <1>1 DEF TypeOK, Serve, CheckParent, ReadPlan, CheckClock, Forecast, BuildCandidate,
              ReadBase, Confirm, Write, BusyTimeout, Goto, Reply
<1>5. pc'[s] \in {"confirm", "write"} => PlansFirstPass(seen'[s].tasks, stage')
  <2>1. CASE \E outcome \in Outcomes : BuildCandidate(s, outcome)
    <3>1. pc[s] = "items"
      BY <2>1 DEF BuildCandidate
    <3>2. seen[s].base \in Plans
      BY <1>1, <3>1 DEF SessionFacts
    <3>3. pc'[s] = "idle" \/ seen'[s].tasks = OpenIn(seen[s].base)
      BY <1>1, <2>1 DEF BuildCandidate, Reply, TypeOK
    <3>4. PlansFirstPass(OpenIn(seen[s].base), stage)
      BY <3>2, CandidateHasFirstPass DEF FirstPassInv
    <3> QED BY <1>3, <3>3, <3>4
  <2>2. CASE Confirm(s)
    <3>1. PlansFirstPass(seen[s].tasks, stage)
      BY <2>2 DEF FirstPassInv, Confirm
    <3>2. pc'[s] = "idle" \/ seen' = seen
      BY <1>1, <2>2 DEF Confirm, Reply, TypeOK
    <3> QED BY <1>3, <3>1, <3>2
  <2>3. CASE \/ CheckParent(s) \/ ReadPlan(s) \/ CheckClock(s) \/ ReadBase(s) \/ Write(s)
             \/ BusyTimeout(s) \/ \E outcome \in Outcomes : Forecast(s, outcome)
    <3>1. pc'[s] \in {"idle", "plan", "clock", "forecast", "base", "items"}
      BY <1>1, <2>3 DEF TypeOK, CheckParent, ReadPlan, CheckClock, Forecast, ReadBase, Write,
                        BusyTimeout, Goto, Reply
    <3> QED BY <3>1
  <2> QED BY <2>1, <2>2, <2>3 DEF Serve
<1>6. \A p \in Plans' : PlansFirstPass(plans'[p].tasks, stage')
  <2>1. CASE plans' = plans
    BY <1>3, <2>1 DEF FirstPassInv, Plans
  <2>2. CASE Write(s)
    <3>1. pc[s] = "write" /\ plans' = PlansWritten(s)
      BY <2>2 DEF Write
    <3>2. Len(plans) \in Nat
      BY <1>1, LenProperties DEF TypeOK
    <3>3. Plans' = Plans \cup {Len(plans) + 1}
      BY <3>1, <3>2, Written DEF Plans
    <3>4. \A p \in Plans : plans'[p] = plans[p]
      BY <3>1, Written
    <3>5. plans'[Len(plans) + 1].tasks = seen[s].tasks
      <4>1. plans'[Len(plans) + 1] = NewPlan(s)
        BY <3>1, Written
      <4>2. NewPlan(s).tasks = seen[s].tasks
        BY DEF NewPlan
      <4> QED BY <4>1, <4>2
    <3>6. PlansFirstPass(seen[s].tasks, stage)
      BY <3>1 DEF FirstPassInv
    <3> QED BY <1>3, <3>3, <3>4, <3>5, <3>6 DEF FirstPassInv
  <2> QED BY <2>1, <2>2 DEF Serve, CheckParent, ReadPlan, CheckClock, Forecast, BuildCandidate,
                            ReadBase, Confirm, BusyTimeout
<1>7. \A t \in Sessions : pc'[t] \in {"confirm", "write"} => PlansFirstPass(seen'[t].tasks, stage')
  BY <1>3, <1>4, <1>5 DEF FirstPassInv
<1> QED BY <1>2, <1>6, <1>7 DEF FirstPassInv

LEMMA FirstPassKept == IInv /\ FirstPassInv /\ [Next]_vars => FirstPassInv'
<1> SUFFICES ASSUME IInv, FirstPassInv, [Next]_vars PROVE FirstPassInv'
  OBVIOUS
<1>1. CASE UNCHANGED vars
  BY <1>1 DEF vars, FirstPassInv, PlansFirstPass, Plans
<1>2. CASE Crash
  <2>1. UNCHANGED <<stage, plans>> /\ \A s \in Sessions : pc'[s] = "idle"
    BY <1>2 DEF Crash
  <2> QED BY <2>1 DEF FirstPassInv, PlansFirstPass, Plans
<1>3. ASSUME NEW s \in Sessions, NEW r \in Requests, Receive(s, r)
      PROVE  FirstPassInv'
  <2>1. UNCHANGED <<stage, plans, seen>> /\ pc' = [pc EXCEPT ![s] = "parent"] /\ TypeOK
    BY <1>3 DEF Receive, IInv
  <2>2. \A t \in Sessions : pc'[t] \in {"confirm", "write"} => pc[t] = pc'[t]
    BY <2>1 DEF TypeOK
  <2> QED BY <2>1, <2>2 DEF FirstPassInv, PlansFirstPass, Plans
<1> QED BY <1>1, <1>2, <1>3, WorkKeepsFirstPass, ServeKeepsFirstPass DEF Next

Unplanned(p, u) == {s \in OpenSteps(stage[u]) : <<LotOf[u], s>> \notin plans[p].tasks}
Reworked == \E u \in Units : Repeated(stage[u])

(* FirstPassIsPlanned: however many approvals raced and whatever was worked,   *)
(* the open work of a unit has its tasks in every approved plan until the    *)
(* unit fails a test; then only its rework and what is behind the test can    *)
(* be without one.  (persist_approved_replan stores the tasks of open work    *)
(* only; a finished step and a blocked one lose theirs.)                     *)
THEOREM FirstPassIsPlanned ==
  Spec => [](/\ \A p \in Plans, u \in Units : \A s \in Unplanned(p, u) :
                  Repeated(stage[u]) /\ (stage[u][s] \in {"rework", "working"} \/ s = "SHIPPING")
             /\ Reworked \/ OpenWorkPlanned)
<1> DEFINE Lost == \A p \in Plans, u \in Units : \A s \in Unplanned(p, u) :
                     Repeated(stage[u]) /\ (stage[u][s] \in {"rework", "working"} \/ s = "SHIPPING")
<1>1. IInv /\ FirstPassInv => Lost
  <2> SUFFICES ASSUME IInv, FirstPassInv, NEW p \in Plans, NEW u \in Units, NEW s \in Unplanned(p, u)
               PROVE  Repeated(stage[u]) /\ (stage[u][s] \in {"rework", "working"} \/ s = "SHIPPING")
    OBVIOUS
  <2>1. s \in Steps /\ stage[u][s] \in {"open", "rework", "working"} /\ ~ FirstPass(stage[u], s)
    BY DEF Unplanned, OpenSteps, FirstPassInv, PlansFirstPass
  <2>2. CASE stage[u][s] = "open"
    BY <2>1, <2>2 DEF FirstPass
  <2>3. CASE stage[u][s] \in {"rework", "working"}
    <3>1. Sound(stage[u])
      BY DEF FirstPassInv
    <3> QED BY <2>1, <2>3, <3>1 DEF Sound, Repeated, Steps
  <2> QED BY <2>1, <2>2, <2>3
<1>2. Lost => Reworked \/ OpenWorkPlanned
  <2> SUFFICES ASSUME Lost, ~ Reworked, NEW p \in Plans, NEW k \in Open
               PROVE  k \in plans[p].tasks
    BY DEF OpenWorkPlanned, IsCurrent, Highest, Approved
  <2>1. PICK u \in Units : k \in {LotOf[u]} \X OpenSteps(stage[u])
    BY DEF Open
  <2> QED BY <2>1 DEF Unplanned, Reworked
<1> QED BY <1>1, <1>2, Inductive, InitiallyFirstPass, FirstPassKept, PTL DEF Spec
=============================================================================
