------------------------ MODULE ExecutionProjection -------------------------
(***************************************************************************)
(* persistence/execution_projection.py: the order in which the attempts of a  *)
(* unit are to be executed, computed afresh from the rows at each forecast.   *)
(* Routing gives the first attempts their order; what a failed test has       *)
(* caused is inserted after the attempt that failed.                        *)
(*                                                                         *)
(* An attempt is <<operation, attempt_no>>.  The rows are those that          *)
(* ExecutionAtomic writes.                                                  *)
(***************************************************************************)
EXTENDS ExecutionAtomic, SequencesExt

CONSTANT StepOf      \* seq_no of an operation's routing step

ASSUME ProjectionAssumption ==
  /\ StepOf \in [Ops -> Nat \ {0}]
  /\ \A o, p \in Ops : UnitOf[o] = UnitOf[p] /\ StepOf[o] = StepOf[p] => o = p

(* The routings that rework is made for: a unit is tuned once and tested once, *)
(* later (_single_operation_by_process).                                     *)
TunedThenTested ==
  /\ \A o, p \in Ops : UnitOf[o] = UnitOf[p] /\ ProcessOf[o] = ProcessOf[p]
                        /\ ProcessOf[o] \in {"TUNING", "FINAL_TEST"} => o = p
  /\ \A f, t \in Ops :
       UnitOf[f] = UnitOf[t] /\ ProcessOf[f] = "FINAL_TEST" /\ ProcessOf[t] = "TUNING" =>
         StepOf[t] < StepOf[f]

Units == {UnitOf[o] : o \in Ops}
OpsOf(u) == {o \in Ops : UnitOf[o] = u}

Records(u) == UNION {{<<o, n>> : n \in DOMAIN attempts[o]} : o \in OpsOf(u)}
Row(r) == attempts[r[1]][r[2]]

-----------------------------------------------------------------------------
(* What a failed test has caused                                            *)

FirstBy(S, k) == CHOOSE o \in S : Cardinality({p \in S : StepOf[p] <= StepOf[o]}) = k
BaseOrder(u) ==
  [k \in 1 .. Cardinality(OpsOf(u)) |-> <<FirstBy(OpsOf(u), k), 1>>]

Repairs(u) == {r \in Records(u) : r[2] # 1}
Causes(u) == {Row(r).event : r \in Repairs(u)}
Group(u, id) == {r \in Repairs(u) : Row(r).event = id}

EventOf(id) == events[CHOOSE i \in Indices : events[i].id = id]
SourceOf(id) == <<EventOf(id).op, EventOf(id).attempt>>

(* _rework_groups raises ValueError unless this holds.                      *)
Traced(u) ==
  /\ \A r \in Repairs(u) :
       /\ Row(r).role # "NONE" /\ Row(r).source # None
       /\ Recorded(Row(r).event)
       /\ SourceOf(Row(r).event) \in Records(u)
       /\ Row(r).source = EventOf(Row(r).event).op
  /\ \A r, q \in Repairs(u) :
       Row(r).event = Row(q).event /\ Row(r).role = Row(q).role => r = q

InRole(u, id, role) == SetToSeq({r \in Group(u, id) : Row(r).role = role})

(* Mutant: the retest is put ahead of the tuning.                            *)
InRoleOrder_Reversed(u, id) ==
  InRole(u, id, "FINAL_TEST_RETEST") \o InRole(u, id, "TUNING_REWORK")

InRoleOrder(u, id) ==
  InRole(u, id, "TUNING_REWORK") \o InRole(u, id, "FINAL_TEST_RETEST")

-----------------------------------------------------------------------------
(* The order                                                                *)

(* Mutant: ahead of the attempt that failed.                                *)
InsertAfter_Ahead(order, source, group) ==
  LET k == CHOOSE k \in DOMAIN order : order[k] = source
  IN SubSeq(order, 1, k - 1) \o group \o SubSeq(order, k, Len(order))

InsertAfter(order, source, group) ==
  LET k == CHOOSE k \in DOMAIN order : order[k] = source
  IN SubSeq(order, 1, k) \o group \o SubSeq(order, k + 1, Len(order))

Earlier(id, other) ==
  LET t == EventOf(id).at  v == EventOf(other).at
  IN t < v \/ (t = v /\ id < other)

(* _insert_rework_groups, on the order so far and the causes still pending:   *)
(* the earliest cause whose attempt has its place is next.                   *)
Placed(w) == {id \in w[2] : SourceOf(id) \in ToSet(w[1])}
Earliest(S) == CHOOSE id \in S : \A other \in S \ {id} : Earlier(id, other)
Insert(u, w) ==
  LET id == Earliest(Placed(w))
  IN <<InsertAfter(w[1], SourceOf(id), InRoleOrder(u, id)), w[2] \ {id}>>

(* With none that has its place, ValueError.                                 *)
Unresolvable == <<>>
Order(u) ==
  LET insert[w \in Seq(Records(u)) \X SUBSET Causes(u)] ==
        IF w[2] = {} THEN w[1] ELSE IF Placed(w) = {} THEN Unresolvable ELSE insert[Insert(u, w)]
  IN insert[<<BaseOrder(u), Causes(u)>>]

-----------------------------------------------------------------------------
(* What is left to do                                                       *)

IsCurrent(r) == r[2] = Current(r[1])
Unfinished(r) == IsCurrent(r) /\ operation[r[1]].state # "COMPLETED"

Roles(u, id) == {Row(r).role : r \in Group(u, id)}

(* Mutant: a rework that has been judged no longer holds anything back.      *)
Unresolved_Judged(u, id) ==
  \E r \in Group(u, id) : /\ Row(r).role = "TUNING_REWORK" /\ Unfinished(r)
                          /\ "FINAL_TEST_RETEST" \notin Roles(u, id)

Unresolved(u, id) ==
  "TUNING_REWORK" \in Roles(u, id) /\ "FINAL_TEST_RETEST" \notin Roles(u, id)

Blocked(u) ==
  {r \in Records(u) : /\ r[2] = 1 /\ Unfinished(r)
                      /\ \E id \in Causes(u) :
                           Unresolved(u, id) /\ StepOf[r[1]] > StepOf[SourceOf(id)[1]]}

SchedulerCurrent(u) == {r \in Records(u) : Unfinished(r)} \ Blocked(u)

-----------------------------------------------------------------------------
(* Properties                                                               *)

(* ProjectionComplete: whatever the service has recorded, the order can be    *)
(* computed and gives every attempt one place, those of an operation in the  *)
(* order of their numbers (execution_projection.py against the rows that     *)
(* execution_service.py writes).                                            *)
ProjectionComplete ==
  \A u \in Units :
    /\ Traced(u)
    /\ LET order == Order(u)
       IN /\ ToSet(order) = Records(u) /\ Len(order) = Cardinality(Records(u))
          /\ \A i, j \in DOMAIN order :
               order[i][1] = order[j][1] /\ order[i][2] < order[j][2] => i < j

(* r is rework that a failure recorded on f has caused.                     *)
Caused(f, r) ==
  \E i \in EventsOf(f[1], f[2]) : events[i].type = "FAIL" /\ events[i].id = Row(r).event

(* RepairInPlace: a failed test is followed by its tuning and its retest, and *)
(* they come before every later step of the unit's routing.                 *)
RepairInPlace ==
  \A u \in Units : Repairs(u) # {} =>
    LET order == Order(u)
    IN \A i, j \in DOMAIN order : \A f \in Records(u) :
         Caused(f, order[i]) =>
           /\ order[j] = f => j < i
           /\ Caused(f, order[j]) /\ Row(order[j]).role = "TUNING_REWORK" => j <= i
           /\ order[j][2] = 1 /\ StepOf[order[j][1]] > StepOf[f[1]] => i < j

(* DownstreamHeld: a step after the final test is left to be scheduled when   *)
(* and only when the unit's latest test has not failed.                     *)
DownstreamHeld ==
  \A u \in Units : \A f, o \in OpsOf(u) :
    ProcessOf[f] = "FINAL_TEST" /\ StepOf[o] > StepOf[f] /\ operation[o].state # "COMPLETED" =>
      (<<o, 1>> \in SchedulerCurrent(u) <=> attempts[f][Len(attempts[f])].result # "FAIL")
=============================================================================
