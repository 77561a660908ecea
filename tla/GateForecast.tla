---------------------------- MODULE GateForecast ----------------------------
(***************************************************************************)
(* persistence/forecast_result.py and core/risk_engine.py: when the units of  *)
(* a LOT are forecast to have passed the step that an inspection gate waits  *)
(* for, and how late that is.  Each routing step, external or not, has one    *)
(* pending gate, named by the step's seq_no; the schedule is a function `end` *)
(* from the items of the forecast to the instants at which they end.         *)
(***************************************************************************)
EXTENDS ExternalSteps

CONSTANTS PlannedAt, WarningThreshold

Gates == {StepOf[o] : o \in Ops} \cup External

ASSUME GateAssumption ==
  /\ PlannedAt \in [Gates -> Nat]
  /\ WarningThreshold \in Nat

(* Every unit of the LOT has the steps of the one routing.                   *)
SameRouting == \A o \in Ops, u \in Units : \E p \in OpsOf(u) : StepOf[p] = StepOf[o]

Required(s) == {o \in Ops : StepOf[o] = s}
CurrentRow(o) == attempts[o][Current(o)]

(* Mutant: any completed test will do.                                      *)
Settled_Unjudged(o) ==
  operation[o].state = "COMPLETED" /\ CurrentRow(o).endedAt # NoTime

Settled(o) ==
  /\ operation[o].state = "COMPLETED" /\ CurrentRow(o).endedAt # NoTime
  /\ ProcessOf[o] = "FINAL_TEST" => CurrentRow(o).result = "PASS"

Ends(s, end) ==
  {CurrentRow(o).endedAt : o \in {o \in Required(s) : Settled(o)}}
    \cup {end[r] : r \in {r \in DOMAIN end : StepOf[r[1]] = s}}

Covered(s, end) ==
  {UnitOf[o] : o \in {o \in Required(s) : Settled(o)}}
    \cup {UnitOf[r[1]] : r \in {r \in DOMAIN end : StepOf[r[1]] = s}}

AllReach(s, end) == Units \subseteq Covered(s, end)
Dated(s, end) == IF s \in External THEN s \in Barriers ELSE AllReach(s, end)
ForecastAt(s, end) == IF s \in External THEN Finish(s) ELSE Max(Ends(s, end))

-----------------------------------------------------------------------------
(* Risk: 0 NORMAL, 1 WARNING, 2 URGENT                                      *)

(* Mutant: a gate met at the last instant is not urgent.                    *)
Risk_Before(slack) == IF slack < 0 THEN 2 ELSE IF slack <= WarningThreshold THEN 1 ELSE 0

Risk(slack) == IF slack <= 0 THEN 2 ELSE IF slack <= WarningThreshold THEN 1 ELSE 0

Slack(s, end) == PlannedAt[s] - ForecastAt(s, end)
LotRisk(end) ==
  Max({0} \cup {Risk(Slack(s, end)) : s \in {s \in Gates : Dated(s, end)}})

(* A LOT is rated while something of it is scheduled or an external step is   *)
(* dated; the forecast is ready when no gate lacks a date.                   *)
Rated(end) == DOMAIN end # {} \/ Barriers # {}
Ready(end) == \A s \in Gates : Dated(s, end)

(* Mutant: external steps are over when internal work is.                    *)
LotEnd_Internal(end) == Max({end[r] : r \in DOMAIN end})

LotEnd(end) == Max({end[r] : r \in DOMAIN end} \cup {Finish(x) : x \in Barriers})

-----------------------------------------------------------------------------
(* Properties                                                               *)

FailedTest(u, s) ==
  \E f \in OpsOf(u) : /\ ProcessOf[f] = "FINAL_TEST" /\ StepOf[f] < s
                      /\ attempts[f][Len(attempts[f])].result = "FAIL"

(* GateDated: a gate is given a date exactly when every unit is to reach it:  *)
(* its step is over, with PASS if it is the final test, or is still to be    *)
(* done and no failed test stands before it; or it is an external step that   *)
(* the manager has dated.                                                   *)
GateDated ==
  \A asOf \in AsOfs :
    \A end \in LiveSchedules(asOf) : \A s \in Gates :
      Dated(s, end) <=>
        /\ s \in External => external[s] # NoDates
        /\ \A o \in Required(s) :
             IF operation[o].state = "COMPLETED"
             THEN ProcessOf[o] = "FINAL_TEST" => attempts[o][Len(attempts[o])].result = "PASS"
             ELSE ~ FailedTest(UnitOf[o], s)

(* UrgentWhenLate: when the forecast is ready, the LOT is URGENT exactly when some  *)
(* unit passes a step at its gate's planned instant or after it, or an       *)
(* external step is not over before its gate.                               *)
UrgentWhenLate ==
  \A asOf \in AsOfs :
    \A end \in LiveSchedules(asOf) :
      Rated(end) /\ Ready(end) =>
        (LotRisk(end) = 2 <=>
          \/ \E x \in External : ~ Over(x, PlannedAt[x] - 1)
          \/ \E o \in Ops :
               LET n == Current(o)
                   over == IF operation[o].state = "COMPLETED" THEN attempts[o][n].endedAt
                           ELSE end[<<o, n>>]
               IN over >= PlannedAt[StepOf[o]])

(* EndCoversGates: while work of a LOT is left, no gate of it is forecast for  *)
(* later than the end of the LOT, whether it waits for internal work, past   *)
(* or to come, or for another team.                                         *)
EndCoversGates ==
  \A asOf \in AsOfs :
    \A end \in LiveSchedules(asOf) :
      DOMAIN end # {} =>
        \A s \in Gates : Dated(s, end) => ForecastAt(s, end) <= LotEnd(end)
=============================================================================
