--------------------------- MODULE ForecastInputs ---------------------------
(***************************************************************************)
(* How long the open work of a LOT is taken to last: the pace of each        *)
(* process (pace_snapshot.py, pace_estimator.py), the equal shares of what   *)
(* is left (pace_workload.py, pace_scheduler_adapter.py) and the bundle of   *)
(* scheduler inputs (forecast_input_bundle.py, rework_scheduler_adapter.py). *)
(* They are computed afresh, from the rows that ExecutionAtomic writes.       *)
(*                                                                         *)
(* All units belong to one LOT.  Work is counted in fractions of a minute,   *)
(* Grain to the minute, so fine that means and shares are whole numbers.     *)
(* No service writes hold_remaining_minutes or expected_remaining_minutes:    *)
(* a held unit falls back to the standard, an overrun one has no estimate.    *)
(***************************************************************************)
EXTENDS ExecutionProjection

CONSTANTS Standard, PaceMinSamples, Grain

Quantity == Cardinality(Units)
Processes == {ProcessOf[o] : o \in Ops}

ASSUME ForecastAssumption ==
  /\ IsFiniteSet(Ops)
  /\ Standard \in [Processes -> Nat \ {0}]
  /\ PaceMinSamples \in Nat \ {0}
  /\ Grain \in Nat \ {0}
  /\ \A m, n \in 1 .. Quantity : Grain % (m * n) = 0

(* The routing passes through a process once.                                *)
OneStepEach == \A o, p \in Ops : ProcessOf[o] = ProcessOf[p] => StepOf[o] = StepOf[p]

(* A forecast is refused for an instant that an event has overtaken.         *)
NotOvertaken(asOf) == \A i \in Indices : events[i].at <= asOf
State(r) == operation[r[1]].state

-----------------------------------------------------------------------------
(* Pace                                                                     *)

(* Mutant: the segment that is still running does not count.                *)
Effective_Closed(r, asOf) == Row(r).active

(* effective_attempt_active_minutes                                         *)
Effective(r, asOf) ==
  LET begun == {i \in EventsOf(r[1], r[2]) : events[i].type \in {"START", "RESUME"}}
  IN Row(r).active + IF IsCurrent(r) /\ State(r) = "RUNNING"
                     THEN asOf - Latest({events[i].at : i \in begun}) ELSE 0

Work(S, asOf) == MapThenSumSet(LAMBDA r : Effective(r, asOf), S)

Firsts(p) ==
  UNION {{<<o, n>> : n \in {n \in DOMAIN attempts[o] : attempts[o][n].role = "NONE"}} :
           o \in {o \in Ops : ProcessOf[o] = p}}
Samples(p, asOf) ==
  {r \in Firsts(p) : Row(r).endedAt # NoTime /\ Effective(r, asOf) > 0}

PaceOf(p, asOf) ==
  LET samples == Samples(p, asOf)
  IN IF Cardinality(samples) < PaceMinSamples THEN Grain * Standard[p]
     ELSE (Grain * Work(samples, asOf)) \div Cardinality(samples)

(* Mutant: only the units not yet done are planned.                         *)
Budget_Open(p, pace) == pace * Cardinality({r \in Firsts(p) : Unfinished(r)})

Budget(p, pace) == pace * Quantity

(* estimate_lot_process_work                                                *)
Pace(p, asOf) ==
  LET pace == PaceOf(p, asOf)
      balance == Budget(p, pace) - Grain * Work(Firsts(p), asOf)
  IN [pace |-> pace, remaining |-> IF balance > 0 THEN balance ELSE 0]

-----------------------------------------------------------------------------
(* The bundle                                                               *)

IsRework(r) == Row(r).role # "NONE"
Alike(open, r) ==
  {q \in open : ~ IsRework(q) /\ ProcessOf[q[1]] = ProcessOf[r[1]] /\ StepOf[q[1]] = StepOf[r[1]]}

(* distribute_remaining_normal_work                                         *)
Share(open, r, pace) == pace.remaining \div Cardinality(Alike(open, r))

NormalMinutes(open, r, pace) ==
  IF State(r) = "HOLD" THEN Grain * Standard[ProcessOf[r[1]]] ELSE Share(open, r, pace)

(* A staged rework lasts a pace.                                            *)
Minutes(open, r, pace) ==
  IF IsRework(r) THEN pace.pace ELSE NormalMinutes(open, r, pace)

(* A bundle may be built without an as_of: a running segment is not counted.  *)
Active(r, asOf) == IF asOf = NoTime THEN Row(r).active ELSE Effective(r, asOf)

Exceeds(r, pace, asOf) ==
  State(r) = "RUNNING" /\ Grain * Active(r, asOf) > pace.pace

Waits(open, r, pace, asOf) ==
  ~ IsRework(r) /\ (Exceeds(r, pace, asOf) \/ NormalMinutes(open, r, pace) <= 0)

(* build_internal_lot_forecast_inputs.  That it waits hides that a rework     *)
(* under way makes it raise ValueError.                                     *)
BundleOf(pace, asOf) ==
  LET open == UNION {SchedulerCurrent(u) : u \in Units}
      waiting == {r \in open : Waits(open, r, pace[ProcessOf[r[1]]], asOf)}
      readiness == IF waiting # {} THEN "WAIT"
                   ELSE IF \E r \in open : IsRework(r) /\ State(r) # "WAITING"
                   THEN "ValueError" ELSE "READY"
  IN [readiness |-> readiness,
      waiting   |-> waiting,
      items     |-> [r \in IF readiness = "READY" THEN open ELSE {} |->
                       Minutes(open, r, pace[ProcessOf[r[1]]])],
      pace      |-> pace]

PacesAt(asOf) == [p \in Processes |-> Pace(p, asOf)]
Bundle(asOf) == BundleOf(PacesAt(asOf), asOf)

-----------------------------------------------------------------------------
(* Properties                                                               *)

(* No event is later than MaxTime.  While nothing runs, time changes nothing. *)
AsOfs ==
  {t \in {MaxTime} \cup {MaxTime + 1 : o \in {o \in Ops : operation[o].state = "RUNNING"}} :
     NotOvertaken(t)}

(* The minutes of an attempt, read off the log alone.                       *)
LogMinutes(r, asOf) == Cardinality({t \in 0 .. asOf - 1 : WorkedAt(r[1], r[2], t)})

(* WorkConserved: what a forecast still schedules of a process and what the   *)
(* log shows of it add up to pace times quantity: rolling the remaining work *)
(* over unfinished units neither loses nor invents work.  (Held units are     *)
(* scheduled for the standard, outside the budget.)                          *)
WorkConserved ==
  \A asOf \in AsOfs :
    LET bundle == Bundle(asOf)
    IN bundle.readiness = "READY" =>
         \A p \in Processes :
           LET firsts == Firsts(p)
               open == firsts \cap DOMAIN bundle.items
           IN open # {} /\ (\A r \in open : State(r) # "HOLD") =>
                MapThenSumSet(LAMBDA r : bundle.items[r], open)
                  + Grain * MapThenSumSet(LAMBDA r : LogMinutes(r, asOf), firsts)
                = bundle.pace[p].pace * Quantity

(* WaitsForCause: once a process has its samples, its units are not waited    *)
(* for as long as each unfinished one has been worked on for less than the   *)
(* pace, however unevenly the others went.                                  *)
WaitsForCause ==
  \A asOf \in AsOfs :
    LET bundle == Bundle(asOf)
    IN \A r \in bundle.waiting :
         LET p == ProcessOf[r[1]]
         IN \/ Cardinality(Samples(p, asOf)) < PaceMinSamples
            \/ \E q \in Firsts(p) :
                 Unfinished(q) /\ Grain * LogMinutes(q, asOf) >= bundle.pace[p].pace
=============================================================================
