--------------------------- MODULE ExternalSteps ----------------------------
(***************************************************************************)
(* persistence/external_step_barrier.py: steps that another team performs on  *)
(* a whole LOT.  The manager states when such a step is expected to finish    *)
(* and when it has; the full bundle of a LOT keeps the work behind it back    *)
(* until then.  No endpoint builds the full bundle.                          *)
(***************************************************************************)
EXTENDS ForecastInputs

CONSTANT External      \* seq_no of the LOT_LEAD_TIME steps of the routing

ASSUME ExternalAssumption ==
  /\ External \subseteq Nat \ {0} /\ IsFiniteSet(External)
  /\ External \cap {StepOf[o] : o \in Ops} = {}

VARIABLE external      \* the LOT's lot_external_step rows

(* A row that is missing says as much as one without a date.                 *)
NoDates == [expected |-> NoTime, actual |-> NoTime]
InitExternal == external = [x \in External |-> NoDates]

(* save_lot_external_step_state inserts or updates the row.                  *)
Save(x, expected, actual) ==
  external' = [external EXCEPT ![x] = [expected |-> expected, actual |-> actual]]

(* The shop floor reports, and the manager states and restates any dates.     *)
ShopInit == Init /\ InitExternal
Told ==
  \E x \in External, expected, actual \in Nat \cup {NoTime} : Save(x, expected, actual)
ShopNext == (Next /\ UNCHANGED external) \/ (Told /\ UNCHANGED vars)
ShopSpec == ShopInit /\ [][ShopNext]_<<vars, external>>

-----------------------------------------------------------------------------
(* load_lot_external_barriers                                               *)

Finish(x) ==
  IF external[x].actual # NoTime THEN external[x].actual ELSE external[x].expected

Barriers == {x \in External : Finish(x) # NoTime}

(* Mutant: a barrier holds back the next step only.                          *)
Applicable_Next(r) == {x \in Barriers : StepOf[r[1]] = x + 1}

Applicable(r) == {x \in Barriers : StepOf[r[1]] > x}

(* The LOT is released at 0.                                                *)
ReleasedAt(r) == Max({0} \cup {Finish(x) : x \in Applicable(r)})

(* build_full_lot_forecast_inputs waits until every external step is dated.  *)
(* Its paces are the caller's, those of the live forecast here; it takes no   *)
(* as_of.                                                                   *)
FullReady(bundle) == bundle.readiness = "READY" /\ Barriers = External

FullReleases(asOf) ==
  LET bundle == BundleOf(PacesAt(asOf), NoTime)
  IN [r \in IF FullReady(bundle) THEN DOMAIN bundle.items ELSE {} |-> ReleasedAt(r)]

-----------------------------------------------------------------------------
(* Properties                                                               *)

(* The schedules in which all work ends soon after it can begin.             *)
Schedules(releases, asOf) ==
  {[r \in DOMAIN releases |-> Max({asOf, releases[r]}) + d] : d \in 1 .. 2}

FullSchedules(asOf) == Schedules(FullReleases(asOf), asOf)

(* GET /forecast schedules the bundle as it is.                             *)
LiveSchedules(asOf) ==
  LET bundle == Bundle(asOf)
  IN IF bundle.readiness # "READY" THEN {}
     ELSE Schedules([r \in DOMAIN bundle.items |-> 0], asOf)

(* What the manager has stated last: what happened, else what is expected.    *)
Over(x, t) ==
  \/ external[x].actual # NoTime /\ external[x].actual <= t
  \/ external[x].actual = NoTime /\ external[x].expected # NoTime /\ external[x].expected <= t

(* FullForecastHonoured: in a forecast from the full bundle no work, rework    *)
(* or retest of any unit ends before each external step in front of it is    *)
(* over.                                                                    *)
FullForecastHonoured ==
  \A asOf \in AsOfs : \A end \in FullSchedules(asOf) :
    \A r \in DOMAIN end, x \in External : StepOf[r[1]] > x => Over(x, end[r])

(* LiveForecastHonoured: "Forecast uses actual finish when known, otherwise the *)
(* current expected finish": a live forecast does not have work end before an *)
(* external step in front of it whose finish is known.                       *)
LiveForecastHonoured ==
  \A asOf \in AsOfs : \A end \in LiveSchedules(asOf) :
    \A r \in DOMAIN end, x \in External :
      StepOf[r[1]] > x /\ external[x] # NoDates => Over(x, end[r])
=============================================================================
