-------------------------- MODULE MCExecutionAtomic -------------------------
(* A LOT of two units that are tuned, tested and packed.  Either the first    *)
(* unit is followed through its life while the second waits, or the two are   *)
(* tuned side by side.  The first events are reported over a few instants,   *)
(* with all the holds the service allows; what comes later, the rounds of    *)
(* rework, is reported at the last instant and never held.  So is everything *)
(* in a life that reaches the packing.  Tests are not held, and a failure     *)
(* always has a reason.  Another team's step comes between tuning and test;   *)
(* done at first; its dates are stated anew in a life at the last instant in  *)
(* which packing does not begin.                                            *)
EXTENDS GateForecast

CONSTANTS tuning, test, packing, tuning2, test2, packing2, Early, Side

Unit == [o \in Ops |-> IF o \in {tuning, test, packing} THEN 1 ELSE 2]
Process == [o \in Ops |-> IF o \in {tuning, tuning2} THEN "TUNING" ELSE
                          IF o \in {test, test2} THEN "FINAL_TEST" ELSE "OTHER"]
Step == [o \in Ops |-> IF o \in {tuning, tuning2} THEN 1 ELSE
                       IF o \in {test, test2} THEN 3 ELSE 4]
StandardMinutes == [p \in {Process[o] : o \in Ops} |-> 1]
Plan == [s \in {Step[o] : o \in Ops} \cup External |-> IF s < 3 THEN s + 1 ELSE s]

Dates == {<<NoTime, NoTime>>, <<MaxTime + 2, NoTime>>, <<MaxTime + 2, MaxTime>>}
Done == [x \in External |-> [expected |-> NoTime, actual |-> 0]]

Plain(e) == e.at = MaxTime /\ e.type \notin {"HOLD", "RESUME"}
Likely ==
  [n \in EventIds |->
     {r \in Requests : /\ r.id = n
                       /\ r.op \in {tuning, test, packing, tuning2}
                       /\ r.type = "FAIL" => r.reason
                       /\ r.type = "HOLD" => r.op # test
                       /\ r.op = packing => r.type \in {"START", "COMPLETE"}
                       /\ r.op = tuning2 => r.type \notin {"PASS", "FAIL"}
                       /\ r.id > Early => r.op = tuning2 \/ Plain(r)
                       /\ r.op = packing => Plain(r)}]

Packed(r) == r.op = packing \/ \E i \in Indices : events[i].op = packing

ASSUME Layout == TunedThenTested /\ OneStepEach /\ SameRouting

(* One unit's life.                                                         *)
Alone ==
  /\ Len(events) < MaxEvents
  /\ \A i \in Indices : UnitOf[events[i].op] = 1
  /\ \E r \in Likely[Len(events) + 1] :
       /\ r.op # tuning2
       /\ Packed(r) => Plain(r) /\ \A i \in Indices : Plain(events[i])
       /\ external # Done => Plain(r) /\ r.op # packing
       /\ Accept(r)
  /\ UNCHANGED external

(* Two units are tuned; the first was begun first.                          *)
Tuning(e) == e.op \in {tuning, tuning2} /\ e.type \notin {"PASS", "FAIL"}
SideBySide ==
  /\ Len(events) \in 1 .. Side - 1
  /\ \A i \in Indices : Tuning(events[i])
  /\ \E r \in Likely[Len(events) + 1] :
       /\ Tuning(r)
       /\ r.op = tuning2 \/ \E i \in Indices : events[i].op = tuning2
       /\ Accept(r)
  /\ external = Done
  /\ UNCHANGED external

(* The manager is told of the other team's step.                            *)
Stated ==
  /\ \A i \in Indices : Plain(events[i]) /\ events[i].op \in {tuning, test}
  /\ \E x \in External, dates \in Dates : Save(x, dates[1], dates[2])
  /\ UNCHANGED vars

(* Any unit, any order, and the other team.                                 *)
Shop == ShopInit /\ [][(Next /\ UNCHANGED external) \/ Stated]_<<vars, external>>

LivesInit == Init /\ external = Done
Lives == LivesInit /\ [][Alone \/ SideBySide \/ Stated]_<<vars, external>>
=============================================================================
