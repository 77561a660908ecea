-------------------------- MODULE MCEventScheduler --------------------------
(* Two units that are assembled and then tested, and a unit of another LOT    *)
(* that needs both workers.  Two instants of work a day, and no third day.    *)
EXTENDS EventScheduler, TLC

CONSTANTS a1, a2, b1, b2, c, worker, tester

Lot == [o \in Ops |-> IF o \in {a1, a2, b1, b2} THEN 1 ELSE 2]
Unit ==
  [o \in Ops |-> IF o \in {a1, b1} THEN 1 ELSE IF o \in {a2, b2} THEN 2 ELSE IF o = c THEN 3
                 ELSE Cardinality(Ops)]
Routing == [o \in Ops |-> IF o \in {b1, b2} THEN 2 ELSE 1]
Resource == {worker, tester}
Pool == worker :> 2 @@ tester :> 1
Requirement ==
  [o \in Ops |-> IF o \in {b1, b2} THEN worker :> 1 @@ tester :> 1
                 ELSE IF o = c THEN worker :> 2 ELSE worker :> 1]

AtStep(n, x, y) == [o \in Ops |-> IF o = c THEN 1 ELSE IF StepOf[o] = n THEN x ELSE y]

Job(ops, start, assembly, test, late, running, k) ==
  [ops |-> ops, start |-> start,
   duration |-> AtStep(1, assembly, test),
   release |-> [o \in Ops |-> 0],
   eligible |-> [o \in Ops |-> IF o = a2 THEN late ELSE 0],
   state |-> [o \in Ops |-> IF o \in running THEN "RUNNING"
                            ELSE IF o = c THEN "HOLD" ELSE "WAITING"],
   buffer |-> [o \in Ops |-> IF o \in {b1, b2} THEN k ELSE None]]

(* Nothing is finished yet.                                                 *)
WholeLots ==
  {Job(Ops, start, assembly, test, late, running, k) :
     start \in {1, 2, 3}, assembly \in {1, 3}, test \in {2},
     late \in {0, 2, 4}, running \in {{}, {a1}, {a1, c}}, k \in {None, 2}}

(* One assembly was finished before the snapshot.                           *)
BegunLot == {Job(Ops \ {a1}, 1, 1, 1, 0, {}, k) : k \in {1, 2}}
=============================================================================
