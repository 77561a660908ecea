------------------------------ MODULE MCExecution ---------------------------
(* One unit, tuned and tested.  AnySpec and AheadSpec also start      *)
(* later in its life, in a state that serial requests reach from Init: the   *)
(* tuning done and the test running; the test failed and the tuning rework   *)
(* running; the test running before the tuning has begun, which the service  *)
(* does not forbid.                                                         *)
EXTENDS Execution, TLC

CONSTANTS tuning, test

Unit == [o \in Ops |-> 1]
Process == [o \in Ops |-> IF o = tuning THEN "TUNING" ELSE "FINAL_TEST"]
AnySession == Permutations(Sessions)

(* What a session does next does not depend on its last answer.              *)
Unanswered == <<operation, attempts, events, pc, req, opRead, attRead, evRead>>

Happened(t, o, n, types, from) ==
  [i \in 1 .. Len(types) |->
     [id |-> from + i, op |-> o, attempt |-> n, type |-> types[i], at |-> t,
      reason |-> types[i] = "FAIL"]]

Begun(t, a) == [a EXCEPT !.startedAt = t]
Ended(t, a, result) == [Begun(t, a) EXCEPT !.endedAt = t, !.result = result]
Row(state, n, t) == [state |-> state, current |-> n, eligibleAt |-> t]

TestRunning(t) ==
  /\ operation = tuning :> Row("COMPLETED", 1, 0) @@ test :> Row("RUNNING", 1, 0)
  /\ attempts = tuning :> <<Ended(t, FirstAttempt, "NONE")>> @@ test :> <<Begun(t, FirstAttempt)>>
  /\ events = Happened(t, tuning, 1, <<"START", "COMPLETE">>, 0)
               \o Happened(t, test, 1, <<"START">>, 2)

ReworkRunning(t) ==
  /\ operation = tuning :> Row("RUNNING", 2, t) @@ test :> Row("COMPLETED", 1, 0)
  /\ attempts = tuning :> <<Ended(t, FirstAttempt, "NONE"),
                            Begun(t, NewAttempt("TUNING_REWORK", test, 4))>>
                @@ test :> <<Ended(t, FirstAttempt, "FAIL")>>
  /\ events = Happened(t, tuning, 1, <<"START", "COMPLETE">>, 0)
               \o Happened(t, test, 1, <<"START", "FAIL">>, 2)
               \o Happened(t, tuning, 2, <<"START">>, 4)

(* The test has begun, the tuning has not.                                  *)
TestAhead ==
  /\ operation = tuning :> Row("WAITING", 1, 0) @@ test :> Row("RUNNING", 1, 0)
  /\ attempts = tuning :> <<FirstAttempt>> @@ test :> <<Begun(0, FirstAttempt)>>
  /\ events = Happened(0, test, 1, <<"START">>, 0)

NoRequests ==
  /\ pc = [s \in Sessions |-> "idle"]
  /\ req = [s \in Sessions |-> None]
  /\ opRead = [s \in Sessions |-> None]
  /\ attRead = [s \in Sessions |-> None]
  /\ evRead = [s \in Sessions |-> None]
  /\ code = [s \in Sessions |-> 0]

(* Two requests at a time on a unit that is new, in its test or in its       *)
(* rework.  A unit that starts later starts at a later instant, at which     *)
(* everything happens: so the first event tells how many there may be.       *)
(* Every reason that is needed is given.                                    *)
Stage == IF events = <<>> THEN 0 ELSE events[1].at
Room == <<2, 5, 7>>[Stage + 1]     \* two events more than have happened

AnyInit ==
  \/ Init
  \/ NoRequests /\ TestRunning(1)
  \/ NoRequests /\ ReworkRunning(2)
Expected(r) ==
  /\ r.at = Stage /\ r.id <= Room
  /\ r.reason = (r.type \in {"HOLD", "FAIL"})
AnyStep == \A s \in Sessions : req'[s] = None \/ Expected(req'[s])
AnySpec == AnyInit /\ [][Next]_vars

(* Nobody holds, resumes or passes anything.                                *)
PlainStep ==
  \A s \in Sessions : req'[s] = None \/ req'[s].type \in {"START", "COMPLETE", "FAIL"}
AheadSpec == TestAhead /\ NoRequests /\ [][Next]_vars
=============================================================================
