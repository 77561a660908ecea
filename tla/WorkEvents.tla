----------------------------- MODULE WorkEvents -----------------------------
(***************************************************************************)
(* The pure execution core (core/execution_state.py): one WorkEvent applied *)
(* to the snapshot of one WorkAttempt.  The module has no state of its own;  *)
(* Execution (the persisted service) and ExecutionAtomic (what it promises)  *)
(* are both built from these operators.                                     *)
(*                                                                         *)
(* Instants are naturals: the service compares timezone-aware datetimes,    *)
(* which are totally ordered.  A reason is abstracted to whether it is      *)
(* non-empty once stripped.                                                 *)
(***************************************************************************)
EXTENDS Integers

EventTypes == {"START", "HOLD", "RESUME", "COMPLETE", "PASS", "FAIL"}
OperationStates == {"WAITING", "RUNNING", "HOLD", "COMPLETED"}
Results == {"NONE", "PASS", "FAIL"}

NoTime == -1                              \* a timestamp column that is null

(* What the service knows of an attempt when it applies an event: the       *)
(* OperationExecutionSnapshot without its identifying strings.              *)
Snapshots(instants) ==
  [state : OperationStates, active : Nat, startedAt : instants \cup {NoTime},
   lastAt : instants \cup {NoTime}, result : Results]

-----------------------------------------------------------------------------
(* _validate_event_order: time never moves backward within an attempt.      *)
InOrder(snap, ev) == snap.lastAt <= ev.at

(* PASS and FAIL may both end a running attempt and judge a completed one.   *)
IsVerdict(ev) == ev.type \in {"PASS", "FAIL"}
StopsWork(ev) == ev.type \in {"HOLD", "COMPLETE", "PASS", "FAIL"}

(* FINAL_TEST FAIL is the only event that sends a unit back to tuning.       *)
TriggersRework(ev, process) == ev.type = "FAIL" /\ process = "FINAL_TEST"

(* _require_reason: holding, and failing a final test, must be explained.    *)
Explained(ev, process) ==
  ev.type = "HOLD" \/ TriggersRework(ev, process) => ev.reason

AllowedIn(ev) ==
  CASE ev.type = "START"              -> {"WAITING"}
    [] ev.type = "RESUME"             -> {"HOLD"}
    [] ev.type \in {"HOLD", "COMPLETE"} -> {"RUNNING"}
    [] OTHER                          -> {"RUNNING", "COMPLETED"}

(* The conditions under which apply_work_event does not raise ValueError.    *)
Legal(snap, ev, process) ==
  /\ InOrder(snap, ev)
  /\ snap.state \in AllowedIn(ev)
  /\ IsVerdict(ev) => snap.result = "NONE"
  /\ snap.state = "RUNNING" /\ StopsWork(ev) => snap.startedAt <= ev.at
  /\ Explained(ev, process)

(* Mutant: every event adds the time since the one before, held or not.      *)
ActiveAfter_Held(snap, ev) ==
  IF snap.state \in {"RUNNING", "HOLD"} THEN snap.active + (ev.at - snap.lastAt)
  ELSE snap.active

(* _active_minutes_until: a stop adds the running segment that it closes.    *)
ActiveAfter(snap, ev) ==
  IF snap.state = "RUNNING" /\ StopsWork(ev)
  THEN snap.active + (ev.at - snap.startedAt)
  ELSE snap.active

(* Mutant: the type of a stopping event is taken for the state it leaves.    *)
StateAfter_Raw(ev) ==
  IF ev.type \in {"START", "RESUME"} THEN "RUNNING" ELSE ev.type

StateAfter(ev) ==
  CASE ev.type \in {"START", "RESUME"} -> "RUNNING"
    [] ev.type = "HOLD"                -> "HOLD"
    [] OTHER                           -> "COMPLETED"

(* The snapshot an accepted event leaves.                                   *)
After(snap, ev) ==
  [state     |-> StateAfter(ev),
   active    |-> ActiveAfter(snap, ev),
   startedAt |-> IF StateAfter(ev) = "RUNNING" THEN ev.at ELSE NoTime,
   lastAt    |-> ev.at,
   result    |-> IF IsVerdict(ev) THEN ev.type ELSE snap.result]
=============================================================================
