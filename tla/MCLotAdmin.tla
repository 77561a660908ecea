----------------------------- MODULE MCLotAdmin -----------------------------
(* Two administrators of the demo database, which is initialised again and    *)
(* again.  Both may change the same row at the same time, but only one of     *)
(* them at a time moves the release of the LOT.                              *)
EXTENDS DemoRuntime, TLC

CONSTANTS s1, s2, o1

AnySession == Permutations(Sessions)

OneMoveAgain == OneMove'

(* init_db is tried between requests.                                       *)
Between == tool' # "idle" => Idle'

(* What a session does next does not depend on its last answer.              *)
Unanswered == <<table, eligible, worked, lock, pc, req, row, ops, demo, early>>
=============================================================================
