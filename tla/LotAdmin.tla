------------------------------ MODULE LotAdmin ------------------------------
(***************************************************************************)
(* PATCH /lots and PATCH /inspection-gates (persistence/admin_management.py) *)
(* served by several request threads while work is reported on the LOT.     *)
(*                                                                         *)
(* Rule D060: release_at is copied into the eligible_at of every operation   *)
(* of the LOT, both may change only while the LOT has no WorkEvent, and they *)
(* change together.  Rows are read in autocommit; the first UPDATE takes     *)
(* SQLite's write lock, which is held until COMMIT.                         *)
(***************************************************************************)
EXTENDS Integers

CONSTANTS
  Sessions,      \* request threads, each with its own database session
  Ops,           \* the operations materialised for the LOT
  Named,         \* bound: the columns that clients name in a PATCH
  Values,        \* values of the mutable columns (timestamps and statuses)
  None           \* a null column; no session

Tables == {"lot", "gate"}
Columns(e) == IF e = "lot" THEN {"release_at", "due_at", "status"}
              ELSE {"planned_at", "completed_at", "status"}

(* A row that is missing is not a row, no session is not a session.          *)
ASSUME LotAdminAssumption ==
  /\ None \notin Values /\ None \notin Sessions
  /\ \A e \in Tables : None \notin [Columns(e) -> Values \cup {None}]

(* Only completed_at may be null.                                           *)
Column(f) == IF f = "completed_at" THEN Values \cup {None} ELSE Values

(* A PATCH names some of the columns: model_fields_set.                      *)
Patches(e) == {p \in UNION {[F -> Values \cup {None}] : F \in SUBSET (Named \cap Columns(e))} :
                 \A f \in DOMAIN p : p[f] \in Column(f)}
Requests == UNION {[table : {e}, known : BOOLEAN, patch : Patches(e)] : e \in Tables}

VARIABLES
  table,         \* the lot row and one of its inspection_gate rows, or None
  eligible,      \* eligible_at of the LOT's unit_operation rows
  worked,        \* has the LOT a work event?
  lock,          \* the session that holds the write lock
  pc,            \* what a session does next
  req,           \* the PATCH it serves
  row,           \* the row it loaded
  ops,           \* the eligible_at values it loaded
  code,          \* the status code it answered, 0 while there is no response
  early          \* history: the sessions whose PATCH arrived before work began

vars == <<table, eligible, worked, lock, pc, req, row, ops, code, early>>

-----------------------------------------------------------------------------
Receive(s, r) ==
  /\ pc[s] = "idle"
  /\ pc' = [pc EXCEPT ![s] = "load"]
  /\ req' = [req EXCEPT ![s] = r]
  /\ code' = [code EXCEPT ![s] = 0]
  /\ early' = early \cup IF worked THEN {} ELSE {s}
  /\ UNCHANGED <<table, eligible, worked, lock, row, ops>>

(* The response; the session is closed, and with it an open transaction.     *)
LockReleased(s) == IF lock = s THEN None ELSE lock

Reply(s, c) ==
  /\ pc' = [pc EXCEPT ![s] = "idle"]
  /\ req' = [req EXCEPT ![s] = None]
  /\ row' = [row EXCEPT ![s] = None]
  /\ ops' = [ops EXCEPT ![s] = None]
  /\ code' = [code EXCEPT ![s] = c]
  /\ early' = early \ {s}
  /\ lock' = LockReleased(s)

Moves(s) == req[s].table = "lot" /\ "release_at" \in DOMAIN req[s].patch

(* An unknown id, or a row that was never seeded, is a LookupError.         *)
Load(s) ==
  /\ pc[s] = "load"
  /\ IF req[s].known /\ table[req[s].table] # None
     THEN /\ row' = [row EXCEPT ![s] = table[req[s].table]]
          /\ pc' = [pc EXCEPT ![s] = IF Moves(s) THEN "check" ELSE "commit"]
          /\ UNCHANGED <<req, ops, code, lock, early>>
     ELSE Reply(s, 404)
  /\ UNCHANGED <<table, eligible, worked>>

(* _lot_has_work_event.  Mutant: the release is not protected.               *)
HasWorkEvent_Ignored == FALSE
HasWorkEvent == worked

CheckWork(s) ==
  /\ pc[s] = "check"
  /\ IF HasWorkEvent
     THEN Reply(s, 409)
     ELSE /\ pc' = [pc EXCEPT ![s] = "sync"]
          /\ UNCHANGED <<req, row, ops, code, lock, early>>
  /\ UNCHANGED <<table, eligible, worked>>

(* SQLAlchemy writes the columns whose value differs from the loaded one.    *)
Changed(s) == {f \in DOMAIN req[s].patch : req[s].patch[f] # row[s][f]}

(* Mutant: the whole row is written.                                        *)
RowWritten_Whole(s) ==
  [f \in Columns(req[s].table) |->
     IF f \in Changed(s) THEN req[s].patch[f] ELSE row[s][f]]
RowWritten(s) ==
  [f \in Columns(req[s].table) |->
     IF f \in Changed(s) THEN req[s].patch[f] ELSE table[req[s].table][f]]

(* _sync_lot_operation_eligibility reads the operations; before it does, the *)
(* session flushes a changed release_at and so takes the write lock.         *)
Sync(s) ==
  /\ pc[s] = "sync"
  /\ IF "release_at" \in Changed(s)
     THEN lock = None /\ lock' = s
     ELSE UNCHANGED lock
  /\ ops' = [ops EXCEPT ![s] = eligible]
  /\ pc' = [pc EXCEPT ![s] = "commit"]
  /\ UNCHANGED <<table, eligible, worked, req, row, code, early>>

Moved(s) == IF Moves(s) THEN {o \in DOMAIN ops[s] : ops[s][o] # req[s].patch["release_at"]} ELSE {}

(* Mutant: eligible_at is not synchronised.                                 *)
EligibleWritten_Forgotten(s) == eligible
EligibleWritten(s) ==
  [o \in DOMAIN eligible |-> IF o \in Moved(s) THEN req[s].patch["release_at"] ELSE eligible[o]]

(* The rest of the UPDATEs and COMMIT.  The refresh that follows only feeds  *)
(* the body of the response.                                                *)
Commit(s) ==
  /\ pc[s] = "commit"
  /\ Changed(s) \cup Moved(s) # {} => lock \in {None, s}
  /\ table' = [table EXCEPT ![req[s].table] = RowWritten(s)]
  /\ eligible' = EligibleWritten(s)
  /\ Reply(s, 200)
  /\ UNCHANGED worked

(* Another session holds the lock for too long: OperationalError, not caught *)
BusyTimeout(s) ==
  /\ pc[s] \in {"sync", "commit"} /\ lock \notin {None, s}
  /\ Reply(s, 500)
  /\ UNCHANGED <<table, eligible, worked>>

(* persist_work_event commits an event on the LOT; one that stages a rework  *)
(* makes an operation eligible at its own time.                             *)
Work(rework) ==
  /\ lock = None
  /\ DOMAIN eligible # {} /\ rework \subseteq DOMAIN eligible
  /\ rework # {} => worked
  /\ worked' = TRUE
  /\ \E t \in Values : eligible' = [o \in DOMAIN eligible |->
                                  IF o \in rework THEN t ELSE eligible[o]]
  /\ UNCHANGED <<table, lock, pc, req, row, ops, code, early>>

(* The server process dies: an open transaction is rolled back.             *)
Crash ==
  /\ pc' = [s \in Sessions |-> "idle"]
  /\ req' = [s \in Sessions |-> None]
  /\ row' = [s \in Sessions |-> None]
  /\ ops' = [s \in Sessions |-> None]
  /\ code' = [s \in Sessions |-> 0]
  /\ lock' = None
  /\ early' = {}
  /\ UNCHANGED <<table, eligible, worked>>

-----------------------------------------------------------------------------
(* A materialised LOT without work events, and a gate that is not completed. *)
Init ==
  /\ \E v \in Values :
       table = [e \in Tables |->
                  [f \in Columns(e) |-> IF f = "completed_at" THEN None ELSE v]]
  /\ eligible = [o \in Ops |-> table["lot"]["release_at"]]
  /\ worked = FALSE
  /\ lock = None
  /\ pc = [s \in Sessions |-> "idle"]
  /\ req = [s \in Sessions |-> None]
  /\ row = [s \in Sessions |-> None]
  /\ ops = [s \in Sessions |-> None]
  /\ code = [s \in Sessions |-> 0]
  /\ early = {}

Serve(s) ==
  \/ Load(s)
  \/ CheckWork(s)
  \/ Sync(s)
  \/ Commit(s)
  \/ BusyTimeout(s)

Next ==
  \/ \E s \in Sessions : (\E r \in Requests : Receive(s, r)) \/ Serve(s)
  \/ \E rework \in {{}} \cup {{o} : o \in Ops} : Work(rework)
  \/ Crash

Spec == Init /\ [][Next]_vars

-----------------------------------------------------------------------------
(* Properties                                                               *)

(* What the release needs: that one PATCH at a time moves it.                *)
OneMove ==
  \A s, t \in Sessions :
    pc[s] # "idle" /\ Moves(s) /\ pc[t] # "idle" /\ Moves(t) => s = t

(* ReleaseCopied: until work begins, every operation of the LOT is eligible   *)
(* at the LOT's release ("all already-materialized UnitOperation eligible_at  *)
(* values for that LOT are updated to the same timestamp"), as long as        *)
(* OneMove.                                                                 *)
ReleaseCopied ==
  ~ worked => \A o \in DOMAIN eligible : eligible[o] = table["lot"]["release_at"]

Accepted(s) == pc[s] # "idle" /\ pc'[s] = "idle" /\ code'[s] = 200

(* PatchesApply: a column changes only when a PATCH that names it is answered *)
(* 200; a concurrent or refused PATCH of other columns never touches it.  And *)
(* a PATCH answered 200 has left every column it names with the value it      *)
(* gives, a null included, unless the row has changed since it loaded it:     *)
(* then a value that was there already is not written.                      *)
PatchesApply ==
  [][/\ \A e \in Tables : table[e] # None /\ table'[e] # None =>
          \A f \in Columns(e) : table'[e][f] # table[e][f] =>
            \E s \in Sessions : Accepted(s) /\ req[s].table = e /\ f \in DOMAIN req[s].patch
     /\ \A s \in Sessions : Accepted(s) /\ table[req[s].table] = row[s] =>
          \A f \in DOMAIN req[s].patch : table'[req[s].table][f] = req[s].patch[f]]_vars

(* ReleaseFrozen: once a LOT has a work event its release changes only by a    *)
(* PATCH that arrived before that event ("once any WorkEvent exists for the   *)
(* LOT, changing release_at is rejected"); later ones are refused.           *)
ReleaseFrozen ==
  [][worked /\ worked' /\ table'["lot"]["release_at"] # table["lot"]["release_at"] =>
       \E s \in early : Accepted(s) /\ Moves(s)]_vars
=============================================================================
