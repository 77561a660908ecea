----------------------------- MODULE Execution ------------------------------
(***************************************************************************)
(* POST /work-events: persist_work_event (persistence/execution_service.py)  *)
(* run by several request threads over one SQLite database.                 *)
(*                                                                         *)
(* A request reads with SELECTs that each see the latest commit; its first   *)
(* INSERT takes SQLite's write lock, and everything from that INSERT to the  *)
(* COMMIT is one atomic transaction.  So each read is a step of its own and  *)
(* the write is one step, decided from what the earlier steps read.         *)
(***************************************************************************)
EXTENDS WorkEvents, Sequences

CONSTANTS
  Sessions,      \* request threads, each with its own database session
  Ops,           \* the materialised UnitOperation rows
  RequestOps,    \* the operation ids a client may name, known or not
  UnitOf,        \* the unit an operation belongs to
  ProcessOf,     \* the process_code of an operation's routing step
  MaxEvents,     \* bound: distinct event_ids the clients ever use
  MaxTime,       \* bound: the last instant a client reports
  None           \* a null reference

ASSUME ExecutionAssumption ==
  /\ MaxEvents \in Nat /\ MaxTime \in Nat
  /\ ProcessOf \in [Ops -> STRING \ {"NONE"}]
  /\ None \notin Ops \cup Nat

Times == 0 .. MaxTime
EventIds == 1 .. MaxEvents     \* named in the order of their first arrival
Codes == {200, 201, 404, 409, 500}

VARIABLES
  operation,     \* unit_operation: state, current_attempt_no, eligible_at
  attempts,      \* work_attempt rows of an operation, indexed by attempt_no
  events,        \* work_event rows, in commit order
  pc,            \* what a session does next
  req,           \* the request it serves
  opRead,        \* its copy of the unit_operation row
  attRead,       \* its copy of the current work_attempt row
  evRead,        \* what it derived from the attempt's work_event rows
  code           \* the status code it answered, 0 while there is no response

db == <<operation, attempts, events>>
local == <<pc, req, opRead, attRead, evRead, code>>
vars == <<operation, attempts, events, pc, req, opRead, attRead, evRead, code>>

-----------------------------------------------------------------------------
(* Rows                                                                     *)

Roles == {"NONE", "TUNING_REWORK", "FINAL_TEST_RETEST"}

NewAttempt(role, source, event) ==
  [startedAt |-> NoTime, endedAt |-> NoTime, result |-> "NONE", active |-> 0,
   role |-> role, source |-> source, event |-> event]

FirstAttempt == NewAttempt("NONE", None, None)

(* What the Pico client posts; a reason is only read for HOLD and FAIL.      *)
Requests ==
  {r \in [id : EventIds, op : RequestOps, type : EventTypes, at : Times,
          reason : BOOLEAN] : r.reason => r.type \in {"HOLD", "FAIL"}}

(* Mutant: every event is filed under the first attempt.                     *)
EventRow_First(r, n) ==
  [id |-> r.id, op |-> r.op, attempt |-> 1, type |-> r.type, at |-> r.at,
   reason |-> r.reason]

EventRow(r, n) ==
  [id |-> r.id, op |-> r.op, attempt |-> n, type |-> r.type, at |-> r.at,
   reason |-> r.reason]

IsRowOf(e, r) == e = EventRow(r, e.attempt)

Indices == 1 .. Len(events)
EventsOf(o, n) == {i \in Indices : events[i].op = o /\ events[i].attempt = n}
Recorded(id) == \E i \in Indices : events[i].id = id

(* The latest of a set of instants, NoTime when there is none.               *)
IsLatest(t, S) == t \in S /\ \A u \in S : u <= t
Latest(S) == IF \E t \in S : IsLatest(t, S) THEN CHOOSE t \in S : IsLatest(t, S)
             ELSE NoTime

-----------------------------------------------------------------------------
(* Requests arrive                                                          *)

Busy(s) == pc[s] # "idle"
InUse(id) == Recorded(id) \/ \E s \in Sessions : Busy(s) /\ req[s].id = id

(* A new event_id, or the self-contained payload of one that was already     *)
(* sent: the client retries it, or the network delivers it twice.            *)
New(r) == /\ ~ InUse(r.id)
          /\ \A id \in EventIds : id < r.id => InUse(id)
Again(r) == \/ \E i \in Indices : IsRowOf(events[i], r)
            \/ \E s \in Sessions : Busy(s) /\ req[s] = r

Receive(s, r) ==
  /\ ~ Busy(s)
  /\ New(r) \/ Again(r)
  /\ pc' = [pc EXCEPT ![s] = "operation"]
  /\ req' = [req EXCEPT ![s] = r]
  /\ code' = [code EXCEPT ![s] = 0]
  /\ UNCHANGED <<operation, attempts, events, opRead, attRead, evRead>>

(* The response leaves and the session is closed: what it read is dropped.   *)
Reply(s, c) ==
  /\ pc' = [pc EXCEPT ![s] = "idle"]
  /\ req' = [req EXCEPT ![s] = None]
  /\ opRead' = [opRead EXCEPT ![s] = None]
  /\ attRead' = [attRead EXCEPT ![s] = None]
  /\ evRead' = [evRead EXCEPT ![s] = None]
  /\ code' = [code EXCEPT ![s] = c]

-----------------------------------------------------------------------------
(* _load_execution_snapshot, one SELECT at a time (the unit, step and        *)
(* process rows it also reads never change)                                  *)

ReadOperation(s) ==
  /\ pc[s] = "operation"
  /\ IF req[s].op \in Ops
     THEN /\ opRead' = [opRead EXCEPT ![s] = operation[req[s].op]]
          /\ pc' = [pc EXCEPT ![s] = "attempt"]
          /\ UNCHANGED <<req, attRead, evRead, code>>
     ELSE Reply(s, 404)
  /\ UNCHANGED db

ReadAttempt(s) ==
  /\ pc[s] = "attempt"
  /\ LET o == req[s].op
         n == opRead[s].current
     IN IF n \in DOMAIN attempts[o]
        THEN /\ attRead' = [attRead EXCEPT ![s] = attempts[o][n]]
             /\ pc' = [pc EXCEPT ![s] = "events"]
             /\ UNCHANGED <<req, opRead, evRead, code>>
        ELSE Reply(s, 409)
  /\ UNCHANGED db

(* What the attempt's events say: the latest instant, and when the running   *)
(* segment began.                                                           *)
History(o, n, state) ==
  LET rows == EventsOf(o, n)
      begun == {i \in rows : events[i].type \in {"START", "RESUME"}}
  IN [lastAt    |-> Latest({events[i].at : i \in rows}),
      startedAt |-> IF state = "RUNNING" THEN Latest({events[i].at : i \in begun})
                    ELSE NoTime]

ReadEvents(s) ==
  /\ pc[s] = "events"
  /\ LET h == History(req[s].op, opRead[s].current, opRead[s].state)
     IN IF opRead[s].state = "RUNNING" /\ h.startedAt = NoTime
        THEN Reply(s, 409)
        ELSE /\ evRead' = [evRead EXCEPT ![s] = h]
             /\ pc' = [pc EXCEPT ![s] = "existing"]
             /\ UNCHANGED <<req, opRead, attRead, code>>
  /\ UNCHANGED db

Snapshot(s) ==
  [state |-> opRead[s].state, active |-> attRead[s].active,
   startedAt |-> evRead[s].startedAt, lastAt |-> evRead[s].lastAt,
   result |-> attRead[s].result]

(* session.get(WorkEventRow, event_id), which also finds the rows read with  *)
(* the attempt: work_event rows are never deleted.  Then apply_work_event.   *)
ReadExisting(s) ==
  /\ pc[s] = "existing"
  /\ LET r == req[s]
         here == \E i \in EventsOf(r.op, opRead[s].current) : events[i].id = r.id
     IN \/ here /\ Reply(s, 200)
        \/ ~ here /\ Recorded(r.id) /\ Reply(s, 409)
        \/ /\ ~ Recorded(r.id)
           /\ IF Legal(Snapshot(s), r, ProcessOf[r.op])
              THEN /\ pc' = [pc EXCEPT ![s] = "write"]
                   /\ UNCHANGED <<req, opRead, attRead, evRead, code>>
              ELSE Reply(s, 409)
  /\ UNCHANGED db

-----------------------------------------------------------------------------
(* The write transaction                                                    *)

(* SQLAlchemy updates only the columns whose new value differs from the one  *)
(* that was loaded: the others keep what the row holds by now.               *)
Column(loaded, new, stored) == IF new # loaded THEN new ELSE stored

FirstTime(loaded, now, stored) == IF loaded = NoTime THEN now ELSE stored

(* The process whose operation gets a new attempt: a failed final test goes  *)
(* back to tuning, a completed tuning rework goes on to a retest.            *)
ReworkTarget(r, role) ==
  CASE TriggersRework(r, ProcessOf[r.op]) -> "TUNING"
    [] r.type = "COMPLETE" /\ ProcessOf[r.op] = "TUNING" /\ role = "TUNING_REWORK"
         -> "FINAL_TEST"
    [] OTHER -> "NONE"

(* _load_unit_operation_for_process requires exactly one.                    *)
OnlyOperation(t, o, process) ==
  {u \in Ops : UnitOf[u] = UnitOf[o] /\ ProcessOf[u] = process} = {t}

(* Mutant: the retest names the completion of the tuning as its cause.       *)
Cause_Completion(s) ==
  IF req[s].type = "FAIL"
  THEN NewAttempt("TUNING_REWORK", req[s].op, req[s].id)
  ELSE NewAttempt("FINAL_TEST_RETEST", req[s].op, req[s].id)

(* Why the new attempt exists: the failed test, carried on to its retest.    *)
Cause(s) ==
  IF req[s].type = "FAIL"
  THEN NewAttempt("TUNING_REWORK", req[s].op, req[s].id)
  ELSE NewAttempt("FINAL_TEST_RETEST", attRead[s].source, attRead[s].event)

(* _create_next_rework_attempt refuses a target that is not COMPLETED.       *)
CanStage(s, t) ==
  /\ OnlyOperation(t, req[s].op, ReworkTarget(req[s], attRead[s].role))
  /\ operation[t].state = "COMPLETED"
  /\ Cause(s).source # None /\ Cause(s).event # None

(* The rows of the operation and of the attempt that the session loaded.     *)
(* Mutant: the whole row is written back, with the columns as loaded.        *)
OperationWritten_Whole(s) ==
  [operation EXCEPT ![req[s].op] = [opRead[s] EXCEPT !.state = StateAfter(req[s])]]

OperationWritten(s) ==
  LET state == StateAfter(req[s])
  IN [operation EXCEPT ![req[s].op].state = Column(opRead[s].state, state, @)]

AttemptWritten(s, row) ==
  LET r == req[s]
      old == attRead[s]
      new == After(Snapshot(s), r)
  IN [row EXCEPT
        !.active = Column(old.active, new.active, @),
        !.result = Column(old.result, new.result, @),
        !.startedAt = IF r.type = "START" THEN FirstTime(old.startedAt, r.at, @) ELSE @,
        !.endedAt = IF StateAfter(r) = "COMPLETED" THEN FirstTime(old.endedAt, r.at, @) ELSE @]

(* Mutants: the whole row is written back; a verdict after COMPLETE is lost.  *)
AttemptsWritten_Whole(s) ==
  [attempts EXCEPT ![req[s].op][opRead[s].current] = AttemptWritten(s, attRead[s])]
AttemptsWritten_Unjudged(s) ==
  [attempts EXCEPT ![req[s].op][opRead[s].current] =
     [AttemptWritten(s, @) EXCEPT !.result = IF attRead[s].endedAt = NoTime THEN @
                                             ELSE attRead[s].result]]

AttemptsWritten(s) ==
  [attempts EXCEPT ![req[s].op][opRead[s].current] = AttemptWritten(s, @)]

(* Mutant: event_id is not a primary key.                                    *)
KeyFree_Unchecked(s) == TRUE

KeyFree(s) == ~ Recorded(req[s].id)

(* An accepted event, and in the same transaction the attempt it stages.     *)
Commit(s) ==
  /\ pc[s] = "write"
  /\ KeyFree(s)
  /\ events' = Append(events, EventRow(req[s], opRead[s].current))
  /\ \/ /\ ReworkTarget(req[s], attRead[s].role) = "NONE"
        /\ operation' = OperationWritten(s)
        /\ attempts' = AttemptsWritten(s)
     \/ \E t \in Ops :
          /\ CanStage(s, t)
          /\ operation' = [OperationWritten(s) EXCEPT
               ![t] = [state |-> "WAITING", current |-> Len(attempts[t]) + 1,
                       eligibleAt |-> req[s].at]]
          /\ attempts' = [AttemptsWritten(s) EXCEPT ![t] = Append(@, Cause(s))]
  /\ Reply(s, 201)

(* Mutant: what was flushed before the error is kept.                        *)
RefuseRework_Kept(s) ==
  /\ pc[s] = "write"
  /\ KeyFree(s)
  /\ ReworkTarget(req[s], attRead[s].role) # "NONE"
  /\ \A t \in Ops : ~ CanStage(s, t)
  /\ events' = Append(events, EventRow(req[s], opRead[s].current))
  /\ operation' = OperationWritten(s)
  /\ attempts' = AttemptsWritten(s)
  /\ Reply(s, 409)

(* The rework cannot be staged: ValueError, and the event is rolled back.    *)
RefuseRework(s) ==
  /\ pc[s] = "write"
  /\ KeyFree(s)
  /\ ReworkTarget(req[s], attRead[s].role) # "NONE"
  /\ \A t \in Ops : ~ CanStage(s, t)
  /\ Reply(s, 409)
  /\ UNCHANGED db

(* Another session recorded the event_id meanwhile: the primary key raises   *)
(* IntegrityError, which the endpoint does not catch.                        *)
Collide(s) ==
  /\ pc[s] = "write"
  /\ ~ KeyFree(s)
  /\ Reply(s, 500)
  /\ UNCHANGED db

(* Another writer, of this service or of another, holds the lock for longer  *)
(* than the driver waits: OperationalError, not caught either.               *)
BusyTimeout(s) ==
  /\ pc[s] = "write"
  /\ Reply(s, 500)
  /\ UNCHANGED db

(* The server process dies; SQLite rolls back what was not committed.        *)
Crash ==
  /\ \E s \in Sessions : Busy(s)
  /\ pc' = [s \in Sessions |-> "idle"]
  /\ req' = [s \in Sessions |-> None]
  /\ opRead' = [s \in Sessions |-> None]
  /\ attRead' = [s \in Sessions |-> None]
  /\ evRead' = [s \in Sessions |-> None]
  /\ code' = [s \in Sessions |-> 0]
  /\ UNCHANGED db

-----------------------------------------------------------------------------
(* The state materialize_lot_execution leaves.                               *)
Init ==
  /\ operation = [o \in Ops |-> [state |-> "WAITING", current |-> 1, eligibleAt |-> 0]]
  /\ attempts = [o \in Ops |-> <<FirstAttempt>>]
  /\ events = <<>>
  /\ pc = [s \in Sessions |-> "idle"]
  /\ req = [s \in Sessions |-> None]
  /\ opRead = [s \in Sessions |-> None]
  /\ attRead = [s \in Sessions |-> None]
  /\ evRead = [s \in Sessions |-> None]
  /\ code = [s \in Sessions |-> 0]

Next ==
  \/ \E s \in Sessions :
       \/ \E r \in Requests : Receive(s, r)
       \/ ReadOperation(s)
       \/ ReadAttempt(s)
       \/ ReadEvents(s)
       \/ ReadExisting(s)
       \/ Commit(s)
       \/ RefuseRework(s)
       \/ Collide(s)
       \/ BusyTimeout(s)
  \/ Crash

Spec == Init /\ [][Next]_vars

-----------------------------------------------------------------------------
(* Properties                                                               *)

AttemptRow ==
  [startedAt : Times \cup {NoTime}, endedAt : Times \cup {NoTime}, result : Results,
   active : Nat, role : Roles, source : Ops \cup {None},
   event : EventIds \cup {None}]

OperationRow ==
  [state : OperationStates, current : Nat \ {0}, eligibleAt : Times]

WorkEventRow ==
  [id : EventIds, op : Ops, attempt : Nat \ {0}, type : EventTypes, at : Times,
   reason : BOOLEAN]

(* TypeOK: rows and session-local copies keep the domains of their columns,  *)
(* even when sessions write from stale copies: active_minutes, for one,      *)
(* never becomes negative.                                                  *)
DatabaseTypeOK ==
  /\ operation \in [Ops -> OperationRow]
  /\ attempts \in [Ops -> Seq(AttemptRow)]
  /\ events \in Seq(WorkEventRow)

SessionTypeOK(s) ==
  /\ IF Busy(s) THEN req[s] \in Requests ELSE req[s] = None
  /\ IF pc[s] \in {"attempt", "events", "existing", "write"}
     THEN opRead[s] \in OperationRow /\ req[s].op \in Ops
     ELSE opRead[s] = None
  /\ IF pc[s] \in {"events", "existing", "write"}
     THEN attRead[s] \in AttemptRow ELSE attRead[s] = None
  /\ IF pc[s] \in {"existing", "write"}
     THEN evRead[s] \in [lastAt : Times \cup {NoTime}, startedAt : Times \cup {NoTime}]
     ELSE evRead[s] = None

LocalTypeOK ==
  /\ pc \in [Sessions -> {"idle", "operation", "attempt", "events", "existing", "write"}]
  /\ code \in [Sessions -> Codes \cup {0}]
  /\ DOMAIN req = Sessions /\ DOMAIN opRead = Sessions
  /\ DOMAIN attRead = Sessions /\ DOMAIN evRead = Sessions
  /\ \A s \in Sessions : SessionTypeOK(s)

TypeOK == DatabaseTypeOK /\ LocalTypeOK

(* CurrentIsLatest: current_attempt_no always names the last attempt, and    *)
(* attempts are numbered without gaps, whatever sessions interleave: the     *)
(* "current WorkAttempt is missing" error cannot happen.                     *)
CurrentIsLatest ==
  \A o \in Ops : operation[o].current = Len(attempts[o])

(* EventRecordedOnce: an event_id is recorded at most once, however often    *)
(* its request is retried or delivered twice at the same time.              *)
EventRecordedOnce ==
  \A i, j \in Indices : events[i].id = events[j].id => i = j

(* ReworkTraceable: every attempt after the first exists because a recorded  *)
(* FINAL_TEST FAIL of the same unit asked for it, and its references say so.  *)
FailedTest(i, o) ==
  /\ events[i].type = "FAIL"
  /\ ProcessOf[events[i].op] = "FINAL_TEST"
  /\ UnitOf[events[i].op] = UnitOf[o]

RoleIn(process) ==
  CASE process = "TUNING" -> "TUNING_REWORK"
    [] process = "FINAL_TEST" -> "FINAL_TEST_RETEST"
    [] OTHER -> "NONE"

Traced(o, a) ==
  /\ a.role = RoleIn(ProcessOf[o]) /\ a.role # "NONE"
  /\ \E i \in Indices :
       FailedTest(i, o) /\ a.event = events[i].id /\ a.source = events[i].op

Untraced(a) == a.role = "NONE" /\ a.source = None /\ a.event = None

ReworkTraceable ==
  \A o \in Ops : \A n \in DOMAIN attempts[o] :
    IF n = 1 THEN Untraced(attempts[o][n]) ELSE Traced(o, attempts[o][n])

(* FailureReworked: no failed final test is ever lost.  Each recorded one     *)
(* has exactly one TUNING_REWORK attempt, staged in its own transaction,     *)
(* even if the server dies or several sessions report failures at once.      *)
ReworksOf(id) ==
  {o \in Ops : \E n \in DOMAIN attempts[o] :
     attempts[o][n].event = id /\ attempts[o][n].role = "TUNING_REWORK"}

FailureReworked ==
  \A i \in Indices : TriggersRework(events[i], ProcessOf[events[i].op]) =>
    \E o \in ReworksOf(events[i].id) :
      /\ ReworksOf(events[i].id) = {o} /\ UnitOf[o] = UnitOf[events[i].op]
      /\ \A m, n \in DOMAIN attempts[o] :
           attempts[o][m].event = events[i].id /\ attempts[o][n].event = events[i].id
             => m = n

(* AllOrNothing: a request changes the database if and only if it is         *)
(* answered 201, and then its own event is recorded in the same step.        *)
Replies(s) == Busy(s) /\ pc'[s] = "idle"
PersistsItsEvent ==
  \/ UNCHANGED db /\ \A s \in Sessions : Replies(s) => code'[s] # 201
  \/ \E s \in Sessions :
       /\ Replies(s) /\ code'[s] = 201
       /\ \E n \in DOMAIN attempts[req[s].op] :
            events' = Append(events, EventRow(req[s], n))

AllOrNothing == [][PersistsItsEvent]_vars

Reason(a) == <<a.role, a.source, a.event>>

(* AttemptsKept: an attempt is never deleted and never changes the reason    *)
(* why it exists, and neither start nor end, once recorded, is erased.       *)
KeepsAttempts ==
  \A o \in Ops : \A n \in DOMAIN attempts[o] :
    /\ n \in DOMAIN attempts'[o]
    /\ LET a == attempts[o][n]
           b == attempts'[o][n]
       IN /\ Reason(b) = Reason(a)
          /\ a.startedAt # NoTime => b.startedAt # NoTime
          /\ a.endedAt # NoTime => b.endedAt # NoTime

AttemptsKept == [][KeepsAttempts]_vars

-----------------------------------------------------------------------------
(* Properties of requests that are served one at a time                     *)

Committed(o) ==
  LET n == operation[o].current
      h == History(o, n, operation[o].state)
  IN [state |-> operation[o].state, active |-> attempts[o][n].active,
      startedAt |-> h.startedAt, lastAt |-> h.lastAt, result |-> attempts[o][n].result]

(* NotWedged: a RUNNING operation can be told to stop: its current attempt   *)
(* has the START or RESUME event that every later request looks for.         *)
NotWedged ==
  \A o \in Ops : operation[o].state = "RUNNING" => Committed(o).startedAt # NoTime

(* OneAtATime: served one at a time, requests implement ExecutionAtomic.     *)
Atomic == INSTANCE ExecutionAtomic
OneAtATime == Atomic!Spec
=============================================================================
