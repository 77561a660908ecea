--------------------------- MODULE ExecutionProofs --------------------------
(***************************************************************************)
(* Theorems about Execution for any number of sessions, operations, events  *)
(* and instants: type correctness, and the safety properties that survive   *)
(* the interleaving of requests.  And with one session, whose reads are still *)
(* true when it writes: Execution implements ExecutionAtomic, and an          *)
(* operation that is RUNNING can always be told to stop.                     *)
(***************************************************************************)
EXTENDS Execution, Induction, SequenceTheorems, TLAPS

USE ExecutionAssumption

-----------------------------------------------------------------------------
(* The inductive invariant                                                  *)

(* What a session read still holds of the rows it will write: the attempt it *)
(* loaded exists, with the reason it had, and the event it is about to write *)
(* was legal for the snapshot it was judged on.                             *)
Loaded(s) == attempts[req[s].op][opRead[s].current]

SessionFacts(s) ==
  /\ pc[s] \in {"attempt", "events", "existing", "write"} =>
       opRead[s].current \in DOMAIN attempts[req[s].op]
  /\ pc[s] \in {"events", "existing", "write"} => Reason(attRead[s]) = Reason(Loaded(s))
  /\ pc[s] = "write" => Legal(Snapshot(s), req[s], ProcessOf[req[s].op])

IInv ==
  /\ TypeOK
  /\ CurrentIsLatest
  /\ \A s \in Sessions : SessionFacts(s)

-----------------------------------------------------------------------------
(* Lemmas about the operators of the write transaction                      *)

LEMMA TimesType == Times \subseteq Nat /\ NoTime \in Int /\ NoTime \notin Times
BY DEF Times, NoTime

(* The snapshot of a session that has read everything.                      *)
LEMMA SnapshotType ==
  ASSUME NEW s \in Sessions, SessionTypeOK(s), pc[s] \in {"existing", "write"}
  PROVE  Snapshot(s) \in Snapshots(Times)
BY DEF SessionTypeOK, Snapshot, Snapshots, AttemptRow, OperationRow

LEMMA AfterType ==
  ASSUME NEW snap \in Snapshots(Times), NEW r \in Requests, NEW p,
         Legal(snap, r, p)
  PROVE  After(snap, r) \in Snapshots(Times)
<1>1. r.at \in Times /\ r.type \in EventTypes
  BY DEF Requests
<1>2. ActiveAfter(snap, r) \in Nat
  <2>1. snap.active \in Nat /\ snap.startedAt \in Int /\ r.at \in Int
    BY <1>1 DEF Snapshots, Times, NoTime
  <2>2. snap.state = "RUNNING" /\ StopsWork(r) => snap.startedAt <= r.at
    BY DEF Legal
  <2> QED BY <2>1, <2>2 DEF ActiveAfter
<1>3. StateAfter(r) \in OperationStates
  BY <1>1 DEF StateAfter, OperationStates
<1>4. (IF IsVerdict(r) THEN r.type ELSE snap.result) \in Results
  BY <1>1 DEF IsVerdict, Results, Snapshots
<1> QED BY <1>1, <1>2, <1>3, <1>4 DEF After, Snapshots

(* Writing an attempt keeps its type, its reason and what was recorded.      *)
LEMMA AttemptWrittenType ==
  ASSUME NEW s \in Sessions, SessionTypeOK(s), pc[s] = "write",
         Legal(Snapshot(s), req[s], ProcessOf[req[s].op]),
         NEW row \in AttemptRow
  PROVE  /\ AttemptWritten(s, row) \in AttemptRow
         /\ Reason(AttemptWritten(s, row)) = Reason(row)
         /\ row.startedAt # NoTime => AttemptWritten(s, row).startedAt # NoTime
         /\ row.endedAt # NoTime => AttemptWritten(s, row).endedAt # NoTime
<1>1. req[s] \in Requests /\ attRead[s] \in AttemptRow
  BY DEF SessionTypeOK, Busy
<1>2. req[s].at \in Times
  BY <1>1 DEF Requests
<1>3. After(Snapshot(s), req[s]) \in Snapshots(Times)
  BY <1>1, SnapshotType, AfterType
<1> DEFINE old == attRead[s]
           new == After(Snapshot(s), req[s])
           written == AttemptWritten(s, row)
<1>4. /\ Column(old.active, new.active, row.active) \in Nat
      /\ Column(old.result, new.result, row.result) \in Results
  BY <1>1, <1>3 DEF Column, AttemptRow, Snapshots
<1>5. /\ FirstTime(old.startedAt, req[s].at, row.startedAt) \in Times \cup {NoTime}
      /\ FirstTime(old.endedAt, req[s].at, row.endedAt) \in Times \cup {NoTime}
      /\ row.startedAt # NoTime => FirstTime(old.startedAt, req[s].at, row.startedAt) # NoTime
      /\ row.endedAt # NoTime => FirstTime(old.endedAt, req[s].at, row.endedAt) # NoTime
  BY <1>2, TimesType DEF FirstTime, AttemptRow
<1> QED BY <1>4, <1>5 DEF AttemptWritten, AttemptRow, Reason

(* So do the tables: no row is added or lost by an UPDATE.                   *)
LEMMA AttemptsWrittenType ==
  ASSUME TypeOK, NEW s \in Sessions, SessionFacts(s), pc[s] = "write"
  PROVE  /\ AttemptsWritten(s) \in [Ops -> Seq(AttemptRow)]
         /\ \A o \in Ops : Len(AttemptsWritten(s)[o]) = Len(attempts[o])
         /\ \A o \in Ops : \A n \in DOMAIN attempts[o] :
              LET a == attempts[o][n]
                  b == AttemptsWritten(s)[o][n]
              IN /\ Reason(b) = Reason(a)
                 /\ a.startedAt # NoTime => b.startedAt # NoTime
                 /\ a.endedAt # NoTime => b.endedAt # NoTime
<1> DEFINE o == req[s].op
           n == opRead[s].current
           row == AttemptWritten(s, attempts[o][n])
<1>1. SessionTypeOK(s)
  BY DEF TypeOK, LocalTypeOK
<1>2. o \in Ops /\ attempts[o] \in Seq(AttemptRow)
  BY <1>1 DEF SessionTypeOK, TypeOK, DatabaseTypeOK
<1>3. n \in 1 .. Len(attempts[o])
  BY <1>2 DEF SessionFacts
<1>4. attempts[o][n] \in AttemptRow
  BY <1>2, <1>3, ElementOfSeq
<1>5. /\ row \in AttemptRow
      /\ Reason(row) = Reason(attempts[o][n])
      /\ attempts[o][n].startedAt # NoTime => row.startedAt # NoTime
      /\ attempts[o][n].endedAt # NoTime => row.endedAt # NoTime
  BY <1>1, <1>4, AttemptWrittenType DEF SessionFacts
<1> DEFINE rows == [attempts[o] EXCEPT ![n] = row]
<1>6. /\ rows \in Seq(AttemptRow)
      /\ Len(rows) = Len(attempts[o])
      /\ \A j \in 1 .. Len(attempts[o]) : rows[j] = IF j = n THEN row ELSE attempts[o][j]
  BY <1>2, <1>3, <1>5, ExceptSeq
<1>7. AttemptsWritten(s) = [attempts EXCEPT ![o] = rows]
  BY DEF AttemptsWritten
<1>8. attempts \in [Ops -> Seq(AttemptRow)]
  BY DEF TypeOK, DatabaseTypeOK
<1> HIDE DEF rows, row
<1>9. AttemptsWritten(s) \in [Ops -> Seq(AttemptRow)]
  BY <1>6, <1>7, <1>8
<1>10. /\ \A p \in Ops : p # o => AttemptsWritten(s)[p] = attempts[p]
       /\ AttemptsWritten(s)[o] = rows
  BY <1>2, <1>7, <1>8
<1>11. ASSUME NEW p \in Ops, NEW m \in DOMAIN attempts[p]
       PROVE  LET a == attempts[p][m]
                  b == AttemptsWritten(s)[p][m]
              IN /\ Reason(b) = Reason(a)
                 /\ a.startedAt # NoTime => b.startedAt # NoTime
                 /\ a.endedAt # NoTime => b.endedAt # NoTime
  <2>1. CASE p # o
    BY <2>1, <1>10
  <2>2. CASE p = o
    <3>1. m \in 1 .. Len(attempts[o])
      BY <2>2, <1>2
    <3>2. AttemptsWritten(s)[p][m] = IF m = n THEN row ELSE attempts[o][m]
      BY <2>2, <3>1, <1>10, <1>6
    <3> QED BY <2>2, <3>2, <1>5
  <2> QED BY <2>1, <2>2
<1> QED BY <1>6, <1>9, <1>10, <1>11

LEMMA OperationWrittenType ==
  ASSUME TypeOK, NEW s \in Sessions, pc[s] = "write"
  PROVE  /\ OperationWritten(s) \in [Ops -> OperationRow]
         /\ \A o \in Ops : OperationWritten(s)[o].current = operation[o].current
<1>1. /\ req[s] \in Requests /\ req[s].op \in Ops
      /\ operation \in [Ops -> OperationRow]
  BY DEF TypeOK, LocalTypeOK, DatabaseTypeOK, SessionTypeOK, Busy
<1>2. StateAfter(req[s]) \in OperationStates
  BY <1>1 DEF Requests, StateAfter, OperationStates
<1>3. \A x \in OperationStates : Column(opRead[s].state, StateAfter(req[s]), x) \in OperationStates
  BY <1>2 DEF Column
<1> QED BY <1>1, <1>3 DEF OperationWritten, OperationRow

LEMMA CauseType ==
  ASSUME TypeOK, NEW s \in Sessions, pc[s] = "write"
  PROVE  Cause(s) \in AttemptRow
<1>1. /\ req[s].op \in Ops /\ req[s].id \in EventIds
      /\ attRead[s].source \in Ops \cup {None}
      /\ attRead[s].event \in EventIds \cup {None}
  BY DEF TypeOK, LocalTypeOK, SessionTypeOK, Busy, Requests, AttemptRow
<1> QED BY <1>1 DEF Cause, NewAttempt, AttemptRow, Roles, Results

(* The event that a commit records.                                         *)
LEMMA EventRowType ==
  ASSUME TypeOK, NEW s \in Sessions, pc[s] = "write"
  PROVE  EventRow(req[s], opRead[s].current) \in WorkEventRow
<1>1. req[s] \in Requests /\ req[s].op \in Ops /\ opRead[s] \in OperationRow
  BY DEF TypeOK, LocalTypeOK, SessionTypeOK, Busy
<1> QED BY <1>1 DEF EventRow, WorkEventRow, OperationRow, Requests

(* A commit keeps the database well typed and the numbering of the attempts, *)
(* and it keeps every attempt there was.                                    *)
LEMMA CommitKeeps ==
  ASSUME TypeOK, CurrentIsLatest, NEW s \in Sessions, SessionFacts(s), Commit(s)
  PROVE  DatabaseTypeOK' /\ CurrentIsLatest' /\ KeepsAttempts
<1> DEFINE W == AttemptsWritten(s)
           O == OperationWritten(s)
<1>1. pc[s] = "write"
  BY DEF Commit
<1>2. /\ W \in [Ops -> Seq(AttemptRow)]
      /\ \A o \in Ops : Len(W[o]) = Len(attempts[o])
      /\ \A o \in Ops : \A n \in DOMAIN attempts[o] :
           /\ Reason(W[o][n]) = Reason(attempts[o][n])
           /\ attempts[o][n].startedAt # NoTime => W[o][n].startedAt # NoTime
           /\ attempts[o][n].endedAt # NoTime => W[o][n].endedAt # NoTime
  BY <1>1, AttemptsWrittenType
<1>3. /\ O \in [Ops -> OperationRow]
      /\ \A o \in Ops : O[o].current = operation[o].current
  BY <1>1, OperationWrittenType
<1>4. events' \in Seq(WorkEventRow)
  <2>1. events \in Seq(WorkEventRow)
    BY DEF TypeOK, DatabaseTypeOK
  <2>2. events' = Append(events, EventRow(req[s], opRead[s].current))
    BY DEF Commit
  <2> QED BY <1>1, <2>1, <2>2, EventRowType, AppendProperties
<1>5. \A o \in Ops : /\ attempts[o] \in Seq(AttemptRow) /\ Len(attempts[o]) \in Nat
                     /\ DOMAIN attempts[o] = 1 .. Len(attempts[o])
  BY LenProperties DEF TypeOK, DatabaseTypeOK
<1> HIDE DEF W, O
<1>6. CASE operation' = O /\ attempts' = W
  <2>1. DatabaseTypeOK'
    BY <1>2, <1>3, <1>4, <1>6 DEF DatabaseTypeOK
  <2>2. CurrentIsLatest'
    BY <1>2, <1>3, <1>6 DEF CurrentIsLatest
  <2>3. KeepsAttempts
    BY <1>2, <1>5, <1>6 DEF KeepsAttempts
  <2> QED BY <2>1, <2>2, <2>3
<1>7. ASSUME NEW t \in Ops,
             operation' = [O EXCEPT ![t] = [state |-> "WAITING", current |-> Len(attempts[t]) + 1,
                                            eligibleAt |-> req[s].at]],
             attempts' = [W EXCEPT ![t] = Append(@, Cause(s))]
      PROVE  DatabaseTypeOK' /\ CurrentIsLatest' /\ KeepsAttempts
  <2>1. req[s].at \in Times
    BY <1>1 DEF TypeOK, LocalTypeOK, SessionTypeOK, Busy, Requests
  <2>2. operation' \in [Ops -> OperationRow]
    BY <1>3, <1>5, <1>7, <2>1 DEF OperationRow, OperationStates
  <2>3. /\ Append(W[t], Cause(s)) \in Seq(AttemptRow)
        /\ Len(Append(W[t], Cause(s))) = Len(W[t]) + 1
        /\ \A i \in 1 .. Len(W[t]) : Append(W[t], Cause(s))[i] = W[t][i]
    BY <1>1, <1>2, CauseType, AppendProperties
  <2>4. DatabaseTypeOK'
    BY <1>2, <1>4, <1>7, <2>2, <2>3 DEF DatabaseTypeOK
  <2>5. CurrentIsLatest'
    BY <1>2, <1>3, <1>7, <2>3 DEF CurrentIsLatest
  <2>6. KeepsAttempts
    <3> SUFFICES ASSUME NEW o \in Ops, NEW n \in DOMAIN attempts[o]
                 PROVE  n \in DOMAIN attempts'[o] /\ attempts'[o][n] = W[o][n]
      BY <1>2 DEF KeepsAttempts
    <3>1. CASE o # t
      BY <1>2, <1>5, <1>7, <3>1
    <3>2. CASE o = t
      BY <1>2, <1>5, <1>7, <2>3, <3>2
    <3> QED BY <3>1, <3>2
  <2> QED BY <2>4, <2>5, <2>6
<1> QED BY <1>6, <1>7 DEF Commit, W, O

-----------------------------------------------------------------------------
(* Lemmas about what the sessions read                                      *)

LEMMA LatestType ==
  ASSUME NEW S \in SUBSET Times
  PROVE  Latest(S) \in Times \cup {NoTime}
BY DEF Latest, IsLatest

LEMMA EventType ==
  ASSUME DatabaseTypeOK, NEW i \in Indices
  PROVE  events[i] \in WorkEventRow
<1>1. events \in Seq(WorkEventRow) /\ i \in 1 .. Len(events)
  BY DEF DatabaseTypeOK, Indices
<1> QED BY ONLY <1>1, ElementOfSeq

LEMMA HistoryType ==
  ASSUME DatabaseTypeOK, NEW o, NEW n, NEW state
  PROVE  History(o, n, state) \in
           [lastAt : Times \cup {NoTime}, startedAt : Times \cup {NoTime}]
<1>1. \A i \in Indices : events[i].at \in Times
  BY EventType DEF WorkEventRow
<1> DEFINE rows == EventsOf(o, n)
           begun == {i \in rows : events[i].type \in {"START", "RESUME"}}
<1>2. /\ {events[i].at : i \in rows} \in SUBSET Times
      /\ {events[i].at : i \in begun} \in SUBSET Times
  BY <1>1 DEF EventsOf
<1>3. /\ Latest({events[i].at : i \in rows}) \in Times \cup {NoTime}
      /\ Latest({events[i].at : i \in begun}) \in Times \cup {NoTime}
  BY <1>2, LatestType
<1> QED BY <1>3 DEF History

(* A response closes the session whatever it was doing.                      *)
LEMMA ReplyType ==
  ASSUME LocalTypeOK, NEW s \in Sessions, NEW c \in Codes, Reply(s, c)
  PROVE  LocalTypeOK' /\ pc'[s] = "idle"
<1>1. pc'[s] = "idle" /\ SessionTypeOK(s)'
  BY DEF LocalTypeOK, Reply, SessionTypeOK, Busy
<1>2. ASSUME NEW p \in Sessions, p # s
      PROVE  SessionTypeOK(p)'
  <2>1. SessionTypeOK(p)
    BY DEF LocalTypeOK
  <2>2. /\ pc'[p] = pc[p] /\ req'[p] = req[p] /\ opRead'[p] = opRead[p]
        /\ attRead'[p] = attRead[p] /\ evRead'[p] = evRead[p]
    BY <1>2 DEF LocalTypeOK, Reply
  <2> QED BY <2>1, <2>2 DEF SessionTypeOK, Busy
<1>3. /\ pc' \in [Sessions -> {"idle", "operation", "attempt", "events", "existing", "write"}]
      /\ code' \in [Sessions -> Codes \cup {0}]
      /\ DOMAIN req' = Sessions /\ DOMAIN opRead' = Sessions
      /\ DOMAIN attRead' = Sessions /\ DOMAIN evRead' = Sessions
  BY DEF LocalTypeOK, Reply
<1> QED BY <1>1, <1>2, <1>3 DEF LocalTypeOK

(* The facts about a session depend on its own variables and on attempts     *)
(* that no step takes away.                                                 *)
SameSession(p) ==
  /\ pc'[p] = pc[p] /\ req'[p] = req[p] /\ opRead'[p] = opRead[p]
  /\ attRead'[p] = attRead[p] /\ evRead'[p] = evRead[p]

LEMMA SessionFactsKept ==
  ASSUME NEW p \in Sessions, SessionTypeOK(p), SessionFacts(p),
         SameSession(p), KeepsAttempts
  PROVE  SessionTypeOK(p)' /\ SessionFacts(p)'
<1>1. SessionTypeOK(p)'
  BY DEF SessionTypeOK, SameSession, Busy
<1>2. Snapshot(p)' = Snapshot(p)
  BY DEF Snapshot, SameSession
<1>3. ASSUME pc[p] \in {"attempt", "events", "existing", "write"}
      PROVE  /\ opRead[p].current \in DOMAIN attempts'[req[p].op]
             /\ Reason(attempts'[req[p].op][opRead[p].current]) = Reason(Loaded(p))
  BY <1>3 DEF SessionTypeOK, SessionFacts, KeepsAttempts, Loaded
<1> QED BY <1>1, <1>2, <1>3 DEF SessionFacts, SameSession, Loaded

(* A step that leaves the database alone.                                   *)
LEMMA DatabaseUnchanged ==
  ASSUME TypeOK, CurrentIsLatest, UNCHANGED db
  PROVE  DatabaseTypeOK' /\ CurrentIsLatest' /\ KeepsAttempts
BY DEF TypeOK, DatabaseTypeOK, CurrentIsLatest, KeepsAttempts, db

(* A step of one session that ends in a response.                            *)
LEMMA ReplyStep ==
  ASSUME IInv, NEW s \in Sessions, NEW c \in Codes, Reply(s, c),
         DatabaseTypeOK', CurrentIsLatest', KeepsAttempts
  PROVE  IInv'
<1>1. LocalTypeOK' /\ pc'[s] = "idle"
  BY ReplyType DEF IInv, TypeOK
<1>2. SessionFacts(s)'
  BY <1>1 DEF SessionFacts
<1>3. ASSUME NEW p \in Sessions, p # s
      PROVE  SessionFacts(p)'
  <2>1. SameSession(p)
    BY <1>3 DEF Reply, SameSession, IInv, TypeOK, LocalTypeOK
  <2> QED BY <2>1, SessionFactsKept DEF IInv, TypeOK, LocalTypeOK
<1> QED BY <1>1, <1>2, <1>3 DEF IInv, TypeOK

-----------------------------------------------------------------------------
(* The invariant is inductive                                               *)

LEMMA InitIInv == Init => IInv
<1> SUFFICES ASSUME Init PROVE IInv
  OBVIOUS
<1>1. FirstAttempt \in AttemptRow
  BY DEF FirstAttempt, NewAttempt, AttemptRow, Roles, Results
<1>2. /\ <<FirstAttempt>> \in Seq(AttemptRow) /\ Len(<<FirstAttempt>>) = 1
      /\ <<>> \in Seq(WorkEventRow)
  BY <1>1
<1>3. DatabaseTypeOK
  BY <1>2 DEF Init, DatabaseTypeOK, OperationRow, OperationStates, Times
<1>4. LocalTypeOK
  BY DEF Init, LocalTypeOK, SessionTypeOK, Busy
<1>5. CurrentIsLatest
  BY <1>2 DEF Init, CurrentIsLatest
<1>6. \A s \in Sessions : SessionFacts(s)
  BY DEF Init, SessionFacts
<1> QED BY <1>3, <1>4, <1>5, <1>6 DEF IInv, TypeOK

(* A step of one session that only reads, or that takes a request.           *)
LEMMA ReadStep ==
  ASSUME IInv, NEW s \in Sessions, UNCHANGED db,
         \A p \in Sessions : p # s => SameSession(p),
         pc' \in [Sessions -> {"idle", "operation", "attempt", "events", "existing", "write"}],
         code' \in [Sessions -> Codes \cup {0}],
         DOMAIN req' = Sessions, DOMAIN opRead' = Sessions,
         DOMAIN attRead' = Sessions, DOMAIN evRead' = Sessions,
         SessionTypeOK(s)', SessionFacts(s)'
  PROVE  IInv'
<1>1. DatabaseTypeOK' /\ CurrentIsLatest' /\ KeepsAttempts
  BY DatabaseUnchanged DEF IInv
<1>2. \A p \in Sessions : p # s => SessionTypeOK(p)' /\ SessionFacts(p)'
  BY <1>1, SessionFactsKept DEF IInv, TypeOK, LocalTypeOK
<1> QED BY <1>1, <1>2 DEF IInv, TypeOK, LocalTypeOK

LEMMA ReceiveStep ==
  ASSUME IInv, NEW s \in Sessions, NEW r \in Requests, Receive(s, r)
  PROVE  IInv'
<1>1. SessionTypeOK(s)' /\ SessionFacts(s)'
  BY DEF IInv, TypeOK, LocalTypeOK, SessionTypeOK, SessionFacts, Receive, Busy
<1>2. \A p \in Sessions : p # s => SameSession(p)
  BY DEF IInv, TypeOK, LocalTypeOK, SameSession, Receive
<1> QED BY <1>1, <1>2, ReadStep DEF IInv, TypeOK, LocalTypeOK, Receive, db

LEMMA ReadOperationStep ==
  ASSUME IInv, NEW s \in Sessions, ReadOperation(s)
  PROVE  IInv'
<1>1. CASE req[s].op \notin Ops
  <2>1. Reply(s, 404) /\ UNCHANGED db
    BY <1>1 DEF ReadOperation
  <2> QED BY <2>1, ReplyStep, DatabaseUnchanged DEF IInv, Codes
<1>2. CASE req[s].op \in Ops
  <2>1. /\ opRead' = [opRead EXCEPT ![s] = operation[req[s].op]]
        /\ pc' = [pc EXCEPT ![s] = "attempt"] /\ pc[s] = "operation"
        /\ UNCHANGED <<req, attRead, evRead, code>> /\ UNCHANGED db
    BY <1>2 DEF ReadOperation
  <2>2. operation[req[s].op] \in OperationRow
    BY <1>2 DEF IInv, TypeOK, DatabaseTypeOK
  <2>3. SessionTypeOK(s)'
    BY <1>2, <2>1, <2>2 DEF IInv, TypeOK, LocalTypeOK, SessionTypeOK, Busy
  <2>4. operation[req[s].op].current \in DOMAIN attempts[req[s].op]
    <3>1. attempts[req[s].op] \in Seq(AttemptRow)
      BY <1>2 DEF IInv, TypeOK, DatabaseTypeOK
    <3> QED BY <1>2, <2>2, <3>1 DEF IInv, CurrentIsLatest, OperationRow
  <2>5. SessionFacts(s)'
    BY <2>1, <2>4 DEF SessionFacts, IInv, TypeOK, LocalTypeOK, db
  <2>6. \A p \in Sessions : p # s => SameSession(p)
    BY <2>1 DEF IInv, TypeOK, LocalTypeOK, SameSession
  <2> QED BY <2>1, <2>3, <2>5, <2>6, ReadStep DEF IInv, TypeOK, LocalTypeOK
<1> QED BY <1>1, <1>2

LEMMA ReadAttemptStep ==
  ASSUME IInv, NEW s \in Sessions, ReadAttempt(s)
  PROVE  IInv'
<1> DEFINE o == req[s].op
           n == opRead[s].current
<1>1. CASE n \notin DOMAIN attempts[o]
  <2>1. Reply(s, 409) /\ UNCHANGED db
    BY <1>1 DEF ReadAttempt
  <2> QED BY <2>1, ReplyStep, DatabaseUnchanged DEF IInv, Codes
<1>2. CASE n \in DOMAIN attempts[o]
  <2>1. /\ attRead' = [attRead EXCEPT ![s] = attempts[o][n]]
        /\ pc' = [pc EXCEPT ![s] = "events"] /\ pc[s] = "attempt"
        /\ UNCHANGED <<req, opRead, evRead, code>> /\ UNCHANGED db
    BY <1>2 DEF ReadAttempt
  <2>2. attempts[o][n] \in AttemptRow
    <3>1. attempts[o] \in Seq(AttemptRow)
      BY <2>1 DEF IInv, TypeOK, DatabaseTypeOK, LocalTypeOK, SessionTypeOK
    <3> QED BY <1>2, <3>1
  <2>3. SessionTypeOK(s)'
    BY <2>1, <2>2 DEF IInv, TypeOK, LocalTypeOK, SessionTypeOK, Busy
  <2>4. SessionFacts(s)'
    BY <1>2, <2>1 DEF SessionFacts, Loaded, IInv, TypeOK, LocalTypeOK, db
  <2>5. \A p \in Sessions : p # s => SameSession(p)
    BY <2>1 DEF IInv, TypeOK, LocalTypeOK, SameSession
  <2> QED BY <2>1, <2>3, <2>4, <2>5, ReadStep DEF IInv, TypeOK, LocalTypeOK
<1> QED BY <1>1, <1>2

LEMMA ReadEventsStep ==
  ASSUME IInv, NEW s \in Sessions, ReadEvents(s)
  PROVE  IInv'
<1> DEFINE h == History(req[s].op, opRead[s].current, opRead[s].state)
<1>1. CASE opRead[s].state = "RUNNING" /\ h.startedAt = NoTime
  <2>1. Reply(s, 409) /\ UNCHANGED db
    BY <1>1 DEF ReadEvents
  <2> QED BY <2>1, ReplyStep, DatabaseUnchanged DEF IInv, Codes
<1>2. CASE ~ (opRead[s].state = "RUNNING" /\ h.startedAt = NoTime)
  <2>1. /\ evRead' = [evRead EXCEPT ![s] = h]
        /\ pc' = [pc EXCEPT ![s] = "existing"] /\ pc[s] = "events"
        /\ UNCHANGED <<req, opRead, attRead, code>> /\ UNCHANGED db
    BY <1>2 DEF ReadEvents
  <2>2. h \in [lastAt : Times \cup {NoTime}, startedAt : Times \cup {NoTime}]
    BY HistoryType DEF IInv, TypeOK
  <2> HIDE DEF h
  <2>3. SessionTypeOK(s)'
    BY <2>1, <2>2 DEF IInv, TypeOK, LocalTypeOK, SessionTypeOK, Busy
  <2>4. SessionFacts(s)'
    BY <2>1 DEF SessionFacts, Loaded, IInv, TypeOK, LocalTypeOK, db
  <2>5. \A p \in Sessions : p # s => SameSession(p)
    BY <2>1 DEF IInv, TypeOK, LocalTypeOK, SameSession
  <2> QED BY <2>1, <2>3, <2>4, <2>5, ReadStep DEF IInv, TypeOK, LocalTypeOK
<1> QED BY <1>1, <1>2

LEMMA ReadExistingStep ==
  ASSUME IInv, NEW s \in Sessions, ReadExisting(s)
  PROVE  IInv'
<1>1. CASE Reply(s, 200) \/ Reply(s, 409)
  <2>1. UNCHANGED db
    BY DEF ReadExisting
  <2> QED BY <1>1, <2>1, ReplyStep, DatabaseUnchanged DEF IInv, Codes
<1>2. CASE /\ Legal(Snapshot(s), req[s], ProcessOf[req[s].op])
           /\ pc' = [pc EXCEPT ![s] = "write"] /\ pc[s] = "existing"
           /\ UNCHANGED <<req, opRead, attRead, evRead, code>> /\ UNCHANGED db
  <2>1. SessionTypeOK(s)'
    BY <1>2 DEF IInv, TypeOK, LocalTypeOK, SessionTypeOK, Busy
  <2>2. Snapshot(s)' = Snapshot(s)
    BY <1>2 DEF Snapshot
  <2>3. SessionFacts(s)'
    BY <1>2, <2>2 DEF SessionFacts, Loaded, IInv, TypeOK, LocalTypeOK, db
  <2>4. \A p \in Sessions : p # s => SameSession(p)
    BY <1>2 DEF IInv, TypeOK, LocalTypeOK, SameSession
  <2> QED BY <1>2, <2>1, <2>3, <2>4, ReadStep DEF IInv, TypeOK, LocalTypeOK
<1> QED BY <1>1, <1>2 DEF ReadExisting

LEMMA CrashStep ==
  ASSUME IInv, Crash
  PROVE  IInv'
<1>1. DatabaseTypeOK' /\ CurrentIsLatest'
  BY DatabaseUnchanged DEF IInv, Crash
<1>2. LocalTypeOK' /\ \A s \in Sessions : SessionFacts(s)'
  BY DEF Crash, LocalTypeOK, SessionTypeOK, SessionFacts, Busy
<1> QED BY <1>1, <1>2 DEF IInv, TypeOK

LEMMA NextIInv == IInv /\ [Next]_vars => IInv'
<1> SUFFICES ASSUME IInv, [Next]_vars PROVE IInv'
  OBVIOUS
<1>1. ASSUME NEW s \in Sessions, Commit(s) PROVE IInv'
  <2>1. DatabaseTypeOK' /\ CurrentIsLatest' /\ KeepsAttempts
    BY <1>1, CommitKeeps DEF IInv
  <2> QED BY <1>1, <2>1, ReplyStep DEF Commit, Codes
<1>2. ASSUME NEW s \in Sessions, RefuseRework(s) \/ Collide(s) \/ BusyTimeout(s)
      PROVE  IInv'
  <2>1. UNCHANGED db /\ (Reply(s, 409) \/ Reply(s, 500))
    BY <1>2 DEF RefuseRework, Collide, BusyTimeout
  <2> QED BY <2>1, ReplyStep, DatabaseUnchanged DEF IInv, Codes
<1>3. CASE UNCHANGED vars
  BY <1>3 DEF vars, IInv, TypeOK, DatabaseTypeOK, LocalTypeOK, SessionTypeOK, Busy,
              CurrentIsLatest, SessionFacts, Loaded, Snapshot
<1> QED
  BY <1>1, <1>2, <1>3, ReceiveStep, ReadOperationStep, ReadAttemptStep, ReadEventsStep,
     ReadExistingStep, CrashStep DEF Next

LEMMA SpecIInv == Spec => []IInv
<1> QED BY InitIInv, NextIInv, PTL DEF Spec

-----------------------------------------------------------------------------
(* Theorems                                                                 *)

(* TypeCorrect: rows and session-local copies keep the domains of their      *)
(* columns; active_minutes never becomes negative, although sessions compute *)
(* it from copies that may be stale when they write (_active_minutes_until). *)
THEOREM TypeCorrect == Spec => []TypeOK
<1>1. IInv => TypeOK
  BY DEF IInv
<1> QED BY <1>1, SpecIInv, PTL

(* CurrentAlwaysLatest: current_attempt_no names the last attempt of its      *)
(* operation, so _load_current_attempt always finds one.                     *)
THEOREM CurrentAlwaysLatest == Spec => []CurrentIsLatest
<1>1. IInv => CurrentIsLatest
  BY DEF IInv
<1> QED BY <1>1, SpecIInv, PTL

(* Commit is the only step that writes.                                     *)
LEMMA OnlyCommitWrites ==
  ASSUME Next
  PROVE  UNCHANGED db \/ \E s \in Sessions : Commit(s)
BY DEF Next, Receive, ReadOperation, ReadAttempt, ReadEvents, ReadExisting,
       RefuseRework, Collide, BusyTimeout, Crash, db

LEMMA StepKeepsAttempts == IInv /\ [Next]_vars => [KeepsAttempts]_vars
<1> SUFFICES ASSUME IInv, Next PROVE KeepsAttempts
  OBVIOUS
<1>1. CASE UNCHANGED db
  BY <1>1, DatabaseUnchanged DEF IInv
<1>2. CASE \E s \in Sessions : Commit(s)
  BY <1>2, CommitKeeps DEF IInv
<1> QED BY <1>1, <1>2, OnlyCommitWrites

(* HistoryKept: no interleaving of requests, retries, timeouts and crashes   *)
(* removes an attempt, changes why it exists, or erases its start or end.    *)
THEOREM HistoryKept == Spec => AttemptsKept
<1> QED BY SpecIInv, StepKeepsAttempts, PTL DEF Spec, AttemptsKept

(* The step that answers: who answers, and with what.                        *)
LEMMA OneReplies ==
  ASSUME LocalTypeOK, NEW s \in Sessions, NEW c \in Codes, Reply(s, c)
  PROVE  /\ pc'[s] = "idle" /\ code'[s] = c
         /\ \A p \in Sessions : Replies(p) => p = s
BY DEF LocalTypeOK, Reply, Replies, Busy

LEMMA StepAllOrNothing == IInv /\ [Next]_vars => [PersistsItsEvent]_vars
<1> SUFFICES ASSUME IInv, Next PROVE PersistsItsEvent
  OBVIOUS
<1>1. ASSUME NEW s \in Sessions, Commit(s) PROVE PersistsItsEvent
  <2>1. /\ Reply(s, 201) /\ pc[s] = "write"
        /\ events' = Append(events, EventRow(req[s], opRead[s].current))
    BY <1>1 DEF Commit
  <2>2. Replies(s) /\ code'[s] = 201
    BY <2>1, OneReplies DEF IInv, TypeOK, Codes, Replies, Busy
  <2>3. opRead[s].current \in DOMAIN attempts[req[s].op]
    BY <2>1 DEF IInv, SessionFacts
  <2>4. \E n \in DOMAIN attempts[req[s].op] : events' = Append(events, EventRow(req[s], n))
    BY <2>1, <2>3
  <2> QED BY <2>2, <2>4 DEF PersistsItsEvent
<1>2. ASSUME NEW s \in Sessions, NEW c \in Codes \ {201}, Reply(s, c), UNCHANGED db
      PROVE  PersistsItsEvent
  BY <1>2, OneReplies DEF IInv, TypeOK, PersistsItsEvent
<1>3. ASSUME UNCHANGED db, \A s \in Sessions : ~ Replies(s)
      PROVE  PersistsItsEvent
  BY <1>3 DEF PersistsItsEvent
<1>4. ASSUME NEW s \in Sessions, NEW r \in Requests, Receive(s, r)
      PROVE  PersistsItsEvent
  <2>1. UNCHANGED db /\ \A p \in Sessions : ~ Replies(p)
    BY <1>4 DEF Receive, Replies, Busy, IInv, TypeOK, LocalTypeOK, db
  <2> QED BY <1>3, <2>1
<1>5. ASSUME NEW s \in Sessions, ReadOperation(s) \/ ReadAttempt(s) \/ ReadEvents(s)
                                  \/ ReadExisting(s)
      PROVE  PersistsItsEvent
  <2>1. UNCHANGED db
    BY <1>5 DEF ReadOperation, ReadAttempt, ReadEvents, ReadExisting
  <2>2. \/ \E c \in Codes \ {201} : Reply(s, c)
        \/ \E next \in {"attempt", "events", "existing", "write"} :
             pc' = [pc EXCEPT ![s] = next]
    BY <1>5 DEF ReadOperation, ReadAttempt, ReadEvents, ReadExisting, Codes
  <2>3. ASSUME NEW next \in {"attempt", "events", "existing", "write"},
               pc' = [pc EXCEPT ![s] = next]
        PROVE  \A p \in Sessions : ~ Replies(p)
    BY <2>3 DEF IInv, TypeOK, LocalTypeOK, Replies, Busy
  <2> QED BY <1>2, <1>3, <2>1, <2>2, <2>3
<1>6. ASSUME NEW s \in Sessions, RefuseRework(s) \/ Collide(s) \/ BusyTimeout(s)
      PROVE  PersistsItsEvent
  <2>1. UNCHANGED db /\ \E c \in Codes \ {201} : Reply(s, c)
    BY <1>6 DEF RefuseRework, Collide, BusyTimeout, Codes
  <2> QED BY <1>2, <2>1
<1>7. CASE Crash
  BY <1>7 DEF Crash, PersistsItsEvent
<1> QED BY <1>1, <1>4, <1>5, <1>6, <1>7 DEF Next

(* RequestsAllOrNothing: a request changes the database if and only if it is *)
(* answered 201, and the change records exactly its own event.               *)
THEOREM RequestsAllOrNothing == Spec => AllOrNothing
<1> QED BY SpecIInv, StepAllOrNothing, PTL DEF Spec, AllOrNothing

-----------------------------------------------------------------------------
(* What a commit adds to the event log.                                     *)
LEMMA CommitAppends ==
  ASSUME IInv, NEW s \in Sessions, Commit(s)
  PROVE  /\ Indices' = Indices \cup {Len(events) + 1}
         /\ Len(events) + 1 \notin Indices
         /\ \A i \in Indices : events'[i] = events[i]
         /\ events'[Len(events) + 1] = EventRow(req[s], opRead[s].current)
<1>1. events \in Seq(WorkEventRow) /\ pc[s] = "write"
  BY DEF IInv, TypeOK, DatabaseTypeOK, Commit
<1>2. EventRow(req[s], opRead[s].current) \in WorkEventRow
  BY <1>1, EventRowType DEF IInv
<1>3. events' = Append(events, EventRow(req[s], opRead[s].current))
  BY DEF Commit
<1>4. /\ Len(events') = Len(events) + 1 /\ Len(events) \in Nat
      /\ \A i \in 1 .. Len(events) : events'[i] = events[i]
      /\ events'[Len(events) + 1] = EventRow(req[s], opRead[s].current)
  BY <1>1, <1>2, <1>3, AppendProperties, LenProperties
<1> QED BY <1>4 DEF Indices

LEMMA StepRecordsOnce == IInv /\ EventRecordedOnce /\ [Next]_vars => EventRecordedOnce'
<1> SUFFICES ASSUME IInv, EventRecordedOnce, [Next]_vars PROVE EventRecordedOnce'
  OBVIOUS
<1>1. CASE UNCHANGED events
  BY <1>1 DEF EventRecordedOnce, Indices
<1>2. ASSUME NEW s \in Sessions, Commit(s) PROVE EventRecordedOnce'
  <2>1. \A i \in Indices : events[i].id # req[s].id
    BY <1>2 DEF Commit, KeyFree, Recorded
  <2>2. EventRow(req[s], opRead[s].current).id = req[s].id
    BY DEF EventRow
  <2> QED BY <1>2, <2>1, <2>2, CommitAppends DEF EventRecordedOnce
<1> QED BY <1>1, <1>2, OnlyCommitWrites DEF vars, db

(* RecordedOnce: whatever is retried, duplicated or lost, an event_id is      *)
(* recorded at most once.                                                   *)
THEOREM RecordedOnce == Spec => []EventRecordedOnce
<1>1. Init => EventRecordedOnce
  BY DEF Init, EventRecordedOnce, Indices
<1> QED BY <1>1, SpecIInv, StepRecordsOnce, PTL DEF Spec

-----------------------------------------------------------------------------
(* Traceability of rework                                                   *)

(* A reason stays traced while the log grows.                                *)
LEMMA TracedKept ==
  ASSUME \A i \in Indices : i \in Indices' /\ events'[i] = events[i],
         NEW o, NEW a, NEW b, Reason(b) = Reason(a)
  PROVE  /\ Traced(o, a) => Traced(o, b)'
         /\ Untraced(a) => Untraced(b)'
<1>1. b.role = a.role /\ b.source = a.source /\ b.event = a.event
  BY DEF Reason
<1>2. ASSUME Traced(o, a) PROVE Traced(o, b)'
  <2>1. PICK i \in Indices : /\ FailedTest(i, o) /\ a.event = events[i].id
                            /\ a.source = events[i].op
    BY <1>2 DEF Traced
  <2>2. FailedTest(i, o)' /\ b.event = events'[i].id /\ b.source = events'[i].op
    BY <1>1, <2>1 DEF FailedTest
  <2> QED BY <1>1, <1>2, <2>1, <2>2 DEF Traced
<1> QED BY <1>1, <1>2 DEF Untraced

(* What a commit stages is traced to a failed test that is in the log.       *)
LEMMA StagedTraced ==
  ASSUME IInv, ReworkTraceable, NEW s \in Sessions, Commit(s),
         NEW t \in Ops, CanStage(s, t), NEW a, a = Cause(s)
  PROVE  Traced(t, a)'
<1> DEFINE r == req[s]
           o == req[s].op
<1>1. /\ o \in Ops /\ r \in Requests /\ pc[s] = "write"
      /\ opRead[s].current \in DOMAIN attempts[o]
      /\ Reason(attRead[s]) = Reason(Loaded(s))
  BY DEF IInv, TypeOK, LocalTypeOK, SessionTypeOK, SessionFacts, Commit, Busy
<1>2. /\ UnitOf[t] = UnitOf[o] /\ ProcessOf[t] = ReworkTarget(r, attRead[s].role)
  BY DEF CanStage, OnlyOperation
<1>3. CASE TriggersRework(r, ProcessOf[o])
  <2>1. ProcessOf[t] = "TUNING" /\ r.type = "FAIL" /\ ProcessOf[o] = "FINAL_TEST"
    BY <1>2, <1>3 DEF ReworkTarget, TriggersRework
  <2>2. a.role = "TUNING_REWORK" /\ a.source = o /\ a.event = r.id
    BY <2>1 DEF Cause, NewAttempt
  <2>3. PICK last \in Indices' : events'[last] = EventRow(r, opRead[s].current)
    BY CommitAppends
  <2>4. FailedTest(last, t)' /\ events'[last].id = r.id /\ events'[last].op = o
    BY <1>2, <2>1, <2>3 DEF FailedTest, EventRow
  <2> QED BY <2>1, <2>2, <2>3, <2>4 DEF Traced, RoleIn
<1>4. CASE ~ TriggersRework(r, ProcessOf[o])
  <2>1. /\ r.type = "COMPLETE" /\ ProcessOf[o] = "TUNING"
        /\ attRead[s].role = "TUNING_REWORK" /\ ProcessOf[t] = "FINAL_TEST"
    BY <1>2, <1>4 DEF ReworkTarget
  <2>2. /\ a.role = "FINAL_TEST_RETEST" /\ a.source = attRead[s].source
        /\ a.event = attRead[s].event
    BY <2>1 DEF Cause, NewAttempt
  <2>3. Traced(o, Loaded(s))
    BY <1>1, <2>1 DEF ReworkTraceable, Untraced, Loaded, Reason
  <2>4. PICK i \in Indices : /\ FailedTest(i, o) /\ Loaded(s).event = events[i].id
                            /\ Loaded(s).source = events[i].op
    BY <2>3 DEF Traced
  <2>5. i \in Indices' /\ events'[i] = events[i]
    BY CommitAppends
  <2>6. FailedTest(i, t)' /\ a.event = events'[i].id /\ a.source = events'[i].op
    BY <1>1, <1>2, <2>2, <2>4, <2>5 DEF FailedTest, Reason
  <2> QED BY <2>1, <2>2, <2>5, <2>6 DEF Traced, RoleIn
<1> QED BY <1>3, <1>4

(* The attempts after a commit: those there were, and at most one that it     *)
(* staged.                                                                  *)
LEMMA CommitAttempts ==
  ASSUME IInv, NEW s \in Sessions, Commit(s),
         NEW o \in Ops, NEW n \in DOMAIN attempts'[o]
  PROVE  \/ n \in DOMAIN attempts[o] /\ Reason(attempts'[o][n]) = Reason(attempts[o][n])
         \/ /\ n = Len(attempts[o]) + 1 /\ n # 1
            /\ CanStage(s, o) /\ attempts'[o][n] = Cause(s)
<1> DEFINE W == AttemptsWritten(s)
<1>1. TypeOK /\ CurrentIsLatest /\ SessionFacts(s) /\ pc[s] = "write"
  BY DEF IInv, Commit
<1>2. /\ W \in [Ops -> Seq(AttemptRow)]
      /\ \A p \in Ops : Len(W[p]) = Len(attempts[p])
      /\ \A p \in Ops : \A m \in DOMAIN attempts[p] : Reason(W[p][m]) = Reason(attempts[p][m])
  BY <1>1, AttemptsWrittenType
<1>3. \A p \in Ops : /\ attempts[p] \in Seq(AttemptRow)
                     /\ DOMAIN attempts[p] = 1 .. Len(attempts[p])
                     /\ Len(attempts[p]) \in Nat \ {0}
  BY <1>1, LenProperties DEF TypeOK, DatabaseTypeOK, CurrentIsLatest, OperationRow
<1>4. \A p \in Ops : DOMAIN W[p] = DOMAIN attempts[p]
  BY <1>2, <1>3, LenProperties
<1> HIDE DEF W
<1>5. CASE attempts' = W
  BY <1>2, <1>4, <1>5
<1>6. ASSUME NEW t \in Ops, CanStage(s, t), attempts' = [W EXCEPT ![t] = Append(@, Cause(s))]
      PROVE  \/ n \in DOMAIN attempts[o] /\ Reason(attempts'[o][n]) = Reason(attempts[o][n])
             \/ /\ n = Len(attempts[o]) + 1 /\ n # 1
                /\ CanStage(s, o) /\ attempts'[o][n] = Cause(s)
  <2>1. CASE o # t
    BY <1>2, <1>4, <1>6, <2>1
  <2>2. CASE o = t
    <3>1. attempts'[o] = Append(W[o], Cause(s)) /\ W[o] \in Seq(AttemptRow)
      BY <1>2, <1>6, <2>2
    <3>2. Cause(s) \in AttemptRow
      BY <1>1, CauseType
    <3>3. /\ attempts'[o] \in Seq(AttemptRow)
          /\ Len(attempts'[o]) = Len(W[o]) + 1
          /\ \A i \in 1 .. Len(W[o]) : attempts'[o][i] = W[o][i]
          /\ attempts'[o][Len(W[o]) + 1] = Cause(s)
      BY <3>1, <3>2, AppendProperties
    <3>4. n \in 1 .. Len(attempts[o]) + 1
      BY <1>2, <3>3, LenProperties
    <3>5. CASE n \in 1 .. Len(attempts[o])
      BY <1>2, <1>3, <3>3, <3>5
    <3>6. CASE n = Len(attempts[o]) + 1
      BY <1>2, <1>3, <1>6, <2>2, <3>3, <3>6
    <3>7. n \in 1 .. Len(attempts[o]) \/ n = Len(attempts[o]) + 1
      BY <1>3, <3>4
    <3> QED BY <3>5, <3>6, <3>7
  <2> QED BY <2>1, <2>2
<1> QED BY <1>5, <1>6 DEF Commit, W

LEMMA StepTraceable == IInv /\ ReworkTraceable /\ [Next]_vars => ReworkTraceable'
<1> SUFFICES ASSUME IInv, ReworkTraceable, [Next]_vars PROVE ReworkTraceable'
  OBVIOUS
<1>1. CASE UNCHANGED db
  BY <1>1 DEF db, ReworkTraceable, Traced, Untraced, FailedTest, Indices
<1>2. ASSUME NEW s \in Sessions, Commit(s) PROVE ReworkTraceable'
  <2> SUFFICES ASSUME NEW o \in Ops, NEW n \in DOMAIN attempts'[o], NEW b,
                      b = attempts'[o][n]
               PROVE  IF n = 1 THEN Untraced(b)' ELSE Traced(o, b)'
    BY DEF ReworkTraceable
  <2>1. \A i \in Indices : i \in Indices' /\ events'[i] = events[i]
    BY <1>2, CommitAppends
  <2>2. CASE n \in DOMAIN attempts[o] /\ Reason(b) = Reason(attempts[o][n])
    BY <2>1, <2>2, TracedKept DEF ReworkTraceable
  <2>3. CASE n # 1 /\ CanStage(s, o) /\ b = Cause(s)
    BY <1>2, <2>3, StagedTraced
  <2> QED BY <1>2, <2>2, <2>3, CommitAttempts
<1> QED BY <1>1, <1>2, OnlyCommitWrites DEF vars, db

(* Traceable: every attempt after the first was staged by, and names, a       *)
(* recorded FINAL_TEST FAIL of its own unit, under every interleaving.       *)
THEOREM Traceable == Spec => []ReworkTraceable
<1>1. Init => ReworkTraceable
  BY DEF Init, ReworkTraceable, Untraced, FirstAttempt, NewAttempt
<1> QED BY <1>1, SpecIInv, StepTraceable, PTL DEF Spec

-----------------------------------------------------------------------------
(* No failure is lost                                                       *)

(* A commit that calls for a rework stages it.                              *)
LEMMA CommitStages ==
  ASSUME IInv, NEW s \in Sessions, Commit(s), ReworkTarget(req[s], attRead[s].role) # "NONE"
  PROVE  \E t \in Ops : /\ CanStage(s, t)
                        /\ Len(attempts[t]) + 1 \in DOMAIN attempts'[t]
                        /\ attempts'[t][Len(attempts[t]) + 1] = Cause(s)
<1> DEFINE W == AttemptsWritten(s)
<1>1. TypeOK /\ CurrentIsLatest /\ SessionFacts(s) /\ pc[s] = "write"
  BY DEF IInv, Commit
<1>2. W \in [Ops -> Seq(AttemptRow)] /\ \A p \in Ops : Len(W[p]) = Len(attempts[p])
  BY <1>1, AttemptsWrittenType
<1>3. PICK t \in Ops : CanStage(s, t) /\ attempts' = [W EXCEPT ![t] = Append(@, Cause(s))]
  BY DEF Commit, W
<1> HIDE DEF W
<1>4. attempts'[t] = Append(W[t], Cause(s)) /\ W[t] \in Seq(AttemptRow)
  BY <1>2, <1>3
<1>5. Cause(s) \in AttemptRow
  BY <1>1, <1>3, CauseType
<1>6. /\ attempts'[t] \in Seq(AttemptRow)
      /\ Len(attempts'[t]) = Len(W[t]) + 1
      /\ attempts'[t][Len(W[t]) + 1] = Cause(s)
  BY <1>4, <1>5, AppendProperties
<1>7. Len(W[t]) \in Nat /\ DOMAIN attempts'[t] = 1 .. Len(attempts'[t])
  BY <1>4, <1>6, LenProperties
<1>8. Len(attempts[t]) = Len(W[t]) /\ Len(attempts[t]) + 1 \in DOMAIN attempts'[t]
  BY <1>2, <1>3, <1>6, <1>7
<1> QED BY <1>3, <1>6, <1>8

(* Every attempt names no event or one that is in the log.                   *)
LEMMA ReworkNamesRecorded ==
  ASSUME TypeOK, ReworkTraceable, NEW o \in Ops, NEW n \in DOMAIN attempts[o]
  PROVE  attempts[o][n].event = None \/ Recorded(attempts[o][n].event)
BY DEF ReworkTraceable, Traced, Untraced, Recorded

(* Only a tuning operation has a tuning rework, and no retest.               *)
LEMMA ReworkOfTuning ==
  ASSUME ReworkTraceable, NEW o \in Ops, NEW n \in DOMAIN attempts[o],
         attempts[o][n].role = "TUNING_REWORK"
  PROVE  ProcessOf[o] = "TUNING"
BY DEF ReworkTraceable, Traced, Untraced, RoleIn

Once(o, id) ==
  \A m, n \in DOMAIN attempts[o] :
    attempts[o][m].event = id /\ attempts[o][n].event = id => m = n

(* The rework of an earlier failure is left as it is.                        *)
LEMMA ReworkKept ==
  ASSUME IInv, ReworkTraceable, NEW s \in Sessions, Commit(s),
         NEW id \in EventIds, Recorded(id), NEW o \in Ops,
         ReworksOf(id) = {o}, Once(o, id)
  PROVE  ReworksOf(id)' = {o} /\ Once(o, id)'
<1>1. req[s].id # id /\ ProcessOf[o] = "TUNING"
  <2>1. req[s].id # id
    BY DEF Commit, KeyFree
  <2> QED BY <2>1, ReworkOfTuning DEF ReworksOf
<1>2. \A p \in Ops : CanStage(s, p) => Cause(s).event # id \/ Cause(s).role # "TUNING_REWORK"
  BY <1>1 DEF Cause, NewAttempt
<1>3. CanStage(s, o) => Cause(s).event # id
  <2> SUFFICES ASSUME CanStage(s, o) PROVE Cause(s).event # id
    OBVIOUS
  <2>1. ReworkTarget(req[s], attRead[s].role) = "TUNING"
    BY <1>1 DEF CanStage, OnlyOperation
  <2>2. req[s].type = "FAIL"
    BY <2>1 DEF ReworkTarget, TriggersRework
  <2> QED BY <1>1, <2>2 DEF Cause, NewAttempt
<1>4. \A p \in Ops : \A n \in DOMAIN attempts[p] :
        n \in DOMAIN attempts'[p] /\ Reason(attempts'[p][n]) = Reason(attempts[p][n])
  BY CommitKeeps DEF IInv, KeepsAttempts
<1>5. \A p \in Ops : \A n \in DOMAIN attempts'[p] :
        \/ n \in DOMAIN attempts[p] /\ Reason(attempts'[p][n]) = Reason(attempts[p][n])
        \/ CanStage(s, p) /\ attempts'[p][n] = Cause(s)
  BY CommitAttempts
<1>6. \A p \in Ops : p \in ReworksOf(id)' <=> p \in ReworksOf(id)
  BY <1>2, <1>4, <1>5 DEF ReworksOf, Reason
<1>7. ReworksOf(id)' = {o}
  BY <1>6 DEF ReworksOf
<1>8. Once(o, id)'
  BY <1>3, <1>5 DEF Once, Reason
<1> QED BY <1>7, <1>8

(* The rework of the failure that is committed.                              *)
LEMMA ReworkStaged ==
  ASSUME IInv, ReworkTraceable, NEW s \in Sessions, Commit(s),
         TriggersRework(req[s], ProcessOf[req[s].op]), NEW id, id = req[s].id
  PROVE  \E o \in Ops : /\ ReworksOf(id)' = {o} /\ UnitOf[o] = UnitOf[req[s].op]
                        /\ Once(o, id)'
<1>1. id \in EventIds /\ ~ Recorded(id) /\ id # None
  BY DEF IInv, TypeOK, LocalTypeOK, SessionTypeOK, Commit, KeyFree, Busy, Requests, EventIds
<1>2. ReworkTarget(req[s], attRead[s].role) = "TUNING" /\ req[s].type = "FAIL"
  BY DEF ReworkTarget, TriggersRework
<1>3. PICK t \in Ops : /\ CanStage(s, t)
                       /\ Len(attempts[t]) + 1 \in DOMAIN attempts'[t]
                       /\ attempts'[t][Len(attempts[t]) + 1] = Cause(s)
  BY <1>2, CommitStages
<1>4. Cause(s).event = id /\ Cause(s).role = "TUNING_REWORK"
  BY <1>2 DEF Cause, NewAttempt
<1>5. \A o \in Ops : CanStage(s, o) => o = t
  BY <1>3 DEF CanStage, OnlyOperation
<1>6. \A o \in Ops : \A n \in DOMAIN attempts'[o] :
        attempts'[o][n].event = id => o = t /\ n = Len(attempts[t]) + 1
  <2> SUFFICES ASSUME NEW o \in Ops, NEW n \in DOMAIN attempts'[o], attempts'[o][n].event = id
               PROVE  o = t /\ n = Len(attempts[t]) + 1
    OBVIOUS
  <2>1. ~ (n \in DOMAIN attempts[o] /\ Reason(attempts'[o][n]) = Reason(attempts[o][n]))
    BY <1>1, ReworkNamesRecorded DEF IInv, Reason
  <2> QED BY <1>5, <2>1, CommitAttempts
<1>7. ReworksOf(id)' = {t}
  BY <1>3, <1>4, <1>6 DEF ReworksOf
<1>8. Once(t, id)'
  BY <1>6 DEF Once
<1>9. UnitOf[t] = UnitOf[req[s].op]
  BY <1>3 DEF CanStage, OnlyOperation
<1> QED BY <1>7, <1>8, <1>9

LEMMA StepReworks ==
  IInv /\ ReworkTraceable /\ FailureReworked /\ [Next]_vars => FailureReworked'
<1> SUFFICES ASSUME IInv, ReworkTraceable, FailureReworked, [Next]_vars PROVE FailureReworked'
  OBVIOUS
<1> SUFFICES ASSUME NEW i \in Indices', TriggersRework(events'[i], ProcessOf[events'[i].op])
             PROVE  (\E o \in ReworksOf(events[i].id) :
                       /\ ReworksOf(events[i].id) = {o} /\ UnitOf[o] = UnitOf[events[i].op]
                       /\ Once(o, events[i].id))'
  BY DEF FailureReworked, Once
<1> SUFFICES ASSUME NEW id, id = events'[i].id
             PROVE  \E o \in Ops : /\ ReworksOf(id)' = {o} /\ UnitOf[o] = UnitOf[events'[i].op]
                                   /\ Once(o, id)'
  <2>1. PICK id : id = events'[i].id
    OBVIOUS
  <2>2. PICK o \in Ops : /\ ReworksOf(id)' = {o} /\ UnitOf[o] = UnitOf[events'[i].op]
                         /\ Once(o, id)'
    BY <2>1
  <2>3. ReworksOf(events[i].id)' = {o} /\ Once(o, events[i].id)'
    BY <2>1, <2>2 DEF ReworksOf, Once
  <2> QED BY <2>2, <2>3
<1>1. ASSUME i \in Indices, events'[i] = events[i]
      PROVE  \E o \in Ops : /\ ReworksOf(id) = {o} /\ UnitOf[o] = UnitOf[events'[i].op]
                            /\ Once(o, id)
  <2>1. id = events[i].id /\ TriggersRework(events[i], ProcessOf[events[i].op])
    BY <1>1
  <2>2. PICK o \in ReworksOf(events[i].id) :
          /\ ReworksOf(events[i].id) = {o} /\ UnitOf[o] = UnitOf[events[i].op]
          /\ Once(o, events[i].id)
    BY <1>1, <2>1 DEF FailureReworked, Once
  <2>3. o \in Ops
    BY DEF ReworksOf
  <2> QED BY <1>1, <2>1, <2>2, <2>3
<1>2. CASE UNCHANGED db
  <2>1. i \in Indices /\ events'[i] = events[i]
    BY <1>2 DEF db, Indices
  <2>2. \A o : ReworksOf(id)' = ReworksOf(id) /\ (Once(o, id)' <=> Once(o, id))
    BY <1>2 DEF db, ReworksOf, Once
  <2> QED BY <1>1, <2>1, <2>2
<1>3. ASSUME NEW s \in Sessions, Commit(s)
      PROVE  \E o \in Ops : /\ ReworksOf(id)' = {o} /\ UnitOf[o] = UnitOf[events'[i].op]
                            /\ Once(o, id)'
  <2>1. CASE i \in Indices
    <3>1. events'[i] = events[i]
      BY <1>3, <2>1, CommitAppends
    <3>2. id \in EventIds /\ Recorded(id)
      <4>1. events[i] \in WorkEventRow
        BY <2>1 DEF IInv, TypeOK, DatabaseTypeOK, Indices
      <4> QED BY <2>1, <3>1, <4>1 DEF WorkEventRow, Recorded
    <3>3. PICK o \in Ops : /\ ReworksOf(id) = {o} /\ UnitOf[o] = UnitOf[events'[i].op]
                           /\ Once(o, id)
      BY <1>1, <2>1, <3>1
    <3> QED BY <1>3, <3>2, <3>3, ReworkKept
  <2>2. CASE i \notin Indices
    <3>1. events'[i] = EventRow(req[s], opRead[s].current)
      BY <1>3, <2>2, CommitAppends
    <3>2. events'[i].id = req[s].id /\ events'[i].op = req[s].op /\ events'[i].type = req[s].type
      BY <3>1 DEF EventRow
    <3>3. TriggersRework(req[s], ProcessOf[req[s].op])
      BY <3>2 DEF TriggersRework
    <3> QED BY <1>3, <3>2, <3>3, ReworkStaged
  <2> QED BY <2>1, <2>2
<1> QED BY <1>2, <1>3, OnlyCommitWrites DEF vars, db

(* NoFailureLost: each recorded failure of a final test has exactly one        *)
(* tuning rework of its unit, under every interleaving, timeout and crash.   *)
THEOREM NoFailureLost == Spec => []FailureReworked
<1>1. Init => FailureReworked /\ ReworkTraceable
  BY DEF Init, FailureReworked, Indices, ReworkTraceable, Untraced, FirstAttempt, NewAttempt
<1> QED BY <1>1, SpecIInv, StepTraceable, StepReworks, PTL DEF Spec

-----------------------------------------------------------------------------
(* One session: the inductive invariant                                     *)

Reading == {"attempt", "events", "existing", "write"}

(* The event ids of the log are used up in order.                            *)
Numbered == \A i \in Indices : events[i].id = i

(* A RUNNING operation was begun in its current attempt.                     *)
Begun ==
  \A o \in Ops : operation[o].state = "RUNNING" =>
    \E i \in EventsOf(o, operation[o].current) : events[i].type \in {"START", "RESUME"}

(* What a session has read is what the database holds.                       *)
Fresh(s) ==
  /\ Busy(s) => req[s].id <= Len(events) + 1
  /\ pc[s] \in Reading => opRead[s] = operation[req[s].op]
  /\ pc[s] \in Reading \ {"attempt"} =>
       attRead[s] = attempts[req[s].op][opRead[s].current]
  /\ pc[s] \in {"existing", "write"} =>
       evRead[s] = History(req[s].op, opRead[s].current, opRead[s].state)
  /\ pc[s] = "write" => ~ Recorded(req[s].id)

SerialInv == IInv /\ Numbered /\ Begun /\ \A s \in Sessions : Fresh(s)

-----------------------------------------------------------------------------
(* What has been read                                                       *)

(* Any set of reported instants has a latest one.                            *)
LEMMA LatestExists ==
  ASSUME NEW S \in SUBSET Times, S # {}
  PROVE  Latest(S) \in S /\ \A u \in S : u <= Latest(S)
<1>1. \E t \in S : \A u \in S : u <= t
  <2>1. S \in SUBSET Nat /\ MaxTime \in Nat /\ \A u \in S : u <= MaxTime
    BY DEF Times
  <2> QED BY <2>1, GreatestNatural
<1>2. \E t \in S : IsLatest(t, S)
  BY <1>1 DEF IsLatest
<1>3. IsLatest(Latest(S), S)
  BY <1>2, Zenon DEF Latest
<1> QED BY <1>3 DEF IsLatest

LEMMA LatestAgrees ==
  ASSUME NEW S \in SUBSET Times
  PROVE  Atomic!Latest(S) = Latest(S)
<1>1. CASE S = {}
  BY <1>1 DEF Atomic!Latest, Latest, NoTime, Atomic!NoTime
<1>2. CASE S # {}
  <2>1. Atomic!Latest(S) = CHOOSE t \in S : \A u \in S : u <= t
    BY <1>2 DEF Atomic!Latest
  <2>2. Latest(S) \in S /\ \A u \in S : u <= Latest(S)
    BY <1>2, LatestExists
  <2> DEFINE m == CHOOSE t \in S : \A u \in S : u <= t
  <2>3. m \in S /\ \A u \in S : u <= m
    BY <2>2
  <2> HIDE DEF m
  <2>4. m <= Latest(S) /\ Latest(S) <= m /\ m \in Nat /\ Latest(S) \in Nat
    <3>1. m \in Times /\ Latest(S) \in Times
      BY <2>2, <2>3
    <3> QED BY <2>2, <2>3, <3>1 DEF Times
  <2> QED BY <2>1, <2>4 DEF m
<1> QED BY <1>1, <1>2
-----------------------------------------------------------------------------
(* The two specifications use the same core                                  *)

LEMMA SameCore ==
  /\ Atomic!NoTime = NoTime /\ Atomic!Times = Times /\ Atomic!EventIds = EventIds
  /\ Atomic!EventTypes = EventTypes
  /\ \A snap, e, process : Atomic!Legal(snap, e, process) <=> Legal(snap, e, process)
  /\ \A snap, e : Atomic!After(snap, e) = After(snap, e)
  /\ \A e, process : Atomic!TriggersRework(e, process) <=> TriggersRework(e, process)
  /\ \A role, source, event :
       Atomic!NewAttempt(role, source, event) = NewAttempt(role, source, event)
  /\ \A r, n : Atomic!EventRow(r, n) = EventRow(r, n)
<1>1. /\ Atomic!NoTime = NoTime /\ Atomic!Times = Times /\ Atomic!EventIds = EventIds
      /\ Atomic!EventTypes = EventTypes
  BY DEF Atomic!NoTime, NoTime, Atomic!Times, Times, Atomic!EventIds, EventIds,
         Atomic!EventTypes, EventTypes
<1>2. ASSUME NEW snap, NEW e, NEW process
      PROVE  Atomic!Legal(snap, e, process) <=> Legal(snap, e, process)
  BY Zenon DEF Atomic!Legal, Legal, Atomic!InOrder, InOrder, Atomic!AllowedIn, AllowedIn,
         Atomic!IsVerdict, IsVerdict, Atomic!StopsWork, StopsWork,
         Atomic!Explained, Explained, Atomic!TriggersRework, TriggersRework
<1>3. ASSUME NEW snap, NEW e
      PROVE  Atomic!After(snap, e) = After(snap, e)
  <2>1. Atomic!StateAfter(e) = StateAfter(e)
    BY Zenon DEF Atomic!StateAfter, StateAfter
  <2>2. Atomic!ActiveAfter(snap, e) = ActiveAfter(snap, e)
    BY Zenon DEF Atomic!ActiveAfter, ActiveAfter, Atomic!StopsWork, StopsWork
  <2> QED
    BY <2>1, <2>2, Zenon DEF Atomic!After, After, Atomic!IsVerdict, IsVerdict,
                             Atomic!NoTime, NoTime
<1>4. \A e, process : Atomic!TriggersRework(e, process) <=> TriggersRework(e, process)
  BY DEF Atomic!TriggersRework, TriggersRework
<1>5. \A role, source, event :
        Atomic!NewAttempt(role, source, event) = NewAttempt(role, source, event)
  BY <1>1, Zenon DEF Atomic!NewAttempt, NewAttempt
<1>6. \A r, n : Atomic!EventRow(r, n) = EventRow(r, n)
  BY Zenon DEF Atomic!EventRow, EventRow
<1> QED BY <1>1, <1>2, <1>3, <1>4, <1>5, <1>6

(* A session that is about to write holds the snapshot that the event is to   *)
(* be judged on.                                                            *)
LEMMA SnapshotAgrees ==
  ASSUME SerialInv, NEW s \in Sessions, pc[s] = "write"
  PROVE  /\ req[s].op \in Ops
         /\ opRead[s] = operation[req[s].op]
         /\ attRead[s] = attempts[req[s].op][opRead[s].current]
         /\ Atomic!Snapshot(req[s].op) = Snapshot(s)
<1> DEFINE o == req[s].op
           n == opRead[s].current
           rows == EventsOf(o, n)
           begun == {i \in rows : events[i].type \in {"START", "RESUME"}}
<1>1. /\ o \in Ops /\ opRead[s] = operation[o] /\ attRead[s] = attempts[o][n]
      /\ evRead[s] = History(o, n, opRead[s].state)
  BY DEF SerialInv, Fresh, Reading, IInv, TypeOK, LocalTypeOK, SessionTypeOK
<1>2. /\ Atomic!Current(o) = n /\ Atomic!EventsOf(o, n) = rows
  BY <1>1 DEF Atomic!Current, Atomic!EventsOf, EventsOf, Atomic!Indices, Indices
<1>3. \A i \in rows : events[i].at \in Times
  BY EventType DEF EventsOf, WorkEventRow, SerialInv, IInv, TypeOK
<1> HIDE DEF rows
<1> DEFINE last == Latest({events[i].at : i \in rows})
           first == Latest({events[i].at : i \in begun})
<1>4. /\ Atomic!Latest({events[i].at : i \in rows}) = last
      /\ Atomic!Latest({events[i].at : i \in begun}) = first
  <2>1. {events[i].at : i \in rows} \in SUBSET Times /\ {events[i].at : i \in begun} \in SUBSET Times
    BY <1>3
  <2> QED BY <2>1, LatestAgrees
<1>5. History(o, n, opRead[s].state)
        = [lastAt    |-> last,
           startedAt |-> IF opRead[s].state = "RUNNING" THEN first ELSE NoTime]
  BY DEF History, rows
<1>6. Atomic!Snapshot(o)
        = [state     |-> operation[o].state,
           active    |-> attempts[o][n].active,
           startedAt |-> IF operation[o].state = "RUNNING"
                         THEN Atomic!Latest({events[i].at : i \in begun}) ELSE NoTime,
           lastAt    |-> Atomic!Latest({events[i].at : i \in rows}),
           result    |-> attempts[o][n].result]
  BY <1>2, SameCore, Zenon DEF Atomic!Snapshot
<1>7. Atomic!Snapshot(o)
        = [state     |-> operation[o].state,
           active    |-> attempts[o][n].active,
           startedAt |-> IF operation[o].state = "RUNNING" THEN first ELSE NoTime,
           lastAt    |-> last,
           result    |-> attempts[o][n].result]
  <2> HIDE DEF last, first, begun
  <2> QED BY <1>4, <1>6
<1> HIDE DEF last, first
<1> QED BY <1>1, <1>5, <1>7 DEF Snapshot
-----------------------------------------------------------------------------
(* A commit is one accepted event                                           *)

LEMMA CommitAccepts ==
  ASSUME SerialInv, NEW s \in Sessions, Commit(s)
  PROVE  Atomic!Next
<1> DEFINE r == req[s]
           o == req[s].op
           n == opRead[s].current
           old == attempts[o][n]
           after == After(Snapshot(s), r)
<1>1. pc[s] = "write"
  BY DEF Commit
<1>2. /\ o \in Ops /\ opRead[s] = operation[o] /\ attRead[s] = old
      /\ Atomic!Snapshot(o) = Snapshot(s)
  BY <1>1, SnapshotAgrees
<1>3. r \in Requests /\ r \in Atomic!Requests /\ r.id \in EventIds
  <2>1. r \in Requests
    BY <1>1 DEF SerialInv, IInv, TypeOK, LocalTypeOK, SessionTypeOK, Busy
  <2>2. r = [id |-> r.id, op |-> r.op, type |-> r.type, at |-> r.at, reason |-> r.reason]
        /\ r.id \in EventIds /\ r.type \in EventTypes /\ r.at \in Times /\ r.reason \in BOOLEAN
        /\ (r.reason => r.type \in {"HOLD", "FAIL"})
    BY <2>1 DEF Requests
  <2> QED BY <1>2, <2>1, <2>2, SameCore DEF Atomic!Requests
<1>4. ~ Recorded(r.id) /\ r.id = Len(events) + 1
  <2>1. ~ Recorded(r.id) /\ r.id <= Len(events) + 1 /\ r.id \in Nat /\ r.id >= 1
    BY <1>1, <1>3 DEF SerialInv, Fresh, Busy, EventIds
  <2>2. Len(events) \in Nat
    BY DEF SerialInv, IInv, TypeOK, DatabaseTypeOK
  <2>3. \A i \in 1 .. Len(events) : r.id # i
    BY <2>1 DEF SerialInv, Numbered, Recorded, Indices
  <2> QED BY <2>1, <2>2, <2>3
<1>5. Legal(Snapshot(s), r, ProcessOf[o])
  BY <1>1 DEF SerialInv, IInv, SessionFacts
<1>6. Atomic!Current(o) = n
  BY <1>2 DEF Atomic!Current
<1>7. events' = Append(events, Atomic!EventRow(r, Atomic!Current(o)))
  BY <1>6, SameCore DEF Commit
<1> DEFINE ops == [operation EXCEPT ![o].state = after.state]
           atts == [attempts EXCEPT ![o][n] = Atomic!Worked(@, after, r)]
<1>8. OperationWritten(s) = ops
  BY <1>2 DEF OperationWritten, Column, After
<1>9. AttemptsWritten(s) = atts
  <2>1. AttemptWritten(s, old) = Atomic!Worked(old, after, r)
    <3>1. old.active = attRead[s].active /\ old.result = attRead[s].result
          /\ old.startedAt = attRead[s].startedAt /\ old.endedAt = attRead[s].endedAt
      BY <1>2
    <3>2. after.state = StateAfter(r)
      BY DEF After
    <3> HIDE DEF after, old
    <3>3. AttemptWritten(s, old) =
            [old EXCEPT
               !.active = Column(attRead[s].active, after.active, @),
               !.result = Column(attRead[s].result, after.result, @),
               !.startedAt = IF r.type = "START" THEN FirstTime(attRead[s].startedAt, r.at, @) ELSE @,
               !.endedAt = IF StateAfter(r) = "COMPLETED"
                           THEN FirstTime(attRead[s].endedAt, r.at, @) ELSE @]
      BY DEF AttemptWritten, after
    <3>4. /\ Column(attRead[s].active, after.active, old.active) = after.active
          /\ Column(attRead[s].result, after.result, old.result) = after.result
      BY <3>1 DEF Column
    <3>5. /\ (IF r.type = "START" THEN FirstTime(attRead[s].startedAt, r.at, old.startedAt)
              ELSE old.startedAt)
               = IF r.type = "START" /\ old.startedAt = NoTime THEN r.at ELSE old.startedAt
          /\ (IF StateAfter(r) = "COMPLETED" THEN FirstTime(attRead[s].endedAt, r.at, old.endedAt)
              ELSE old.endedAt)
               = IF after.state = "COMPLETED" /\ old.endedAt = NoTime THEN r.at ELSE old.endedAt
      BY <3>1, <3>2 DEF FirstTime
    <3> QED BY <3>3, <3>4, <3>5, SameCore DEF Atomic!Worked
  <2> HIDE DEF after
  <2> QED BY <1>2, <2>1 DEF AttemptsWritten
<1> HIDE DEF ops, atts, after
(* Whether, and where, the event sends its unit.                             *)
<1> DEFINE sends == Atomic!SentBack(r) \/ Atomic!SentOn(r)
           targets == IF Atomic!SentBack(r) THEN Atomic!Running(o, "TUNING")
                      ELSE Atomic!Running(o, "FINAL_TEST")
           process == ReworkTarget(r, attRead[s].role)
<1>10. /\ Atomic!SentBack(r) <=> TriggersRework(r, ProcessOf[o])
       /\ Atomic!SentOn(r) <=> r.type = "COMPLETE" /\ ProcessOf[o] = "TUNING"
                               /\ attRead[s].role = "TUNING_REWORK"
  BY <1>2, <1>6, SameCore DEF Atomic!SentBack, Atomic!SentOn
<1>11. /\ sends <=> process # "NONE"
       /\ sends => \A t \in Ops : OnlyOperation(t, o, process) <=> targets = {t}
  <2>1. CASE TriggersRework(r, ProcessOf[o])
    <3>1. process = "TUNING"
      BY <2>1 DEF ReworkTarget, TriggersRework
    <3> QED BY <1>10, <2>1, <3>1 DEF OnlyOperation, Atomic!Running
  <2>2. CASE /\ ~ TriggersRework(r, ProcessOf[o]) /\ r.type = "COMPLETE"
             /\ ProcessOf[o] = "TUNING" /\ attRead[s].role = "TUNING_REWORK"
    <3>1. process = "FINAL_TEST"
      BY <2>2 DEF ReworkTarget
    <3> QED BY <1>10, <2>2, <3>1 DEF OnlyOperation, Atomic!Running
  <2>3. CASE /\ ~ TriggersRework(r, ProcessOf[o])
             /\ ~ (r.type = "COMPLETE" /\ ProcessOf[o] = "TUNING"
                   /\ attRead[s].role = "TUNING_REWORK")
    <3>1. process = "NONE"
      BY <2>3 DEF ReworkTarget
    <3> QED BY <1>10, <2>3, <3>1
  <2> QED BY <2>1, <2>2, <2>3
<1>12. Cause(s) = Atomic!Cause(r) \/ ~ sends
  <2>1. Atomic!SentBack(r) => r.type = "FAIL"
    BY <1>10 DEF TriggersRework
  <2>2. Atomic!SentOn(r) => r.type # "FAIL"
    BY <1>10
  <2> QED BY <1>2, <1>6, <2>1, <2>2, SameCore DEF Cause, Atomic!Cause
<1> HIDE DEF sends, targets, process
<1>13. IF sends
       THEN \E t \in targets :
              /\ targets = {t}
              /\ operation[t].state = "COMPLETED"
              /\ operation' = [ops EXCEPT
                   ![t] = [state |-> "WAITING", current |-> Len(attempts[t]) + 1,
                           eligibleAt |-> r.at]]
              /\ attempts' = [atts EXCEPT ![t] = Append(@, Atomic!Cause(r))]
       ELSE operation' = ops /\ attempts' = atts
  <2>1. \/ process = "NONE" /\ operation' = ops /\ attempts' = atts
        \/ \E t \in Ops :
             /\ CanStage(s, t)
             /\ operation' = [ops EXCEPT
                  ![t] = [state |-> "WAITING", current |-> Len(attempts[t]) + 1,
                          eligibleAt |-> r.at]]
             /\ attempts' = [atts EXCEPT ![t] = Append(@, Cause(s))]
    BY <1>8, <1>9 DEF Commit, process
  <2>2. ASSUME NEW t \in Ops, CanStage(s, t)
        PROVE  sends /\ targets = {t} /\ operation[t].state = "COMPLETED"
    <3>1. OnlyOperation(t, o, process) /\ operation[t].state = "COMPLETED"
      BY <2>2 DEF CanStage, process
    <3>2. process # "NONE"
      <4>1. ProcessOf[t] = process
        BY <3>1 DEF OnlyOperation
      <4> QED BY <4>1
    <3> QED BY <1>11, <3>1, <3>2
  <2>3. CASE process = "NONE" /\ operation' = ops /\ attempts' = atts
    BY <1>11, <2>3
  <2>4. CASE \E t \in Ops :
             /\ CanStage(s, t)
             /\ operation' = [ops EXCEPT
                  ![t] = [state |-> "WAITING", current |-> Len(attempts[t]) + 1,
                          eligibleAt |-> r.at]]
             /\ attempts' = [atts EXCEPT ![t] = Append(@, Cause(s))]
    BY <1>12, <2>2, <2>4
  <2> QED BY <2>1, <2>3, <2>4
<1>14. Atomic!Accept(r)
  <2>1. ~ Atomic!Recorded(r.id)
    BY <1>4 DEF Atomic!Recorded, Recorded, Atomic!Indices, Indices
  <2>2. Atomic!Legal(Atomic!Snapshot(o), r, ProcessOf[o])
    BY <1>2, <1>5, SameCore
  <2>3. Atomic!After(Atomic!Snapshot(o), r) = after
    BY <1>2, SameCore DEF after
  <2> QED BY <1>6, <1>7, <1>13, <2>1, <2>2, <2>3
          DEF Atomic!Accept, ops, atts, sends, targets
<1> QED BY <1>3, <1>4, <1>14 DEF Atomic!Next
-----------------------------------------------------------------------------
(* The invariant is kept                                                    *)

LEMMA SerialInit == Init => SerialInv
BY InitIInv DEF SerialInv, Init, Numbered, Begun, Fresh, Busy, Indices, Reading

(* The database, as a commit leaves it.                                     *)
LEMMA CommitDatabase ==
  ASSUME SerialInv, NEW s \in Sessions, Commit(s)
  PROVE  Numbered' /\ Begun'
<1> DEFINE r == req[s]
           e == EventRow(r, opRead[s].current)
           last == Len(events) + 1
<1>1. /\ pc[s] = "write" /\ Indices' = Indices \cup {last} /\ last \notin Indices
      /\ \A i \in Indices : events'[i] = events[i]
      /\ events'[last] = e
  BY CommitAppends DEF SerialInv, Commit
<1>2. /\ r.op \in Ops /\ opRead[s] = operation[r.op] /\ r \in Requests /\ r.id \in Nat /\ r.id >= 1
  BY <1>1, SnapshotAgrees DEF SerialInv, IInv, TypeOK, LocalTypeOK, SessionTypeOK, Busy,
                              Requests, EventIds
<1>3. r.id = last
  <2>1. ~ Recorded(r.id) /\ r.id <= last
    BY <1>1 DEF SerialInv, Fresh, Busy
  <2>2. Len(events) \in Nat
    BY DEF SerialInv, IInv, TypeOK, DatabaseTypeOK
  <2>3. \A i \in 1 .. Len(events) : r.id # i
    BY <2>1 DEF SerialInv, Numbered, Recorded, Indices
  <2> QED BY <1>2, <2>1, <2>2, <2>3
<1>4. e.id = r.id /\ e.op = r.op /\ e.attempt = opRead[s].current /\ e.type = r.type
  BY DEF EventRow
<1> HIDE DEF e, last
<1>5. Numbered'
  BY <1>1, <1>3, <1>4 DEF SerialInv, Numbered
<1>6. ASSUME NEW o \in Ops, operation'[o].state = "RUNNING"
      PROVE  \E i \in EventsOf(o, operation[o].current)' : events'[i].type \in {"START", "RESUME"}
  <2>1. /\ operation'[o].current = operation[o].current
        /\ operation'[o].state = OperationWritten(s)[o].state
    <3>1. /\ OperationWritten(s) \in [Ops -> OperationRow]
          /\ OperationWritten(s)[o].current = operation[o].current
      BY <1>1, OperationWrittenType DEF SerialInv, IInv
    <3>2. \/ operation' = OperationWritten(s)
          \/ \E t \in Ops : operation' = [OperationWritten(s) EXCEPT
               ![t] = [state |-> "WAITING", current |-> Len(attempts[t]) + 1,
                       eligibleAt |-> req[s].at]]
      BY DEF Commit
    <3> QED BY <1>6, <3>1, <3>2
  <2>2. CASE o = r.op
    <3>1. operation'[o].state = StateAfter(r)
      BY <1>2, <2>1, <2>2 DEF OperationWritten, Column, SerialInv, IInv, TypeOK, DatabaseTypeOK,
                              OperationRow
    <3>2. r.type \in {"START", "RESUME"}
      <4>1. r.type \in EventTypes /\ StateAfter(r) = "RUNNING"
        BY <1>2, <1>6, <3>1 DEF Requests
      <4> QED BY <4>1 DEF StateAfter
    <3>3. last \in EventsOf(o, operation[o].current)'
      BY <1>1, <1>2, <1>4, <2>1, <2>2 DEF EventsOf
    <3> QED BY <1>1, <1>4, <3>2, <3>3
  <2>3. CASE o # r.op
    <3>1. operation[o].state = "RUNNING"
      BY <1>2, <1>6, <2>1, <2>3 DEF OperationWritten, SerialInv, IInv, TypeOK, DatabaseTypeOK
    <3>2. PICK i \in EventsOf(o, operation[o].current) : events[i].type \in {"START", "RESUME"}
      BY <3>1 DEF SerialInv, Begun
    <3>3. i \in EventsOf(o, operation[o].current)' /\ events'[i] = events[i]
      BY <1>1, <2>1, <3>2 DEF EventsOf
    <3> QED BY <3>2, <3>3
  <2> QED BY <2>2, <2>3
<1>7. Begun'
  BY <1>6 DEF Begun
<1> QED BY <1>5, <1>7

(* A session that has answered holds nothing.                                *)
LEMMA IdleIsFresh ==
  ASSUME NEW s \in Sessions, pc[s] = "idle"
  PROVE  Fresh(s)
BY DEF Fresh, Busy, Reading

LEMMA SerialNext ==
  ASSUME NEW s, Sessions = {s}
  PROVE  SerialInv /\ [Next]_vars => SerialInv'
<1> SUFFICES ASSUME SerialInv, [Next]_vars PROVE SerialInv'
  OBVIOUS
<1>1. IInv' /\ IInv /\ s \in Sessions
  BY NextIInv DEF SerialInv
<1>2. UNCHANGED db => Numbered' /\ Begun'
  BY DEF SerialInv, Numbered, Begun, db, EventsOf, Indices
<1>3. LocalTypeOK /\ LocalTypeOK'
  BY <1>1 DEF IInv, TypeOK
<1>4. ASSUME NEW c \in Codes, Reply(s, c)
      PROVE  Fresh(s)'
  <2>1. pc'[s] = "idle"
    BY <1>1, <1>3, <1>4, ReplyType
  <2> QED BY <2>1 DEF Fresh, Busy, Reading
<1>5. CASE Commit(s)
  <2>1. Numbered' /\ Begun'
    BY <1>1, <1>5, CommitDatabase
  <2>2. Fresh(s)'
    BY <1>4, <1>5 DEF Commit, Codes
  <2> QED BY <1>1, <2>1, <2>2 DEF SerialInv
<1>6. ASSUME UNCHANGED db, Fresh(s)' PROVE SerialInv'
  BY <1>1, <1>2, <1>6 DEF SerialInv
<1>7. CASE RefuseRework(s) \/ Collide(s) \/ BusyTimeout(s)
  BY <1>4, <1>6, <1>7 DEF RefuseRework, Collide, BusyTimeout, Codes
<1>8. CASE Crash
  BY <1>1, <1>6, <1>8 DEF Crash, Fresh, Busy, Reading
<1>9. ASSUME NEW r \in Requests, Receive(s, r) PROVE SerialInv'
  <2>1. /\ pc' = [pc EXCEPT ![s] = "operation"] /\ req' = [req EXCEPT ![s] = r]
        /\ UNCHANGED db /\ ~ Busy(s) /\ (New(r) \/ Again(r))
    BY <1>9 DEF Receive, db
  <2>2. pc'[s] = "operation" /\ req'[s] = r /\ events' = events
    BY <1>1, <1>3, <2>1 DEF LocalTypeOK, db
  <2>3. r.id <= Len(events) + 1
    <3>1. Len(events) \in Nat /\ r.id \in Nat /\ r.id <= MaxEvents
      BY DEF SerialInv, IInv, TypeOK, DatabaseTypeOK, Requests, EventIds
    <3>2. \A id : InUse(id) <=> Recorded(id)
      BY <2>1 DEF InUse
    <3>3. CASE New(r)
      <4>1. Len(events) + 1 \in EventIds /\ Len(events) + 1 < r.id => Recorded(Len(events) + 1)
        BY <1>9, <3>2, <3>3 DEF New
      <4>2. ~ Recorded(Len(events) + 1)
        BY <3>1 DEF SerialInv, Numbered, Recorded, Indices
      <4> QED BY <3>1, <4>1, <4>2 DEF EventIds
    <3>4. CASE Again(r)
      <4>1. PICK i \in Indices : IsRowOf(events[i], r)
        BY <2>1, <3>4 DEF Again
      <4>2. r.id = i
        BY <4>1 DEF IsRowOf, EventRow, SerialInv, Numbered
      <4> QED BY <3>1, <4>2 DEF Indices
    <3> QED BY <2>1, <3>3, <3>4
  <2>4. Fresh(s)'
    BY <2>2, <2>3 DEF Fresh, Busy, Reading
  <2> QED BY <1>6, <2>1, <2>4
<1>10. CASE ReadOperation(s)
  <2>1. UNCHANGED db /\ pc[s] = "operation"
    BY <1>10 DEF ReadOperation
  <2>2. CASE req[s].op \in Ops
    <3>1. /\ opRead'[s] = operation[req[s].op] /\ pc'[s] = "attempt" /\ req'[s] = req[s]
      BY <1>1, <1>3, <1>10, <2>2 DEF ReadOperation, LocalTypeOK
    <3>2. Fresh(s)'
      BY <1>1, <2>1, <3>1 DEF Fresh, Busy, Reading, SerialInv, db
    <3> QED BY <1>6, <2>1, <3>2
  <2>3. CASE req[s].op \notin Ops
    BY <1>4, <1>6, <1>10, <2>1, <2>3 DEF ReadOperation, Codes
  <2> QED BY <2>2, <2>3
<1>11. CASE ReadAttempt(s)
  <2> DEFINE o == req[s].op
             n == opRead[s].current
  <2>1. UNCHANGED db /\ pc[s] = "attempt"
    BY <1>11 DEF ReadAttempt
  <2>2. CASE n \in DOMAIN attempts[o]
    <3>1. /\ attRead'[s] = attempts[o][n] /\ pc'[s] = "events" /\ req'[s] = req[s]
          /\ opRead'[s] = opRead[s]
      BY <1>1, <1>3, <1>11, <2>2 DEF ReadAttempt, LocalTypeOK
    <3>2. Fresh(s)'
      BY <1>1, <2>1, <3>1 DEF Fresh, Busy, Reading, SerialInv, db
    <3> QED BY <1>6, <2>1, <3>2
  <2>3. CASE n \notin DOMAIN attempts[o]
    BY <1>4, <1>6, <1>11, <2>1, <2>3 DEF ReadAttempt, Codes
  <2> QED BY <2>2, <2>3
<1>12. CASE ReadEvents(s)
  <2> DEFINE h == History(req[s].op, opRead[s].current, opRead[s].state)
  <2>1. UNCHANGED db /\ pc[s] = "events"
    BY <1>12 DEF ReadEvents
  <2>2. CASE ~ (opRead[s].state = "RUNNING" /\ h.startedAt = NoTime)
    <3>1. /\ evRead' = [evRead EXCEPT ![s] = h] /\ pc' = [pc EXCEPT ![s] = "existing"]
          /\ req'[s] = req[s] /\ opRead'[s] = opRead[s] /\ attRead'[s] = attRead[s]
      BY <1>12, <2>2 DEF ReadEvents
    <3>2. evRead'[s] = h /\ pc'[s] = "existing"
      BY <1>1, <1>3, <3>1 DEF LocalTypeOK
    <3>3. h = History(req[s].op, opRead[s].current, opRead[s].state)'
      BY <2>1, <3>1 DEF History, EventsOf, Indices, db
    <3> HIDE DEF h
    <3>4. Fresh(s)'
      BY <1>1, <2>1, <3>1, <3>2, <3>3 DEF Fresh, Busy, Reading, SerialInv, db
    <3> QED BY <1>6, <2>1, <3>4
  <2>3. CASE opRead[s].state = "RUNNING" /\ h.startedAt = NoTime
    BY <1>4, <1>6, <1>12, <2>1, <2>3 DEF ReadEvents, Codes
  <2> QED BY <2>2, <2>3
<1>13. CASE ReadExisting(s)
  <2>1. UNCHANGED db /\ pc[s] = "existing"
    BY <1>13 DEF ReadExisting
  <2>2. \/ \E c \in Codes : Reply(s, c)
        \/ /\ ~ Recorded(req[s].id) /\ pc' = [pc EXCEPT ![s] = "write"]
           /\ UNCHANGED <<req, opRead, attRead, evRead, code>>
    BY <1>13 DEF ReadExisting, Codes
  <2>3. ASSUME ~ Recorded(req[s].id), pc' = [pc EXCEPT ![s] = "write"],
               UNCHANGED <<req, opRead, attRead, evRead, code>>
        PROVE  Fresh(s)'
    <3>1. pc'[s] = "write"
      BY <1>1, <1>3, <2>3 DEF LocalTypeOK
    <3>2. Fresh(s)
      BY <1>1 DEF SerialInv
    <3>3. History(req[s].op, opRead[s].current, opRead[s].state)'
            = History(req[s].op, opRead[s].current, opRead[s].state)
      BY <2>1, <2>3 DEF History, EventsOf, Indices, db
    <3>4. (~ Recorded(req[s].id))'
      BY <2>1, <2>3 DEF Recorded, Indices, db
    <3> QED BY <2>1, <2>3, <3>1, <3>2, <3>3, <3>4 DEF Fresh, Busy, Reading, db
  <2> QED BY <1>4, <1>6, <2>1, <2>2, <2>3
<1>14. CASE UNCHANGED vars
  <2>1. History(req[s].op, opRead[s].current, opRead[s].state)'
          = History(req[s].op, opRead[s].current, opRead[s].state)
    BY <1>14 DEF History, EventsOf, Indices, vars
  <2>2. Fresh(s)'
    BY <1>1, <1>14, <2>1 DEF vars, SerialInv, Fresh, Busy, Reading, Recorded, Indices
  <2> QED BY <1>6, <1>14, <2>2 DEF vars, db
<1> QED
  BY <1>5, <1>7, <1>8, <1>9, <1>10, <1>11, <1>12, <1>13, <1>14 DEF Next

-----------------------------------------------------------------------------
(* Theorems                                                                 *)

(* Served one at a time, requests implement ExecutionAtomic: each answer 201  *)
(* is one event accepted on the state the ones before it left, and nothing    *)
(* else, no read, refusal, retry, timeout or crash, changes anything.        *)
THEOREM ServedOneAtATime ==
  ASSUME NEW s, Sessions = {s}
  PROVE  Spec => OneAtATime
<1>1. SerialInv /\ [Next]_vars => SerialInv'
  BY SerialNext
<1>2. Init => Atomic!Init
  BY SameCore DEF Init, Atomic!Init, FirstAttempt
<1>3. SerialInv /\ [Next]_vars => [Atomic!Next]_(Atomic!vars)
  <2> SUFFICES ASSUME SerialInv, [Next]_vars PROVE [Atomic!Next]_(Atomic!vars)
    OBVIOUS
  <2>1. CASE UNCHANGED db
    BY <2>1 DEF db, Atomic!vars
  <2>2. CASE \E p \in Sessions : Commit(p)
    BY <2>2, CommitAccepts
  <2> QED BY <2>1, <2>2, OnlyCommitWrites DEF vars, db
<1> QED BY <1>1, <1>2, <1>3, SerialInit, PTL DEF Spec, OneAtATime, Atomic!Spec

(* Served one at a time, requests never wedge an operation: one that is       *)
(* RUNNING has the START or RESUME event that HOLD and COMPLETE need (the     *)
(* "has no START/RESUME event" error of _load_execution_snapshot).           *)
THEOREM NeverWedged ==
  ASSUME NEW s, Sessions = {s}
  PROVE  Spec => []NotWedged
<1>1. SerialInv /\ [Next]_vars => SerialInv'
  BY SerialNext
<1>2. SerialInv => NotWedged
  <2> SUFFICES ASSUME SerialInv, NEW o \in Ops, operation[o].state = "RUNNING"
               PROVE  Committed(o).startedAt # NoTime
    BY DEF NotWedged
  <2> DEFINE n == operation[o].current
             begun == {i \in EventsOf(o, n) : events[i].type \in {"START", "RESUME"}}
             S == {events[i].at : i \in begun}
  <2>1. begun # {}
    BY DEF SerialInv, Begun
  <2>2. S \in SUBSET Times
    BY EventType DEF EventsOf, WorkEventRow, SerialInv, IInv, TypeOK
  <2>3. S # {}
    BY <2>1
  <2>4. Latest(S) \in Times
    <3> HIDE DEF S
    <3> QED BY <2>2, <2>3, LatestExists
  <2>5. Committed(o).startedAt = Latest(S)
    BY DEF Committed, History
  <2> QED BY <2>4, <2>5, TimesType
<1> QED BY <1>1, <1>2, SerialInit, PTL DEF Spec
=============================================================================
