-------------------------- MODULE ExecutionAtomic ---------------------------
(***************************************************************************)
(* What persist_work_event promises ("Apply and atomically persist one      *)
(* shop-floor WorkEvent"): each accepted event is judged on the state that   *)
(* the events accepted before it have left, and takes effect in one step.    *)
(* Execution implements this when its requests are served one at a time.     *)
(***************************************************************************)
EXTENDS WorkEvents, Sequences, FiniteSets

CONSTANTS Ops, UnitOf, ProcessOf, MaxEvents, MaxTime, None

ASSUME AtomicAssumption ==
  /\ MaxEvents \in Nat /\ MaxTime \in Nat
  /\ ProcessOf \in [Ops -> STRING \ {"NONE"}]
  /\ None \notin Ops \cup Nat

VARIABLES operation, attempts, events

vars == <<operation, attempts, events>>

Times == 0 .. MaxTime
EventIds == 1 .. MaxEvents

Requests ==
  {r \in [id : EventIds, op : Ops, type : EventTypes, at : Times,
          reason : BOOLEAN] : r.reason => r.type \in {"HOLD", "FAIL"}}

NewAttempt(role, source, event) ==
  [startedAt |-> NoTime, endedAt |-> NoTime, result |-> "NONE", active |-> 0,
   role |-> role, source |-> source, event |-> event]

EventRow(r, n) ==
  [id |-> r.id, op |-> r.op, attempt |-> n, type |-> r.type, at |-> r.at,
   reason |-> r.reason]

Indices == 1 .. Len(events)
EventsOf(o, n) == {i \in Indices : events[i].op = o /\ events[i].attempt = n}
Recorded(id) == \E i \in Indices : events[i].id = id
Latest(S) == IF S = {} THEN NoTime ELSE CHOOSE t \in S : \A u \in S : u <= t

-----------------------------------------------------------------------------
(* The current attempt of an operation, as the events accepted so far left   *)
(* it.                                                                      *)
Current(o) == operation[o].current

Snapshot(o) ==
  LET rows == EventsOf(o, Current(o))
      begun == {i \in rows : events[i].type \in {"START", "RESUME"}}
  IN [state     |-> operation[o].state,
      active    |-> attempts[o][Current(o)].active,
      startedAt |-> IF operation[o].state = "RUNNING"
                    THEN Latest({events[i].at : i \in begun}) ELSE NoTime,
      lastAt    |-> Latest({events[i].at : i \in rows}),
      result    |-> attempts[o][Current(o)].result]

Worked(a, new, r) ==
  [a EXCEPT !.active = new.active,
            !.result = new.result,
            !.startedAt = IF r.type = "START" /\ @ = NoTime THEN r.at ELSE @,
            !.endedAt = IF new.state = "COMPLETED" /\ @ = NoTime THEN r.at ELSE @]

(* The operations of the unit that run a process.                           *)
Running(o, process) == {u \in Ops : UnitOf[u] = UnitOf[o] /\ ProcessOf[u] = process}

(* A failed final test sends its unit back to tuning; completing that tuning *)
(* sends it on to a retest.                                                 *)
SentBack(r) == TriggersRework(r, ProcessOf[r.op])
(* Mutant: any completed tuning is sent on.                                 *)
SentOn_Always(r) == r.type = "COMPLETE" /\ ProcessOf[r.op] = "TUNING"
SentOn(r) == /\ r.type = "COMPLETE" /\ ProcessOf[r.op] = "TUNING"
             /\ attempts[r.op][Current(r.op)].role = "TUNING_REWORK"

Cause(r) ==
  IF SentBack(r)
  THEN NewAttempt("TUNING_REWORK", r.op, r.id)
  ELSE LET a == attempts[r.op][Current(r.op)]
       IN NewAttempt("FINAL_TEST_RETEST", a.source, a.event)

Accept(r) ==
  /\ ~ Recorded(r.id)
  /\ Legal(Snapshot(r.op), r, ProcessOf[r.op])
  /\ events' = Append(events, EventRow(r, Current(r.op)))
  /\ LET o == r.op
         after == After(Snapshot(o), r)
         ops == [operation EXCEPT ![o].state = after.state]
         atts == [attempts EXCEPT ![o][Current(o)] = Worked(@, after, r)]
         targets == IF SentBack(r) THEN Running(o, "TUNING")
                    ELSE Running(o, "FINAL_TEST")
     IN IF SentBack(r) \/ SentOn(r)
        THEN \E t \in targets :
               /\ targets = {t}
               /\ operation[t].state = "COMPLETED"
               /\ operation' = [ops EXCEPT
                    ![t] = [state |-> "WAITING", current |-> Len(attempts[t]) + 1,
                            eligibleAt |-> r.at]]
               /\ attempts' = [atts EXCEPT ![t] = Append(@, Cause(r))]
        ELSE operation' = ops /\ attempts' = atts

(* Anything else leaves the database as it was.                             *)
Init ==
  /\ operation = [o \in Ops |-> [state |-> "WAITING", current |-> 1, eligibleAt |-> 0]]
  /\ attempts = [o \in Ops |-> <<NewAttempt("NONE", None, None)>>]
  /\ events = <<>>

(* Event ids are opaque: they are named in the order of their acceptance.     *)
Next == \E r \in Requests : r.id = Len(events) + 1 /\ Accept(r)

Spec == Init /\ [][Next]_vars

-----------------------------------------------------------------------------
(* Properties of the promised behaviour                                     *)

(* The events of an attempt, replayed from a fresh snapshot.                *)
Fresh == [state |-> "WAITING", active |-> 0, startedAt |-> NoTime,
          lastAt |-> NoTime, result |-> "NONE"]

Replaying(log, o, n) ==
  LET step[k \in 0 .. Len(log)] ==
        IF k = 0 THEN [legal |-> TRUE, snap |-> Fresh]
        ELSE IF log[k].op = o /\ log[k].attempt = n
        THEN [legal |-> /\ step[k - 1].legal
                        /\ Legal(step[k - 1].snap, log[k], ProcessOf[o]),
              snap  |-> After(step[k - 1].snap, log[k])]
        ELSE step[k - 1]
  IN step

Replay(o, n) == Replaying(events, o, n)[Len(events)]

(* The instants at which an attempt is being worked on, read off the log     *)
(* alone: the latest of its events so far is a START or a RESUME.            *)
WorkedAt(o, n, t) ==
  \E i \in EventsOf(o, n) :
    /\ events[i].at <= t /\ events[i].type \in {"START", "RESUME"}
    /\ \A j \in EventsOf(o, n) : events[j].at <= t => j <= i

(* LogReplays: the event log is the truth.  Replaying the events of any      *)
(* attempt meets only legal transitions and ends in the stored row; an       *)
(* attempt that has been superseded was completed; and active_minutes of one  *)
(* that is not running is exactly the time it was worked on: no time on HOLD, *)
(* before START or after the end is counted, and none is counted twice.      *)
(* (execution_state.py against the columns execution_service.py keeps.)      *)
LogReplays ==
  \A o \in Ops : \A n \in DOMAIN attempts[o] :
    LET replay == Replay(o, n)
        a == attempts[o][n]
        state == IF n = Current(o) THEN operation[o].state ELSE "COMPLETED"
    IN /\ replay.legal
       /\ replay.snap.result = a.result
       /\ replay.snap.state = state
       /\ state # "RUNNING" => a.active = Cardinality({t \in Times : WorkedAt(o, n, t)})

(* ReworkLoop: in a unit with one TUNING and one FINAL_TEST operation the     *)
(* loop FINAL_TEST -> TUNING -> FINAL_TEST never runs ahead of itself: the    *)
(* tuning is at most one attempt ahead of the test, it is ahead only while   *)
(* the latest test has failed, and every earlier test failed too.            *)
ReworkLoop ==
  \A f, t \in Ops :
    Running(f, "FINAL_TEST") = {f} /\ Running(f, "TUNING") = {t} =>
      LET tests == attempts[f]
          tunings == attempts[t]
      IN /\ Len(tunings) \in {Len(tests), Len(tests) + 1}
         /\ Len(tunings) > Len(tests) => tests[Len(tests)].result = "FAIL"
         /\ \A n \in 1 .. Len(tests) - 1 : tests[n].result = "FAIL"

(* The attempts that a failure has staged in a role.                        *)
StagedFor(id, role) ==
  {x \in Ops \X EventIds : /\ x[2] \in DOMAIN attempts[x[1]]
                          /\ attempts[x[1]][x[2]].event = id
                          /\ attempts[x[1]][x[2]].role = role}

(* ReworkReachesRetest: the rework loop is FINAL_TEST -> TUNING ->            *)
(* FINAL_TEST: a unit whose tuning rework is done has its retest staged.     *)
ReworkReachesRetest ==
  \A o \in Ops : \A n \in DOMAIN attempts[o] :
    attempts[o][n].role = "TUNING_REWORK" /\ n = Current(o)
      /\ operation[o].state = "COMPLETED"
        => StagedFor(attempts[o][n].event, "FINAL_TEST_RETEST") # {}
=============================================================================
