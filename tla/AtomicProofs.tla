---------------------------- MODULE AtomicProofs ----------------------------
(***************************************************************************)
(* Theorems about ExecutionAtomic for any number of units, operations,        *)
(* events and instants: the event log is the truth, and the rework loop       *)
(* never runs ahead of itself.                                               *)
(***************************************************************************)
EXTENDS ExecutionAtomic, Induction, SequenceTheorems, TLAPS

USE AtomicAssumption

-----------------------------------------------------------------------------
(* The inductive invariant                                                  *)

EventRows ==
  [id : Nat, op : Ops, attempt : Nat, type : EventTypes, at : Times, reason : BOOLEAN]
AttemptRoles == {"NONE", "TUNING_REWORK", "FINAL_TEST_RETEST"}
AttemptRows ==
  [startedAt : Times \cup {NoTime}, endedAt : Times \cup {NoTime}, result : Results,
   active : Nat, role : AttemptRoles, source : Ops \cup {None}, event : Nat \cup {None}]
OperationRows == [state : OperationStates, current : Nat, eligibleAt : Times]

TypeOK ==
  /\ operation \in [Ops -> OperationRows]
  /\ attempts \in [Ops -> Seq(AttemptRows)]
  /\ events \in Seq(EventRows)

(* The current attempt is the latest one, and nothing is recorded under an    *)
(* attempt that does not exist.                                             *)
Keyed ==
  /\ \A o \in Ops : operation[o].current = Len(attempts[o]) /\ attempts[o] # <<>>
  /\ \A i \in Indices : events[i].attempt \in 1 .. Len(attempts[events[i].op])

(* The events of an attempt in a log, and the instants at which they have it  *)
(* being worked on.                                                         *)
In(log, o, n) == {i \in 1 .. Len(log) : log[i].op = o /\ log[i].attempt = n}
Begins(e) == e.type \in {"START", "RESUME"}
At(log, o, n, t) ==
  \E i \in In(log, o, n) :
    /\ log[i].at <= t /\ Begins(log[i])
    /\ \A j \in In(log, o, n) : log[j].at <= t => j <= i
WorkedBefore(log, o, n, limit) == {t \in Times : t < limit /\ At(log, o, n, t)}

Folded(log, o, n) == Replaying(log, o, n)[Len(log)]

(* What replaying a log says of an attempt: the last instant is the latest    *)
(* of its events; running, it was last begun at that instant, and is being   *)
(* worked on from then on; and the active time is the time worked before it. *)
Replayed(log, o, n, snap) ==
  LET rows == In(log, o, n)
  IN /\ Folded(log, o, n) = [legal |-> TRUE, snap |-> snap]
     /\ snap \in Snapshots(Times)
     /\ rows = {} => snap = Fresh
     /\ rows # {} => snap.state # "WAITING" /\ \E i \in rows : log[i].at = snap.lastAt
     /\ \A i \in rows : log[i].at <= snap.lastAt
     /\ IF snap.state = "RUNNING"
        THEN /\ snap.startedAt = snap.lastAt
             /\ \E i \in rows : log[i].at = snap.lastAt /\ Begins(log[i])
        ELSE snap.startedAt = NoTime
     /\ \A t \in Times : snap.lastAt <= t => (At(log, o, n, t) <=> snap.state = "RUNNING")
     /\ snap.active = Cardinality(WorkedBefore(log, o, n, snap.lastAt))

StateOf(o, n) == IF n = Current(o) THEN operation[o].state ELSE "COMPLETED"

(* The columns of a row are what replaying its events gives.                 *)
RowReplays(o, n) ==
  LET snap == Folded(events, o, n).snap
  IN /\ Replayed(events, o, n, snap)
     /\ snap.active = attempts[o][n].active
     /\ snap.result = attempts[o][n].result
     /\ snap.state = StateOf(o, n)

IInv ==
  /\ TypeOK
  /\ Keyed
  /\ \A o \in Ops : \A n \in DOMAIN attempts[o] : RowReplays(o, n)

(* The first attempt of an operation has no role, later ones of a tuning are  *)
(* rework; and a tuning that has been caught up by its test is done.         *)
LoopFacts ==
  /\ \A o \in Ops : \A n \in DOMAIN attempts[o] :
       ProcessOf[o] = "TUNING" =>
         attempts[o][n].role = IF n = 1 THEN "NONE" ELSE "TUNING_REWORK"
  /\ \A f, t \in Ops :
       Running(f, "FINAL_TEST") = {f} /\ Running(f, "TUNING") = {t} =>
         (Len(attempts[t]) = Len(attempts[f]) /\ Len(attempts[f]) > 1 =>
            operation[t].state = "COMPLETED")

-----------------------------------------------------------------------------
(* Replaying a log                                                          *)

(* A step of the replay is some snapshot, legal or not.                      *)
Steps ==
  [legal : BOOLEAN,
   snap : [state : OperationStates, active : Int, startedAt : Int, lastAt : Int,
           result : Results]]

StepOn(x, e, o, n) ==
  IF e.op = o /\ e.attempt = n
  THEN [legal |-> x.legal /\ Legal(x.snap, e, ProcessOf[o]), snap |-> After(x.snap, e)]
  ELSE x

Start == [legal |-> TRUE, snap |-> Fresh]

LEMMA StartType == Start \in Steps
BY DEF Start, Steps, Fresh, NoTime, OperationStates, Results

LEMMA StepType ==
  ASSUME NEW x \in Steps, NEW e \in EventRows, NEW o, NEW n
  PROVE  StepOn(x, e, o, n) \in Steps
<1>1. e.type \in EventTypes /\ e.at \in Int
  BY DEF EventRows, Times
<1>2. x.legal \in BOOLEAN /\ x.snap.active \in Int /\ x.snap.startedAt \in Int
      /\ x.snap.result \in Results
  BY DEF Steps
<1>3. StateAfter(e) \in OperationStates
  BY <1>1 DEF StateAfter, OperationStates, EventTypes
<1>4. ActiveAfter(x.snap, e) \in Int
  BY <1>1, <1>2 DEF ActiveAfter
<1>5. (IF IsVerdict(e) THEN e.type ELSE x.snap.result) \in Results
  BY <1>2 DEF IsVerdict, Results
<1>6. (IF StateAfter(e) = "RUNNING" THEN e.at ELSE NoTime) \in Int
  BY <1>1 DEF NoTime
<1>7. After(x.snap, e) \in [state : OperationStates, active : Int, startedAt : Int,
                            lastAt : Int, result : Results]
  BY <1>1, <1>3, <1>4, <1>5, <1>6 DEF After
<1>8. (x.legal /\ Legal(x.snap, e, ProcessOf[o])) \in BOOLEAN
  BY <1>2 DEF Legal
<1> HIDE DEF Legal, After
<1> QED BY <1>7, <1>8 DEF StepOn, Steps

(* The replay is what its definition says.                                  *)
LEMMA ReplayingSteps ==
  ASSUME NEW log \in Seq(EventRows), NEW o, NEW n
  PROVE  /\ Replaying(log, o, n)[0] = Start
         /\ \A k \in 1 .. Len(log) :
              Replaying(log, o, n)[k] = StepOn(Replaying(log, o, n)[k - 1], log[k], o, n)
<1> DEFINE K == 0 .. Len(log)
           body(f) == [k \in K |->
             IF k = 0 THEN [legal |-> TRUE, snap |-> Fresh]
             ELSE IF log[k].op = o /\ log[k].attempt = n
             THEN [legal |-> /\ f[k - 1].legal
                             /\ Legal(f[k - 1].snap, log[k], ProcessOf[o]),
                   snap  |-> After(f[k - 1].snap, log[k])]
             ELSE f[k - 1]]
           g == [i \in Nat |-> [x \in Steps |->
                  IF i + 1 \in K THEN StepOn(x, log[i + 1], o, n) ELSE x]]
<1>1. \E f : Recurs(f, Steps, Start, g)
  <2>1. ASSUME NEW i \in Nat, NEW x \in Steps
        PROVE  (IF i + 1 \in K THEN StepOn(x, log[i + 1], o, n) ELSE x) \in Steps
    <3>1. CASE i + 1 \in K
      <4>1. log[i + 1] \in EventRows
        BY <3>1, ElementOfSeq
      <4> QED BY <4>1, StepType
    <3>2. CASE i + 1 \notin K
      BY <3>2
    <3> QED BY <3>1, <3>2
  <2>2. \A i \in Nat : g[i] \in [Steps -> Steps]
    BY <2>1
  <2> HIDE DEF g
  <2> QED BY <2>2, StartType, Recursion
<1>2. PICK f : Recurs(f, Steps, Start, g)
  BY <1>1
<1> DEFINE h == [k \in K |-> f[k]]
<1>3. h[0] = Start
  BY <1>2 DEF Recurs
<1>4. ASSUME NEW k \in K, k # 0
      PROVE  h[k] = StepOn(h[k - 1], log[k], o, n)
  <2>1. k - 1 \in Nat /\ k - 1 \in K /\ (k - 1) + 1 = k
    BY <1>4
  <2>2. f[k - 1] \in Steps
    BY <1>2, <2>1 DEF Recurs
  <2>3. f[k] = g[k - 1][f[k - 1]]
    BY <1>2, <2>1 DEF Recurs
  <2> QED BY <2>1, <2>2, <2>3
<1>5. h = body(h)
  BY <1>3, <1>4 DEF StepOn, Start
<1>6. Replaying(log, o, n) = (CHOOSE e : e = body(e))
  BY Zenon DEF Replaying
<1> HIDE DEF h
<1>7. Replaying(log, o, n) = body(Replaying(log, o, n))
  <2> HIDE DEF body
  <2> QED BY <1>5, <1>6, Zenon
<1> HIDE DEF g
<1> DEFINE r == Replaying(log, o, n)
<1> HIDE DEF r
<1>8. r = body(r)
  BY <1>7 DEF r
<1>9. r[0] = Start
  BY <1>8 DEF Start
<1>10. ASSUME NEW k \in 1 .. Len(log)
       PROVE  r[k] = StepOn(r[k - 1], log[k], o, n)
  <2>1. k \in K /\ k # 0
    OBVIOUS
  <2>2. r[k] = body(r)[k]
    BY <1>8
  <2>3. body(r)[k] = StepOn(r[k - 1], log[k], o, n)
    BY <2>1 DEF StepOn
  <2> QED BY <2>2, <2>3
<1> QED BY <1>9, <1>10 DEF r

(* One more event is one more step.                                         *)
LEMMA FoldedAppend ==
  ASSUME NEW log \in Seq(EventRows), NEW e \in EventRows, NEW o, NEW n
  PROVE  Folded(Append(log, e), o, n) = StepOn(Folded(log, o, n), e, o, n)
<1> DEFINE more == Append(log, e)
           Same == {k \in Nat : k <= Len(log) =>
                      Replaying(more, o, n)[k] = Replaying(log, o, n)[k]}
<1>1. /\ more \in Seq(EventRows) /\ Len(more) = Len(log) + 1
      /\ \A k \in 1 .. Len(log) : more[k] = log[k]
      /\ more[Len(log) + 1] = e
  OBVIOUS
<1> HIDE DEF more
<1>2. 0 \in Same
  BY <1>1, ReplayingSteps
<1>3. ASSUME NEW k \in Nat, k \in Same
      PROVE  k + 1 \in Same
  <2> SUFFICES ASSUME k + 1 <= Len(log)
               PROVE  Replaying(more, o, n)[k + 1] = Replaying(log, o, n)[k + 1]
    OBVIOUS
  <2>1. k + 1 \in 1 .. Len(log) /\ k + 1 \in 1 .. Len(more) /\ (k + 1) - 1 = k
    BY <1>1
  <2>2. Replaying(more, o, n)[k] = Replaying(log, o, n)[k]
    BY <1>3
  <2>3. Replaying(more, o, n)[k + 1] = StepOn(Replaying(more, o, n)[k], more[k + 1], o, n)
    BY <1>1, <2>1, ReplayingSteps
  <2>4. Replaying(log, o, n)[k + 1] = StepOn(Replaying(log, o, n)[k], log[k + 1], o, n)
    BY <2>1, ReplayingSteps
  <2> QED BY <1>1, <2>1, <2>2, <2>3, <2>4
<1> HIDE DEF Same
<1>4. Nat \subseteq Same
  BY <1>2, <1>3, InductionOnNat
<1>5. Replaying(more, o, n)[Len(log)] = Replaying(log, o, n)[Len(log)]
  BY <1>4 DEF Same
<1>6. Len(more) \in 1 .. Len(more) /\ Len(more) - 1 = Len(log)
  BY <1>1
<1>7. Replaying(more, o, n)[Len(more)]
        = StepOn(Replaying(more, o, n)[Len(more) - 1], more[Len(more)], o, n)
  BY <1>1, <1>6, ReplayingSteps
<1> QED BY <1>1, <1>5, <1>6, <1>7 DEF Folded, more
(* Nothing recorded, nothing done.                                          *)
LEMMA FoldedNone ==
  ASSUME NEW log \in Seq(EventRows), NEW o, NEW n, In(log, o, n) = {}
  PROVE  Folded(log, o, n) = Start
<1> DEFINE Same == {k \in Nat : k <= Len(log) => Replaying(log, o, n)[k] = Start}
<1>1. 0 \in Same
  BY ReplayingSteps
<1>2. ASSUME NEW k \in Nat, k \in Same
      PROVE  k + 1 \in Same
  <2> SUFFICES ASSUME k + 1 <= Len(log) PROVE Replaying(log, o, n)[k + 1] = Start
    OBVIOUS
  <2>1. k + 1 \in 1 .. Len(log) /\ (k + 1) - 1 = k
    OBVIOUS
  <2>2. Replaying(log, o, n)[k + 1] = StepOn(Replaying(log, o, n)[k], log[k + 1], o, n)
    BY <2>1, ReplayingSteps
  <2>3. ~ (log[k + 1].op = o /\ log[k + 1].attempt = n)
    BY <2>1 DEF In
  <2> QED BY <1>2, <2>2, <2>3 DEF StepOn
<1> HIDE DEF Same
<1>3. Nat \subseteq Same
  BY <1>1, <1>2, InductionOnNat
<1>4. Len(log) \in Same
  BY <1>3
<1> QED BY <1>4 DEF Same, Folded

LEMMA ReplayedNone ==
  ASSUME NEW log \in Seq(EventRows), NEW o, NEW n, In(log, o, n) = {}
  PROVE  Replayed(log, o, n, Fresh)
<1>1. Folded(log, o, n) = [legal |-> TRUE, snap |-> Fresh]
  BY FoldedNone DEF Start
<1>2. Fresh \in Snapshots(Times)
  BY DEF Fresh, Snapshots, OperationStates, Results
<1>3. WorkedBefore(log, o, n, NoTime) = {}
  BY DEF WorkedBefore, At
<1> QED BY <1>1, <1>2, <1>3, FS_EmptySet DEF Replayed, Fresh, At

(* The rows of an attempt after one more event.                             *)
LEMMA InAppend ==
  ASSUME NEW log \in Seq(EventRows), NEW e \in EventRows, NEW o, NEW n
  PROVE  LET more == Append(log, e)
         IN /\ more \in Seq(EventRows) /\ Len(more) = Len(log) + 1
            /\ \A i \in 1 .. Len(log) : more[i] = log[i]
            /\ more[Len(log) + 1] = e
            /\ In(log, o, n) \subseteq 1 .. Len(log)
            /\ In(more, o, n) = IF e.op = o /\ e.attempt = n
                                THEN In(log, o, n) \cup {Len(log) + 1}
                                ELSE In(log, o, n)
<1> DEFINE more == Append(log, e)
<1>1. /\ more \in Seq(EventRows) /\ Len(more) = Len(log) + 1
      /\ \A i \in 1 .. Len(log) : more[i] = log[i]
      /\ more[Len(log) + 1] = e
  OBVIOUS
<1> HIDE DEF more
<1>2. 1 .. Len(more) = 1 .. Len(log) \cup {Len(log) + 1}
  BY <1>1
<1> QED BY <1>1, <1>2 DEF In, more

LEMMA ReplayedOther ==
  ASSUME NEW log \in Seq(EventRows), NEW e \in EventRows, NEW o, NEW n, NEW snap,
         ~ (e.op = o /\ e.attempt = n), Replayed(log, o, n, snap)
  PROVE  Replayed(Append(log, e), o, n, snap)
<1> DEFINE more == Append(log, e)
<1>1. /\ In(more, o, n) = In(log, o, n)
      /\ \A i \in In(log, o, n) : more[i] = log[i]
  BY InAppend
<1>2. Folded(more, o, n) = Folded(log, o, n)
  BY FoldedAppend DEF StepOn
<1> HIDE DEF more
<1>3. \A t : At(more, o, n, t) <=> At(log, o, n, t)
  BY <1>1 DEF At
<1>4. WorkedBefore(more, o, n, snap.lastAt) = WorkedBefore(log, o, n, snap.lastAt)
  BY <1>3 DEF WorkedBefore
<1> QED BY <1>1, <1>2, <1>3, <1>4 DEF Replayed, more

LEMMA StateAfterCases ==
  ASSUME NEW e, e.type \in EventTypes
  PROVE  /\ StateAfter(e) \in OperationStates \ {"WAITING"}
         /\ StateAfter(e) = "RUNNING" <=> e.type \in {"START", "RESUME"}
<1>1. CASE e.type \in {"START", "RESUME"}
  BY <1>1 DEF StateAfter, OperationStates
<1>2. CASE e.type = "HOLD"
  BY <1>2 DEF StateAfter, OperationStates
<1>3. CASE e.type \notin {"START", "RESUME", "HOLD"}
  BY <1>3 DEF StateAfter, OperationStates
<1> QED BY <1>1, <1>2, <1>3

(* What an accepted event leaves: it is the latest of its attempt, so it      *)
(* alone says whether the attempt is worked on from then on, and the time    *)
(* since the event before it was worked exactly if that one began work.      *)
LEMMA ReplayedNext ==
  ASSUME NEW log \in Seq(EventRows), NEW e \in EventRows, NEW o, NEW n, NEW snap,
         e.op = o /\ e.attempt = n, Replayed(log, o, n, snap),
         Legal(snap, e, ProcessOf[o])
  PROVE  Replayed(Append(log, e), o, n, After(snap, e))
<1> DEFINE more == Append(log, e)
           last == Len(log) + 1
           rows == In(log, o, n)
           after == After(snap, e)
<1>1. /\ more \in Seq(EventRows) /\ more[last] = e
      /\ \A i \in rows : more[i] = log[i] /\ i < last /\ i \in 1 .. Len(log)
      /\ In(more, o, n) = rows \cup {last} /\ last \in Nat
  BY InAppend
<1>2. Folded(more, o, n) = [legal |-> TRUE, snap |-> after]
  <2>1. Folded(log, o, n) = [legal |-> TRUE, snap |-> snap]
    BY DEF Replayed
  <2>2. Folded(more, o, n) = StepOn(Folded(log, o, n), e, o, n)
    BY FoldedAppend
  <2>3. StepOn([legal |-> TRUE, snap |-> snap], e, o, n) = [legal |-> TRUE, snap |-> after]
    BY Zenon DEF StepOn
  <2> QED BY <2>1, <2>2, <2>3
<1> HIDE DEF more
<1>3. /\ e.at \in Times /\ e.type \in EventTypes
      /\ snap.lastAt \in Times \cup {NoTime} /\ snap.active \in Nat
      /\ snap.startedAt \in Times \cup {NoTime}
      /\ snap.result \in Results /\ snap.state \in OperationStates
  BY DEF EventRows, Replayed, Snapshots
<1>4. e.at \in Nat /\ snap.lastAt \in Int /\ snap.lastAt <= e.at
  BY <1>3 DEF Legal, InOrder, Times, NoTime
<1>5. \A i \in rows : log[i].at \in Times /\ log[i].at \in Int /\ log[i].at <= snap.lastAt
  <2>1. \A i \in rows : log[i] \in EventRows
    BY <1>1, ElementOfSeq
  <2> QED BY <2>1 DEF EventRows, Times, Replayed
<1>6. /\ after.lastAt = e.at /\ after.state = StateAfter(e)
      /\ (after.state = "RUNNING" <=> Begins(e))
      /\ after.state # "WAITING" /\ after.state \in OperationStates
      /\ after.startedAt = IF after.state = "RUNNING" THEN e.at ELSE NoTime
      /\ after.active = ActiveAfter(snap, e)
      /\ after.result \in Results
  <2>1. /\ StateAfter(e) \in OperationStates \ {"WAITING"}
        /\ StateAfter(e) = "RUNNING" <=> Begins(e)
    BY <1>3, StateAfterCases DEF Begins
  <2>2. (IF IsVerdict(e) THEN e.type ELSE snap.result) \in Results
    BY <1>3 DEF IsVerdict, Results
  <2> QED BY <2>1, <2>2 DEF After
<1> HIDE DEF after
(* The event decides from its instant on, and changes nothing before.        *)
<1>7. \A t \in Times : e.at <= t => (At(more, o, n, t) <=> Begins(e))
  <2> TAKE t \in Times
  <2> HAVE e.at <= t
  <2>1. t \in Nat
    BY DEF Times
  <2>2. \A i \in rows : log[i].at <= t
    BY <1>4, <1>5, <2>1
  <2>3. ASSUME Begins(e) PROVE At(more, o, n, t)
    <3>1. last \in In(more, o, n) /\ more[last].at <= t /\ Begins(more[last])
      BY <1>1, <2>3
    <3>2. \A j \in In(more, o, n) : j <= last
      BY <1>1
    <3> QED BY <3>1, <3>2 DEF At
  <2>4. ASSUME At(more, o, n, t) PROVE Begins(e)
    <3>1. PICK i \in In(more, o, n) :
            /\ Begins(more[i])
            /\ \A j \in In(more, o, n) : more[j].at <= t => j <= i
      BY <2>4 DEF At
    <3>2. last <= i
      BY <1>1, <3>1
    <3>3. i = last
      BY <1>1, <3>2
    <3> QED BY <1>1, <3>1, <3>3
  <2> QED BY <2>3, <2>4
<1>8. \A t \in Times : t < e.at => (At(more, o, n, t) <=> At(log, o, n, t))
  <2> TAKE t \in Times
  <2> HAVE t < e.at
  <2>1. ~ (more[last].at <= t)
    BY <1>1, <1>4 DEF Times
  <2> QED BY <1>1, <2>1 DEF At
<1>9. after.active = Cardinality(WorkedBefore(more, o, n, e.at))
  <2> DEFINE before == WorkedBefore(log, o, n, snap.lastAt)
             since == {t \in Times : snap.lastAt <= t /\ t < e.at /\ snap.state = "RUNNING"}
  <2>1. WorkedBefore(more, o, n, e.at) = before \cup since
    <3>1. \A t \in Times : t < e.at =>
            (At(more, o, n, t) <=> (t < snap.lastAt /\ At(log, o, n, t))
                                    \/ (snap.lastAt <= t /\ snap.state = "RUNNING"))
      <4>1. \A t \in Times : t \in Int /\ (t < snap.lastAt <=> ~ (snap.lastAt <= t))
        BY <1>4 DEF Times
      <4>2. \A t \in Times : snap.lastAt <= t => (At(log, o, n, t) <=> snap.state = "RUNNING")
        BY DEF Replayed
      <4> QED BY <1>8, <4>1, <4>2
    <3>2. \A t \in Times : t < snap.lastAt => t < e.at
      BY <1>4 DEF Times
    <3> HIDE DEF more
    <3> QED BY <3>1, <3>2 DEF WorkedBefore
  <2>2. before \cap since = {}
    BY <1>4 DEF WorkedBefore, Times
  <2>3. IsFiniteSet(Times)
    BY FS_Interval, AtomicAssumption DEF Times
  <2>4. IsFiniteSet(before) /\ IsFiniteSet(since)
    BY <2>3, FS_Subset DEF WorkedBefore
  <2>5. Cardinality(before) = snap.active
    BY DEF Replayed
  <2>6. CASE snap.state = "RUNNING"
    <3>1. snap.startedAt = snap.lastAt /\ snap.lastAt \in Times
      BY <1>3, <1>5, <2>6 DEF Replayed
    <3>2. StopsWork(e)
      BY <1>3, <2>6 DEF Legal, AllowedIn, StopsWork, EventTypes
    <3>3. snap.lastAt \in Nat /\ e.at <= MaxTime
      BY <1>3, <3>1 DEF Times
    <3>4. since = snap.lastAt .. e.at - 1
      BY <1>4, <2>6, <3>3 DEF Times
    <3>5. Cardinality(since) = e.at - snap.lastAt
      <4>1. snap.lastAt \in Int /\ e.at - 1 \in Int
        BY <1>4, <3>3
      <4>2. Cardinality(snap.lastAt .. e.at - 1)
              = IF snap.lastAt > e.at - 1 THEN 0 ELSE e.at - 1 - snap.lastAt + 1
        BY <4>1, FS_Interval
      <4> HIDE DEF since
      <4>3. Cardinality(since) = Cardinality(snap.lastAt .. e.at - 1)
        BY <3>4
      <4> QED BY <1>4, <3>3, <4>2, <4>3
    <3> HIDE DEF since, before
    <3>6. Cardinality(before \cup since) = Cardinality(before) + Cardinality(since)
      <4>1. Cardinality(before \cup since)
              = Cardinality(before) + Cardinality(since) - Cardinality(before \cap since)
        BY <2>4, FS_Union
      <4>2. Cardinality(before \cap since) = 0
        BY <2>2, FS_EmptySet
      <4>3. Cardinality(before) \in Nat /\ Cardinality(since) \in Nat
        BY <2>4, FS_CardinalityType
      <4> QED BY <4>1, <4>2, <4>3
    <3>7. after.active = snap.active + (e.at - snap.lastAt)
      <4>1. ActiveAfter(snap, e) = snap.active + (e.at - snap.startedAt)
        BY <2>6, <3>2, Zenon DEF ActiveAfter
      <4> QED BY <1>6, <3>1, <4>1
    <3> QED BY <2>1, <2>5, <3>5, <3>6, <3>7
  <2>7. CASE snap.state # "RUNNING"
    <3>1. since = {}
      BY <2>7
    <3>2. after.active = snap.active
      <4>1. ActiveAfter(snap, e) = snap.active
        BY <2>7, Zenon DEF ActiveAfter
      <4> QED BY <1>6, <4>1
    <3> QED BY <2>1, <2>5, <3>1, <3>2
  <2> QED BY <2>6, <2>7
<1>10. after.active \in Nat
  <2>1. IsFiniteSet(WorkedBefore(more, o, n, e.at))
    <3>1. IsFiniteSet(Times)
      BY FS_Interval, AtomicAssumption DEF Times
    <3> QED BY <3>1, FS_Subset DEF WorkedBefore
  <2> QED BY <1>9, <2>1, FS_CardinalityType
<1>11. after \in Snapshots(Times)
  <2>1. after = [state |-> after.state, active |-> after.active, startedAt |-> after.startedAt,
                 lastAt |-> after.lastAt, result |-> after.result]
    BY DEF After, after
  <2>2. after.startedAt \in Times \cup {NoTime} /\ after.lastAt \in Times \cup {NoTime}
    BY <1>3, <1>6
  <2> QED BY <1>6, <1>10, <2>1, <2>2 DEF Snapshots
<1>12. /\ In(more, o, n) # {} /\ last \in In(more, o, n) /\ more[last] = e
       /\ \A i \in In(more, o, n) : more[i].at <= e.at
  BY <1>1, <1>4, <1>5
<1>13. \E i \in In(more, o, n) : more[i].at = after.lastAt
  BY <1>6, <1>12
<1>14. IF after.state = "RUNNING"
       THEN /\ after.startedAt = after.lastAt
            /\ \E i \in In(more, o, n) : more[i].at = after.lastAt /\ Begins(more[i])
       ELSE after.startedAt = NoTime
  BY <1>6, <1>12
<1>15. \A t \in Times : after.lastAt <= t => (At(more, o, n, t) <=> after.state = "RUNNING")
  BY <1>6, <1>7
<1>16. Replayed(more, o, n, after)
  BY <1>2, <1>6, <1>9, <1>11, <1>12, <1>13, <1>14, <1>15 DEF Replayed
<1> QED BY <1>16 DEF more, after
-----------------------------------------------------------------------------
(* What an accepted event does                                              *)

LEMMA LatestIs ==
  ASSUME NEW S \in SUBSET Int, NEW t \in S, \A u \in S : u <= t
  PROVE  Latest(S) = t
<1> DEFINE m == CHOOSE u \in S : \A v \in S : v <= u
<1>1. m \in S /\ \A v \in S : v <= m
  OBVIOUS
<1> HIDE DEF m
<1>2. m <= t /\ t <= m /\ m \in Int /\ t \in Int
  BY <1>1
<1> QED BY <1>2 DEF Latest, m

(* The service judges an event on what replaying the log would give.         *)
LEMMA SnapshotReplays ==
  ASSUME IInv, NEW o \in Ops
  PROVE  /\ Replayed(events, o, Current(o), Snapshot(o))
         /\ Current(o) \in DOMAIN attempts[o]
         /\ Snapshot(o).active = attempts[o][Current(o)].active
         /\ Snapshot(o).result = attempts[o][Current(o)].result
         /\ Snapshot(o).state = operation[o].state
<1> DEFINE n == Current(o)
           snap == Folded(events, o, n).snap
           rows == EventsOf(o, n)
           begun == {i \in rows : events[i].type \in {"START", "RESUME"}}
<1>1. attempts[o] \in Seq(AttemptRows) /\ attempts[o] # <<>> /\ n = Len(attempts[o])
  BY DEF IInv, TypeOK, Keyed, Current
<1>2. n \in DOMAIN attempts[o]
  BY <1>1
<1>3. /\ Replayed(events, o, n, snap) /\ snap.active = attempts[o][n].active
      /\ snap.result = attempts[o][n].result /\ snap.state = operation[o].state
  BY <1>2 DEF IInv, RowReplays, StateOf
<1>4. rows = In(events, o, n)
  BY DEF EventsOf, In, Indices
<1>5. \A i \in rows : events[i].at \in Int
  <2>1. \A i \in rows : events[i] \in EventRows
    BY ElementOfSeq DEF EventsOf, Indices, IInv, TypeOK
  <2> QED BY <2>1 DEF EventRows, Times
<1> HIDE DEF snap, rows
<1>6. Latest({events[i].at : i \in rows}) = snap.lastAt
  <2>1. CASE rows = {}
    BY <1>3, <1>4, <2>1 DEF Latest, Replayed, Fresh
  <2>2. CASE rows # {}
    <3>1. PICK i \in rows : events[i].at = snap.lastAt
      BY <1>3, <1>4, <2>2 DEF Replayed
    <3>2. \A u \in {events[j].at : j \in rows} : u <= snap.lastAt /\ u \in Int
      BY <1>3, <1>4, <1>5 DEF Replayed
    <3>3. snap.lastAt \in {events[j].at : j \in rows}
      BY <3>1
    <3> QED BY <3>2, <3>3, LatestIs
  <2> QED BY <2>1, <2>2
<1>7. ASSUME snap.state = "RUNNING"
      PROVE  Latest({events[i].at : i \in begun}) = snap.startedAt
  <2>1. snap.startedAt = snap.lastAt
    BY <1>3, <1>7 DEF Replayed
  <2>2. PICK i \in rows : events[i].at = snap.lastAt /\ Begins(events[i])
    BY <1>3, <1>4, <1>7 DEF Replayed
  <2>3. \A u \in {events[j].at : j \in begun} : u <= snap.lastAt /\ u \in Int
    BY <1>3, <1>4, <1>5 DEF Replayed
  <2>4. snap.lastAt \in {events[j].at : j \in begun}
    BY <2>2 DEF Begins
  <2> HIDE DEF begun
  <2> QED BY <2>1, <2>3, <2>4, LatestIs
<1>8. snap.state # "RUNNING" => snap.startedAt = NoTime
  BY <1>3 DEF Replayed
<1>9. snap = [state |-> snap.state, active |-> snap.active, startedAt |-> snap.startedAt,
              lastAt |-> snap.lastAt, result |-> snap.result]
  <2>1. snap \in Snapshots(Times)
    BY <1>3 DEF Replayed
  <2> QED BY <2>1 DEF Snapshots
<1>10. Snapshot(o) = [state |-> snap.state, active |-> snap.active,
                      startedAt |-> IF snap.state = "RUNNING"
                        THEN Latest({events[i].at : i \in begun}) ELSE NoTime,
                      lastAt |-> Latest({events[i].at : i \in rows}),
                      result |-> snap.result]
  BY <1>3 DEF Snapshot, rows
<1>11. Snapshot(o) = snap
  BY <1>6, <1>7, <1>8, <1>9, <1>10
<1> QED BY <1>2, <1>3, <1>11

LEMMA ReplayedAfterType ==
  ASSUME NEW log \in Seq(EventRows), NEW e \in EventRows, NEW o, NEW n, NEW snap,
         e.op = o /\ e.attempt = n, Replayed(log, o, n, snap),
         Legal(snap, e, ProcessOf[o])
  PROVE  After(snap, e) \in Snapshots(Times)
BY ReplayedNext DEF Replayed

(* The operation that an event sends its unit to.                           *)
Sends(r) == SentBack(r) \/ SentOn(r)
SentTo(r, p) ==
  Sends(r) /\ p \in IF SentBack(r) THEN Running(r.op, "TUNING")
                    ELSE Running(r.op, "FINAL_TEST")

(* A request and its row are judged alike.                                  *)
LEMMA RowAndRequest ==
  ASSUME IInv, NEW r \in Requests
  PROVE  /\ EventRow(r, Current(r.op)) \in EventRows
         /\ r.op \in Ops /\ r.at \in Times /\ r.type \in EventTypes
         /\ \A snap, process : /\ Legal(snap, EventRow(r, Current(r.op)), process)
                                    <=> Legal(snap, r, process)
                              /\ After(snap, EventRow(r, Current(r.op))) = After(snap, r)
<1> DEFINE e == EventRow(r, Current(r.op))
<1>1. r.op \in Ops /\ r.at \in Times /\ r.type \in EventTypes /\ r.reason \in BOOLEAN
      /\ r.id \in Nat
  BY DEF Requests, EventIds
<1>2. Current(r.op) \in Nat
  BY <1>1 DEF IInv, TypeOK, OperationRows, Current
<1>3. e \in EventRows
  BY <1>1, <1>2 DEF EventRow, EventRows
<1>4. e.op = r.op /\ e.type = r.type /\ e.at = r.at /\ e.reason = r.reason
  BY DEF EventRow
<1> HIDE DEF e
<1>5. ASSUME NEW snap, NEW process
      PROVE  Legal(snap, e, process) <=> Legal(snap, r, process)
  BY <1>4, Zenon DEF Legal, InOrder, AllowedIn, IsVerdict, StopsWork, Explained, TriggersRework
<1>6. ASSUME NEW snap
      PROVE  After(snap, e) = After(snap, r)
  <2>1. StateAfter(e) = StateAfter(r) /\ IsVerdict(e) = IsVerdict(r)
        /\ ActiveAfter(snap, e) = ActiveAfter(snap, r)
    BY <1>4, Zenon DEF StateAfter, IsVerdict, ActiveAfter, StopsWork
  <2> QED BY <1>4, <2>1, Zenon DEF After
<1> QED BY <1>1, <1>3, <1>5, <1>6 DEF e

LEMMA AcceptedAfter ==
  ASSUME IInv, NEW r \in Requests, Accept(r)
  PROVE  LET after == After(Snapshot(r.op), r)
         IN /\ after \in Snapshots(Times)
            /\ Replayed(events', r.op, Current(r.op), after)
            /\ events' = Append(events, EventRow(r, Current(r.op)))
            /\ events' \in Seq(EventRows)
<1> DEFINE e == EventRow(r, Current(r.op))
           snap == Snapshot(r.op)
<1>1. /\ e \in EventRows /\ r.op \in Ops /\ Legal(snap, e, ProcessOf[r.op])
      /\ After(snap, e) = After(snap, r)
  BY RowAndRequest DEF Accept
<1>2. events \in Seq(EventRows) /\ events' = Append(events, e)
  BY DEF Accept, IInv, TypeOK
<1>3. Replayed(events, r.op, Current(r.op), snap)
  BY <1>1, SnapshotReplays
<1>4. e.op = r.op /\ e.attempt = Current(r.op)
  BY DEF EventRow
<1>5. events' \in Seq(EventRows)
  BY <1>1, <1>2
<1> HIDE DEF e, snap
<1>6. Replayed(Append(events, e), r.op, Current(r.op), After(snap, e))
  BY <1>1, <1>2, <1>3, <1>4, ReplayedNext
<1>7. After(snap, e) \in Snapshots(Times)
  BY <1>6 DEF Replayed
<1> QED BY <1>1, <1>2, <1>5, <1>6, <1>7 DEF e, snap

LEMMA CauseType ==
  ASSUME IInv, NEW r \in Requests
  PROVE  Cause(r) \in AttemptRows
<1>1. r.op \in Ops /\ r.id \in Nat
  BY DEF Requests, EventIds
<1>2. attempts[r.op][Current(r.op)] \in AttemptRows
  <2>1. Current(r.op) \in DOMAIN attempts[r.op] /\ attempts[r.op] \in Seq(AttemptRows)
    BY <1>1, SnapshotReplays DEF IInv, TypeOK
  <2> QED BY <2>1, ElementOfSeq
<1> QED BY <1>1, <1>2 DEF Cause, NewAttempt, AttemptRows, AttemptRoles, Results

(* The rows of an operation after the event.                                *)
LEMMA AcceptEffect ==
  ASSUME IInv, NEW r \in Requests, Accept(r), NEW p \in Ops
  PROVE  LET o == r.op
             n == Current(o)
             after == After(Snapshot(o), r)
         IN IF SentTo(r, p)
            THEN /\ p # o /\ operation[p].state = "COMPLETED"
                 /\ operation'[p] = [state |-> "WAITING", current |-> Len(attempts[p]) + 1,
                                     eligibleAt |-> r.at]
                 /\ attempts'[p] = Append(attempts[p], Cause(r))
                 /\ \A q \in Ops : SentTo(r, q) => q = p
            ELSE IF p = o
            THEN /\ operation'[p] = [operation[o] EXCEPT !.state = after.state]
                 /\ attempts'[p] = [attempts[o] EXCEPT ![n] = Worked(@, after, r)]
            ELSE /\ operation'[p] = operation[p]
                 /\ attempts'[p] = attempts[p]
<1> DEFINE o == r.op
           n == Current(o)
           after == After(Snapshot(o), r)
           ops == [operation EXCEPT ![o].state = after.state]
           atts == [attempts EXCEPT ![o][n] = Worked(@, after, r)]
           targets == IF SentBack(r) THEN Running(o, "TUNING") ELSE Running(o, "FINAL_TEST")
<1>1. o \in Ops
  BY DEF Requests
<1>2. /\ operation \in [Ops -> OperationRows]
      /\ attempts \in [Ops -> Seq(AttemptRows)]
  BY DEF IInv, TypeOK
<1>3. IF Sends(r)
      THEN \E t \in targets :
             /\ targets = {t}
             /\ operation[t].state = "COMPLETED"
             /\ operation' = [ops EXCEPT
                  ![t] = [state |-> "WAITING", current |-> Len(attempts[t]) + 1,
                          eligibleAt |-> r.at]]
             /\ attempts' = [atts EXCEPT ![t] = Append(@, Cause(r))]
      ELSE operation' = ops /\ attempts' = atts
  BY DEF Accept, Sends
<1>4. SentTo(r, p) <=> Sends(r) /\ p \in targets
  BY DEF SentTo
<1>5. targets \subseteq Ops /\ (Sends(r) => o \notin targets)
  BY DEF Running, Sends, SentBack, SentOn, TriggersRework
<1>6. /\ ops \in [Ops -> OperationRows \cup {ops[o]}] /\ DOMAIN ops = Ops
      /\ ops[o] = [operation[o] EXCEPT !.state = after.state]
      /\ \A q \in Ops : q # o => ops[q] = operation[q]
  BY <1>1, <1>2
<1>7. /\ DOMAIN atts = Ops
      /\ atts[o] = [attempts[o] EXCEPT ![n] = Worked(@, after, r)]
      /\ \A q \in Ops : q # o => atts[q] = attempts[q]
  BY <1>1, <1>2
<1>8. \A q \in Ops : SentTo(r, q) <=> Sends(r) /\ q \in targets
  BY DEF SentTo
<1> HIDE DEF ops, atts, targets, after, n
<1>9. CASE SentTo(r, p)
  <2>1. PICK t \in targets :
          /\ targets = {t}
          /\ operation[t].state = "COMPLETED"
          /\ operation' = [ops EXCEPT
               ![t] = [state |-> "WAITING", current |-> Len(attempts[t]) + 1,
                       eligibleAt |-> r.at]]
          /\ attempts' = [atts EXCEPT ![t] = Append(@, Cause(r))]
    BY <1>3, <1>4, <1>9
  <2>2. p = t /\ p # o
    BY <1>4, <1>5, <1>9, <2>1
  <2>3. /\ operation'[p] = [state |-> "WAITING", current |-> Len(attempts[p]) + 1,
                            eligibleAt |-> r.at]
        /\ attempts'[p] = Append(attempts[p], Cause(r))
    BY <1>6, <1>7, <2>1, <2>2
  <2> QED BY <1>8, <1>9, <2>1, <2>2, <2>3
<1>10. CASE ~ SentTo(r, p)
  <2>1. operation'[p] = ops[p] /\ attempts'[p] = atts[p]
    <3>1. CASE Sends(r)
      BY <1>3, <1>4, <1>6, <1>7, <1>10, <3>1
    <3>2. CASE ~ Sends(r)
      BY <1>3, <3>2
    <3> QED BY <3>1, <3>2
  <2> QED BY <1>6, <1>7, <1>10, <2>1 DEF n, after
<1> QED BY <1>9, <1>10 DEF n, after
-----------------------------------------------------------------------------
(* The invariant is kept                                                    *)

LEMMA AttemptsAfter ==
  ASSUME IInv, NEW r \in Requests, Accept(r), NEW p \in Ops
  PROVE  /\ attempts'[p] \in Seq(AttemptRows)
         /\ operation'[p] \in OperationRows
         /\ Len(attempts'[p]) = IF SentTo(r, p) THEN Len(attempts[p]) + 1 ELSE Len(attempts[p])
         /\ operation'[p].current = Len(attempts'[p])
         /\ \A m \in 1 .. Len(attempts[p]) :
              attempts'[p][m] = IF p = r.op /\ m = Current(p)
                                THEN Worked(attempts[p][m], After(Snapshot(p), r), r)
                                ELSE attempts[p][m]
         /\ SentTo(r, p) => attempts'[p][Len(attempts[p]) + 1] = Cause(r)
<1> DEFINE o == r.op
           n == Current(o)
           after == After(Snapshot(o), r)
           row == Worked(attempts[o][n], after, r)
<1>1. o \in Ops /\ r.at \in Times
  BY DEF Requests
<1>2. attempts[p] \in Seq(AttemptRows) /\ operation[p] \in OperationRows
      /\ operation[p].current = Len(attempts[p])
  BY DEF IInv, TypeOK, Keyed
<1>3. after \in Snapshots(Times)
  BY AcceptedAfter
<1>4. n \in DOMAIN attempts[o] /\ attempts[o] \in Seq(AttemptRows)
  BY <1>1, SnapshotReplays DEF IInv, TypeOK
<1>5. attempts[o][n] \in AttemptRows
  BY <1>4, ElementOfSeq
<1> HIDE DEF after
<1>6. row \in AttemptRows
  <2>1. after.active \in Nat /\ after.result \in Results
    BY <1>3 DEF Snapshots
  <2> QED BY <1>1, <1>5, <2>1 DEF Worked, AttemptRows
<1> HIDE DEF row
<1>7. CASE SentTo(r, p)
  <2>1. /\ p # o
        /\ operation'[p] = [state |-> "WAITING", current |-> Len(attempts[p]) + 1,
                            eligibleAt |-> r.at]
        /\ attempts'[p] = Append(attempts[p], Cause(r))
    BY <1>7, AcceptEffect
  <2>2. Cause(r) \in AttemptRows
    BY CauseType
  <2>3. operation'[p] \in OperationRows
    BY <1>1, <1>2, <2>1 DEF OperationRows, OperationStates
  <2>4. operation'[p].current = Len(attempts[p]) + 1
    BY <2>1
  <2> QED BY <1>2, <1>7, <2>1, <2>2, <2>3, <2>4
<1>8. CASE ~ SentTo(r, p) /\ p # o
  <2>1. operation'[p] = operation[p] /\ attempts'[p] = attempts[p]
    BY <1>8, AcceptEffect
  <2> QED BY <1>2, <1>8, <2>1
<1>9. CASE ~ SentTo(r, p) /\ p = o
  <2>1. /\ operation'[p] = [operation[o] EXCEPT !.state = after.state]
        /\ attempts'[p] = [attempts[o] EXCEPT ![n] = row]
    BY <1>9, AcceptEffect DEF after, row
  <2>2. after.state \in OperationStates
    BY <1>3 DEF Snapshots
  <2>3. operation'[p] \in OperationRows /\ operation'[p].current = operation[p].current
    BY <1>2, <1>9, <2>1, <2>2 DEF OperationRows
  <2>4. /\ attempts'[p] \in Seq(AttemptRows)
        /\ Len(attempts'[p]) = Len(attempts[p])
        /\ \A m \in 1 .. Len(attempts[p]) :
             attempts'[p][m] = IF m = n THEN row ELSE attempts[p][m]
    BY <1>4, <1>6, <1>9, <2>1, ExceptSeq
  <2> QED BY <1>2, <1>9, <2>3, <2>4 DEF after, row
<1> QED BY <1>7, <1>8, <1>9

LEMMA IInvInit == Init => IInv
<1> SUFFICES ASSUME Init PROVE IInv
  OBVIOUS
<1>1. NewAttempt("NONE", None, None) \in AttemptRows
  BY DEF NewAttempt, AttemptRows, AttemptRoles, Results
<1>2. TypeOK
  BY <1>1 DEF Init, TypeOK, OperationRows, OperationStates, Times
<1>3. Keyed
  BY DEF Init, Keyed, Indices
<1>4. ASSUME NEW o \in Ops, NEW n \in DOMAIN attempts[o]
      PROVE  RowReplays(o, n)
  <2>1. n = 1 /\ Current(o) = 1 /\ operation[o].state = "WAITING"
        /\ attempts[o][n] = NewAttempt("NONE", None, None)
    BY <1>4 DEF Init, Current
  <2>2. events = <<>> /\ events \in Seq(EventRows)
    BY DEF Init
  <2>3. In(events, o, n) = {}
    BY <2>2 DEF In
  <2>4. Replayed(events, o, n, Fresh)
    BY <2>2, <2>3, ReplayedNone
  <2>5. Folded(events, o, n).snap = Fresh
    BY <2>4 DEF Replayed
  <2> QED BY <2>1, <2>4, <2>5 DEF RowReplays, StateOf, Fresh, NewAttempt
<1> QED BY <1>2, <1>3, <1>4 DEF IInv

LEMMA TypeKept ==
  ASSUME IInv, NEW r \in Requests, Accept(r)
  PROVE  TypeOK'
<1>1. events' \in Seq(EventRows)
  BY AcceptedAfter
<1>2. \A p \in Ops : attempts'[p] \in Seq(AttemptRows) /\ operation'[p] \in OperationRows
  BY AttemptsAfter
<1>3. DOMAIN attempts' = Ops /\ DOMAIN operation' = Ops
      /\ attempts' = [p \in Ops |-> attempts'[p]] /\ operation' = [p \in Ops |-> operation'[p]]
  BY DEF Accept, IInv, TypeOK
<1>4. attempts' \in [Ops -> Seq(AttemptRows)] /\ operation' \in [Ops -> OperationRows]
  BY <1>2, <1>3
<1> QED BY <1>1, <1>4 DEF TypeOK

LEMMA KeyedKept ==
  ASSUME IInv, NEW r \in Requests, Accept(r)
  PROVE  Keyed'
<1> DEFINE e == EventRow(r, Current(r.op))
<1>1. ASSUME NEW p \in Ops
      PROVE  operation'[p].current = Len(attempts'[p]) /\ attempts'[p] # <<>>
             /\ Len(attempts[p]) \in Nat /\ Len(attempts'[p]) \in Nat
             /\ Len(attempts[p]) <= Len(attempts'[p])
  <2>1. attempts[p] \in Seq(AttemptRows) /\ attempts[p] # <<>>
        /\ attempts'[p] \in Seq(AttemptRows)
    BY AttemptsAfter DEF IInv, TypeOK, Keyed
  <2>2. /\ Len(attempts'[p]) = IF SentTo(r, p) THEN Len(attempts[p]) + 1 ELSE Len(attempts[p])
        /\ operation'[p].current = Len(attempts'[p])
    BY AttemptsAfter
  <2>3. Len(attempts[p]) \in Nat /\ Len(attempts[p]) >= 1
    BY <2>1
  <2>4. Len(attempts'[p]) \in Nat /\ Len(attempts'[p]) >= 1 /\ Len(attempts[p]) <= Len(attempts'[p])
    BY <2>2, <2>3
  <2>5. attempts'[p] # <<>>
    BY <2>1, <2>4
  <2> QED BY <2>2, <2>3, <2>4, <2>5
<1>2. /\ events \in Seq(EventRows) /\ e \in EventRows /\ events' = Append(events, e)
      /\ r.op \in Ops
  BY AcceptedAfter, RowAndRequest DEF IInv, TypeOK
<1>3. e.op = r.op /\ e.attempt = Current(r.op)
  BY DEF EventRow
<1> HIDE DEF e
<1>4. ASSUME NEW i \in 1 .. Len(events')
      PROVE  events'[i].attempt \in 1 .. Len(attempts'[events'[i].op])
  <2>1. CASE i \in 1 .. Len(events)
    <3>1. events'[i] = events[i] /\ events[i] \in EventRows
      BY <1>2, <2>1, ElementOfSeq
    <3>2. events[i].attempt \in 1 .. Len(attempts[events[i].op])
      BY <2>1 DEF IInv, Keyed, Indices
    <3>3. events[i].op \in Ops
      BY <3>1 DEF EventRows
    <3> QED BY <1>1, <3>1, <3>2, <3>3
  <2>2. CASE i = Len(events) + 1
    <3>1. events'[i] = e
      BY <1>2, <2>2
    <3>2. Current(r.op) \in 1 .. Len(attempts[r.op])
      <4>1. Current(r.op) \in DOMAIN attempts[r.op] /\ attempts[r.op] \in Seq(AttemptRows)
        BY <1>2, SnapshotReplays DEF IInv, TypeOK
      <4> QED BY <4>1
    <3> QED BY <1>1, <1>2, <1>3, <3>1, <3>2
  <2> QED BY <1>2, <2>1, <2>2
<1> QED BY <1>1, <1>4 DEF Keyed, Indices

(* An attempt that has not been created yet has no events.                   *)
LEMMA NothingAhead ==
  ASSUME IInv, NEW o \in Ops, NEW n \in Nat, n > Len(attempts[o])
  PROVE  In(events, o, n) = {}
<1>1. Len(attempts[o]) \in Nat
  BY DEF IInv, TypeOK
<1>2. \A i \in 1 .. Len(events) : events[i].attempt \in 1 .. Len(attempts[events[i].op])
  BY DEF IInv, Keyed, Indices
<1> QED BY <1>1, <1>2 DEF In

LEMMA RowsKept ==
  ASSUME IInv, NEW r \in Requests, Accept(r), NEW p \in Ops, NEW m \in DOMAIN attempts'[p]
  PROVE  RowReplays(p, m)'
<1> DEFINE o == r.op
           n == Current(o)
           after == After(Snapshot(o), r)
           e == EventRow(r, n)
<1>1. /\ attempts[p] \in Seq(AttemptRows) /\ attempts'[p] \in Seq(AttemptRows)
      /\ Len(attempts'[p]) = IF SentTo(r, p) THEN Len(attempts[p]) + 1 ELSE Len(attempts[p])
      /\ operation'[p].current = Len(attempts'[p])
      /\ Current(p) = Len(attempts[p])
  BY AttemptsAfter DEF IInv, TypeOK, Keyed, Current
<1>2. /\ events \in Seq(EventRows) /\ e \in EventRows /\ events' = Append(events, e)
      /\ o \in Ops /\ after \in Snapshots(Times) /\ Replayed(events', o, n, after)
  BY AcceptedAfter, RowAndRequest DEF IInv, TypeOK
<1>3. e.op = o /\ e.attempt = n
  BY DEF EventRow
<1>4. n \in DOMAIN attempts[o]
  BY <1>2, SnapshotReplays
<1>5. m \in 1 .. Len(attempts'[p]) /\ m \in Nat
  <2>1. attempts'[p] \in Seq(AttemptRows)
    BY <1>1
  <2>2. DOMAIN attempts'[p] = 1 .. Len(attempts'[p])
    BY <2>1
  <2> QED BY <2>2
<1> HIDE DEF e, after
<1>6. CASE m = Len(attempts[p]) + 1
  <2>1. SentTo(r, p) /\ p # o
    <3>1. SentTo(r, p)
      BY <1>1, <1>5, <1>6
    <3> QED BY <3>1, AcceptEffect, Zenon
  <2>2. attempts'[p][m] = Cause(r) /\ operation'[p].state = "WAITING"
    <3>1. operation'[p] = [state |-> "WAITING", current |-> Len(attempts[p]) + 1,
                           eligibleAt |-> r.at]
      BY <2>1, AcceptEffect, Zenon
    <3>2. attempts'[p][Len(attempts[p]) + 1] = Cause(r)
      BY <2>1, AttemptsAfter, Zenon
    <3> QED BY <1>6, <3>1, <3>2
  <2>3. In(events, p, m) = {}
    BY <1>1, <1>5, <1>6, NothingAhead
  <2>4. Replayed(events', p, m, Fresh)
    BY <1>2, <1>3, <2>1, <2>3, ReplayedNone, ReplayedOther
  <2>5. Folded(events', p, m).snap = Fresh
    BY <2>4 DEF Replayed
  <2>6. Cause(r).active = 0 /\ Cause(r).result = "NONE"
    BY DEF Cause, NewAttempt
  <2>7. StateOf(p, m)' = "WAITING"
    BY <1>1, <1>6, <2>1, <2>2 DEF StateOf, Current
  <2> QED BY <2>2, <2>4, <2>5, <2>6, <2>7 DEF RowReplays, Fresh
<1>7. CASE m \in 1 .. Len(attempts[p]) /\ p = o /\ m = n
  <2>1. ~ SentTo(r, p)
    BY <1>7, AcceptEffect
  <2>2. attempts'[p][m] = Worked(attempts[p][m], after, r)
    BY <1>7, AttemptsAfter DEF after
  <2>3. attempts[p][m] \in AttemptRows
    BY <1>1, <1>7, ElementOfSeq
  <2>4. attempts'[p][m].active = after.active /\ attempts'[p][m].result = after.result
    BY <2>2, <2>3 DEF Worked, AttemptRows
  <2>5. operation'[p].state = after.state
    <3>1. operation'[p] = [operation[o] EXCEPT !.state = after.state]
      BY <1>7, <2>1, AcceptEffect DEF after
    <3>2. operation[o] \in OperationRows
      BY <1>2 DEF IInv, TypeOK
    <3> QED BY <3>1, <3>2 DEF OperationRows
  <2>6. operation'[p].current = m
    BY <1>1, <1>7, <2>1
  <2>7. StateOf(p, m)' = after.state
    BY <2>5, <2>6 DEF StateOf, Current
  <2>8. Folded(events', p, m).snap = after /\ Replayed(events', p, m, after)
    <3>1. Replayed(events', p, m, after)
      BY <1>2, <1>7
    <3>2. Folded(events', p, m) = [legal |-> TRUE, snap |-> after]
      BY <3>1 DEF Replayed
    <3> QED BY <3>1, <3>2
  <2> QED BY <2>4, <2>7, <2>8 DEF RowReplays
<1>8. CASE m \in 1 .. Len(attempts[p]) /\ ~ (p = o /\ m = n)
  <2> DEFINE snap == Folded(events, p, m).snap
  <2>1. RowReplays(p, m)
    BY <1>1, <1>8 DEF IInv
  <2>2. Replayed(events, p, m, snap)
    BY <2>1 DEF RowReplays
  <2> HIDE DEF snap
  <2>3. Replayed(events', p, m, snap)
    BY <1>2, <1>3, <1>8, <2>2, ReplayedOther
  <2>4. Folded(events', p, m).snap = snap
    BY <2>3 DEF Replayed
  <2>5. attempts'[p][m] = attempts[p][m]
    BY <1>8, AttemptsAfter
  <2>6. StateOf(p, m)' = StateOf(p, m)
    <3>1. CASE SentTo(r, p)
      <4>1. operation[p].state = "COMPLETED" /\ operation'[p].current = Len(attempts[p]) + 1
        BY <1>1, <3>1, AcceptEffect
      <4>2. m # Len(attempts[p]) + 1
        BY <1>1, <1>8
      <4> QED BY <4>1, <4>2 DEF StateOf, Current
    <3>2. CASE ~ SentTo(r, p) /\ p # o
      <4>1. operation'[p] = operation[p]
        BY <3>2, AcceptEffect
      <4> QED BY <4>1 DEF StateOf, Current
    <3>3. CASE ~ SentTo(r, p) /\ p = o
      <4>1. m # n /\ n = Current(p) /\ operation'[p].current = operation[p].current
        BY <1>1, <1>8, <3>3 DEF Current
      <4> QED BY <4>1 DEF StateOf, Current
    <3> QED BY <3>1, <3>2, <3>3
  <2>7. snap.active = attempts[p][m].active /\ snap.result = attempts[p][m].result
        /\ snap.state = StateOf(p, m)
    BY <2>1 DEF RowReplays, snap
  <2> QED BY <2>3, <2>4, <2>5, <2>6, <2>7 DEF RowReplays
<1> QED BY <1>1, <1>5, <1>6, <1>7, <1>8

LEMMA IInvNext == IInv /\ [Next]_vars => IInv'
<1> SUFFICES ASSUME IInv, [Next]_vars PROVE IInv'
  OBVIOUS
<1>1. CASE Next
  <2>1. PICK r \in Requests : Accept(r)
    BY <1>1 DEF Next
  <2> QED BY <2>1, TypeKept, KeyedKept, RowsKept DEF IInv
<1>2. CASE UNCHANGED vars
  BY <1>2 DEF vars, IInv, TypeOK, Keyed, Indices, RowReplays, StateOf, Current
<1> QED BY <1>1, <1>2

(* In every state of the promised behaviour the columns of each attempt are   *)
(* what replaying its events gives (execution_state.py applied by            *)
(* persist_work_event, one accepted event after the other).                  *)
THEOREM AtomicInvariant == Spec => []IInv
BY IInvInit, IInvNext, PTL DEF Spec

(* LogReplays follows: what was worked is what was worked before the last     *)
(* event, when that event did not leave the attempt running.                 *)
LEMMA IInvReplays == IInv => LogReplays
<1> SUFFICES ASSUME IInv, NEW o \in Ops, NEW n \in DOMAIN attempts[o]
             PROVE  LET replay == Replay(o, n)
                        a == attempts[o][n]
                        state == IF n = Current(o) THEN operation[o].state ELSE "COMPLETED"
                    IN /\ replay.legal
                       /\ replay.snap.result = a.result
                       /\ replay.snap.state = state
                       /\ state # "RUNNING" =>
                            a.active = Cardinality({t \in Times : WorkedAt(o, n, t)})
  BY DEF LogReplays
<1> DEFINE snap == Folded(events, o, n).snap
<1>1. /\ Replayed(events, o, n, snap) /\ snap.active = attempts[o][n].active
      /\ snap.result = attempts[o][n].result /\ snap.state = StateOf(o, n)
  BY DEF IInv, RowReplays
<1>2. Replay(o, n) = Folded(events, o, n)
  BY DEF Replay, Folded
<1> HIDE DEF snap
<1>3. Folded(events, o, n) = [legal |-> TRUE, snap |-> snap]
  BY <1>1 DEF Replayed
<1>4. ASSUME snap.state # "RUNNING"
      PROVE  {t \in Times : WorkedAt(o, n, t)} = WorkedBefore(events, o, n, snap.lastAt)
  <2>1. \A t \in Times : WorkedAt(o, n, t) <=> At(events, o, n, t)
    BY DEF WorkedAt, At, EventsOf, In, Indices, Begins
  <2>2. \A t \in Times : snap.lastAt <= t => ~ At(events, o, n, t)
    BY <1>1, <1>4 DEF Replayed
  <2>3. \A t \in Times : ~ (snap.lastAt <= t) => t < snap.lastAt
    BY <1>1 DEF Replayed, Snapshots, Times, NoTime
  <2> QED BY <2>1, <2>2, <2>3 DEF WorkedBefore
<1>5. snap.active = Cardinality(WorkedBefore(events, o, n, snap.lastAt))
  BY <1>1 DEF Replayed
<1>6. Replay(o, n).legal /\ Replay(o, n).snap = snap
  BY <1>2, <1>3
<1>7. snap.state # "RUNNING" =>
        attempts[o][n].active = Cardinality({t \in Times : WorkedAt(o, n, t)})
  BY <1>1, <1>4, <1>5
<1> QED BY <1>1, <1>6, <1>7, Zenon DEF StateOf

(* The event log is the truth, for any number of events and instants: no      *)
(* minute on HOLD, before START or after the end is counted in               *)
(* active_minutes, and none is counted twice.                               *)
THEOREM LogIsTruth == Spec => []LogReplays
BY AtomicInvariant, IInvReplays, PTL
-----------------------------------------------------------------------------
(* The rework loop                                                          *)

LoopInv == IInv /\ ReworkLoop /\ LoopFacts

Pair(f, t) == Running(f, "FINAL_TEST") = {f} /\ Running(f, "TUNING") = {t}

(* An event leaves the role of every row and the result of a judged one.      *)
LEMMA RowsAfter ==
  ASSUME IInv, NEW r \in Requests, Accept(r), NEW p \in Ops, NEW m \in 1 .. Len(attempts[p])
  PROVE  /\ attempts'[p][m].role = attempts[p][m].role
         /\ attempts[p][m].result # "NONE" => attempts'[p][m].result = attempts[p][m].result
         /\ p = r.op /\ m = Current(p) /\ IsVerdict(r) =>
              attempts[p][m].result = "NONE" /\ attempts'[p][m].result = r.type
<1> DEFINE snap == Snapshot(p)
           after == After(snap, r)
<1>1. attempts'[p][m] = IF p = r.op /\ m = Current(p)
                        THEN Worked(attempts[p][m], after, r) ELSE attempts[p][m]
  BY AttemptsAfter
<1>2. CASE ~ (p = r.op /\ m = Current(p))
  BY <1>1, <1>2
<1>3. CASE p = r.op /\ m = Current(p)
  <2>1. attempts[p][m] \in AttemptRows
    <3>1. attempts[p] \in Seq(AttemptRows)
      BY DEF IInv, TypeOK
    <3> QED BY <3>1, ElementOfSeq
  <2>2. attempts'[p][m] = Worked(attempts[p][m], after, r)
    BY <1>1, <1>3
  <2>3. /\ attempts'[p][m].role = attempts[p][m].role
        /\ attempts'[p][m].result = after.result
    BY <2>1, <2>2 DEF Worked, AttemptRows
  <2>4. snap.result = attempts[p][m].result
    BY <1>3, SnapshotReplays
  <2>5. after.result = IF IsVerdict(r) THEN r.type ELSE snap.result
    BY DEF After
  <2>6. IsVerdict(r) => snap.result = "NONE"
    BY <1>3 DEF Accept, Legal
  <2> HIDE DEF snap, after
  <2> QED BY <2>3, <2>4, <2>5, <2>6
<1> QED BY <1>2, <1>3

(* Only the failed test of a pair adds to its tunings, and only its tuning to *)
(* its tests.                                                               *)
LEMMA SentWithin ==
  ASSUME NEW f \in Ops, NEW t \in Ops, Pair(f, t), NEW r \in Requests
  PROVE  /\ f # t
         /\ SentTo(r, t) <=> r.op = f /\ SentBack(r)
         /\ SentTo(r, f) <=> r.op = t /\ SentOn(r)
<1>1. /\ ProcessOf[f] = "FINAL_TEST" /\ ProcessOf[t] = "TUNING" /\ UnitOf[t] = UnitOf[f]
      /\ \A u \in Ops : UnitOf[u] = UnitOf[f] /\ ProcessOf[u] = "FINAL_TEST" => u = f
      /\ \A u \in Ops : UnitOf[u] = UnitOf[f] /\ ProcessOf[u] = "TUNING" => u = t
  BY DEF Pair, Running
<1>2. r.op \in Ops
  BY DEF Requests
<1>3. SentBack(r) => r.type = "FAIL" /\ ProcessOf[r.op] = "FINAL_TEST"
  BY DEF SentBack, TriggersRework
<1>4. SentOn(r) => r.type = "COMPLETE" /\ ProcessOf[r.op] = "TUNING"
  BY DEF SentOn
<1>5. \A u \in Ops : \A process : u \in Running(r.op, process)
        <=> UnitOf[u] = UnitOf[r.op] /\ ProcessOf[u] = process
  BY DEF Running
<1> QED BY <1>1, <1>2, <1>3, <1>4, <1>5 DEF SentTo, Sends

LEMMA RolesKept ==
  ASSUME LoopInv, NEW r \in Requests, Accept(r), NEW o \in Ops, ProcessOf[o] = "TUNING",
         NEW n \in DOMAIN attempts'[o]
  PROVE  attempts'[o][n].role = IF n = 1 THEN "NONE" ELSE "TUNING_REWORK"
<1>1. /\ attempts[o] \in Seq(AttemptRows) /\ attempts[o] # <<>>
      /\ attempts'[o] \in Seq(AttemptRows)
      /\ Len(attempts'[o]) = IF SentTo(r, o) THEN Len(attempts[o]) + 1 ELSE Len(attempts[o])
  BY AttemptsAfter DEF LoopInv, IInv, TypeOK, Keyed
<1>2. n \in 1 .. Len(attempts'[o])
  <2>1. DOMAIN attempts'[o] = 1 .. Len(attempts'[o])
    BY <1>1
  <2> QED BY <2>1
<1>3. CASE n \in 1 .. Len(attempts[o])
  <2>1. attempts[o][n].role = IF n = 1 THEN "NONE" ELSE "TUNING_REWORK"
    BY <1>1, <1>3 DEF LoopInv, LoopFacts
  <2> QED BY <1>3, <2>1, RowsAfter DEF LoopInv
<1>4. CASE n \notin 1 .. Len(attempts[o])
  <2>1. n = Len(attempts[o]) + 1 /\ SentTo(r, o) /\ n # 1
    BY <1>1, <1>2, <1>4
  <2>2. attempts'[o][n] = Cause(r)
    BY <2>1, AttemptsAfter DEF LoopInv
  <2>3. SentBack(r)
    <3>1. ~ SentBack(r) => o \in Running(r.op, "FINAL_TEST")
      BY <2>1 DEF SentTo
    <3> QED BY <3>1 DEF Running
  <2> QED BY <2>1, <2>2, <2>3 DEF Cause, NewAttempt
<1> QED BY <1>3, <1>4

(* One pair of a test and its tuning.                                       *)
InStep(f, t) ==
  LET tests == attempts[f]
      tunings == attempts[t]
  IN /\ Len(tunings) \in {Len(tests), Len(tests) + 1}
     /\ Len(tunings) > Len(tests) => tests[Len(tests)].result = "FAIL"
     /\ \A n \in 1 .. Len(tests) - 1 : tests[n].result = "FAIL"
     /\ Len(tunings) = Len(tests) /\ Len(tests) > 1 => operation[t].state = "COMPLETED"

LEMMA PairKept ==
  ASSUME IInv, NEW r \in Requests, Accept(r),
         NEW f \in Ops, NEW t \in Ops, Pair(f, t), InStep(f, t),
         \A n \in DOMAIN attempts[t] :
           attempts[t][n].role = IF n = 1 THEN "NONE" ELSE "TUNING_REWORK"
  PROVE  InStep(f, t)'
<1> DEFINE F == Len(attempts[f])
           T == Len(attempts[t])
<1>1. /\ attempts[f] \in Seq(AttemptRows) /\ attempts[f] # <<>> /\ Current(f) = F
      /\ attempts[t] \in Seq(AttemptRows) /\ attempts[t] # <<>> /\ Current(t) = T
  BY DEF IInv, TypeOK, Keyed, Current
<1>2. F \in Nat /\ T \in Nat /\ F >= 1 /\ T >= 1 /\ DOMAIN attempts[t] = 1 .. T
  BY <1>1
<1>3. /\ Len(attempts'[f]) = IF r.op = t /\ SentOn(r) THEN F + 1 ELSE F
      /\ Len(attempts'[t]) = IF r.op = f /\ SentBack(r) THEN T + 1 ELSE T
  BY AttemptsAfter, SentWithin
<1>4. f # t
  BY SentWithin
<1>5. \A n \in 1 .. F : attempts[f][n].result # "NONE" =>
        attempts'[f][n].result = attempts[f][n].result
  BY RowsAfter
<1>6. /\ T = F \/ T = F + 1
      /\ T > F => attempts[f][F].result = "FAIL"
      /\ \A n \in 1 .. F - 1 : attempts[f][n].result = "FAIL"
      /\ T = F /\ F > 1 => operation[t].state = "COMPLETED"
  BY DEF InStep
<1>7. \A n \in 1 .. F - 1 : attempts'[f][n].result = "FAIL"
  BY <1>2, <1>5, <1>6
<1>8. T > F => attempts'[f][F].result = "FAIL"
  BY <1>2, <1>5, <1>6
<1> HIDE DEF F, T
(* The test failed: it was not judged before, so the tuning was not ahead.    *)
<1>9. CASE r.op = f /\ SentBack(r)
  <2>1. r.type = "FAIL" /\ IsVerdict(r) /\ ~ SentOn(r)
    BY <1>9 DEF SentBack, TriggersRework, IsVerdict, SentOn
  <2>2. F \in 1 .. Len(attempts[f])
    BY <1>2 DEF F
  <2>3. attempts[f][F].result = "NONE" /\ attempts'[f][F].result = "FAIL"
    BY <1>1, <1>9, <2>1, <2>2, RowsAfter
  <2>4. T = F
    BY <1>2, <1>6, <2>3
  <2>5. Len(attempts'[f]) = F /\ Len(attempts'[t]) = F + 1
    BY <1>3, <1>9, <2>1, <2>4
  <2> QED BY <1>2, <1>7, <2>3, <2>5 DEF InStep
(* A rework tuning is done: it was running, so it was ahead of the test.      *)
<1>10. CASE r.op = t /\ SentOn(r)
  <2>1. /\ r.type = "COMPLETE" /\ ~ SentBack(r)
        /\ attempts[t][T].role = "TUNING_REWORK"
    BY <1>1, <1>10 DEF SentOn, SentBack, TriggersRework
  <2>2. T # 1
    BY <1>2, <2>1
  <2>3. Snapshot(t).state = "RUNNING"
    BY <1>10, <2>1 DEF Accept, Legal, AllowedIn
  <2>4. operation[t].state = "RUNNING"
    BY <2>3, SnapshotReplays
  <2>5. T = F + 1
    BY <1>2, <1>6, <2>2, <2>4
  <2>6. Len(attempts'[f]) = F + 1 /\ Len(attempts'[t]) = F + 1
    BY <1>3, <1>4, <1>10, <2>1, <2>5
  <2>7. operation'[t].state = "COMPLETED"
    <3>1. ~ SentTo(r, t)
      BY <2>1, SentWithin
    <3>2. operation'[t] = [operation[t] EXCEPT !.state = After(Snapshot(t), r).state]
      BY <1>10, <3>1, AcceptEffect
    <3>3. After(Snapshot(t), r).state = "COMPLETED"
      BY <2>1 DEF After, StateAfter
    <3>4. operation[t] \in OperationRows
      BY DEF IInv, TypeOK
    <3> QED BY <3>2, <3>3, <3>4 DEF OperationRows
  <2>8. \A n \in 1 .. (F + 1) - 1 : attempts'[f][n].result = "FAIL"
    <3>1. \A n \in 1 .. (F + 1) - 1 : n \in 1 .. F - 1 \/ n = F
      BY <1>2
    <3>2. attempts'[f][F].result = "FAIL"
      BY <1>2, <1>8, <2>5
    <3> QED BY <1>7, <3>1, <3>2
  <2> QED BY <1>2, <2>6, <2>7, <2>8 DEF InStep
<1>11. CASE ~ (r.op = f /\ SentBack(r)) /\ ~ (r.op = t /\ SentOn(r))
  <2>1. Len(attempts'[f]) = F /\ Len(attempts'[t]) = T
    BY <1>3, <1>11
  <2>2. T = F /\ F > 1 => operation'[t].state = "COMPLETED"
    <3> SUFFICES ASSUME operation[t].state = "COMPLETED"
                 PROVE  operation'[t].state = "COMPLETED"
      BY <1>6
    <3>1. ~ SentTo(r, t)
      BY <1>11, SentWithin
    <3>2. CASE r.op # t
      BY <3>1, <3>2, AcceptEffect
    <3>3. CASE r.op = t
      <4>1. operation'[t] = [operation[t] EXCEPT !.state = After(Snapshot(t), r).state]
        BY <3>1, <3>3, AcceptEffect
      <4>2. Snapshot(t).state = "COMPLETED"
        BY SnapshotReplays
      <4>3. r.type \in EventTypes /\ Snapshot(t).state \in AllowedIn(r)
        BY <3>3 DEF Requests, Accept, Legal
      <4>4. r.type \in {"PASS", "FAIL"}
        BY <4>2, <4>3 DEF AllowedIn, EventTypes
      <4>5. After(Snapshot(t), r).state = "COMPLETED"
        BY <4>4 DEF After, StateAfter
      <4>6. operation[t] \in OperationRows
        BY DEF IInv, TypeOK
      <4> QED BY <4>1, <4>5, <4>6 DEF OperationRows
    <3> QED BY <3>2, <3>3
  <2> QED BY <1>2, <1>6, <1>7, <1>8, <2>1, <2>2 DEF InStep
<1> QED BY <1>9, <1>10, <1>11

LEMMA LoopPairs ==
  ReworkLoop /\ LoopFacts <=>
    /\ \A o \in Ops : \A n \in DOMAIN attempts[o] :
         ProcessOf[o] = "TUNING" =>
           attempts[o][n].role = IF n = 1 THEN "NONE" ELSE "TUNING_REWORK"
    /\ \A f, t \in Ops : Pair(f, t) => InStep(f, t)
BY Zenon DEF ReworkLoop, LoopFacts, Pair, InStep

LEMMA LoopInit == Init => LoopInv
<1> SUFFICES ASSUME Init PROVE LoopInv
  OBVIOUS
<1>1. \A o \in Ops : attempts[o] = <<NewAttempt("NONE", None, None)>>
  BY DEF Init
<1>2. \A o \in Ops : Len(attempts[o]) = 1 /\ DOMAIN attempts[o] = {1}
                     /\ attempts[o][1].role = "NONE"
  BY <1>1 DEF NewAttempt
<1>3. ASSUME NEW f \in Ops, NEW t \in Ops
      PROVE  InStep(f, t)
  <2>1. Len(attempts[f]) = 1 /\ Len(attempts[t]) = 1
    BY <1>2
  <2> QED BY <2>1 DEF InStep
<1> QED BY <1>2, <1>3, LoopPairs, IInvInit DEF LoopInv

LEMMA LoopNext == LoopInv /\ [Next]_vars => LoopInv'
<1> SUFFICES ASSUME LoopInv, [Next]_vars PROVE LoopInv'
  OBVIOUS
<1>1. IInv' /\ IInv
  BY IInvNext DEF LoopInv
<1>2. CASE Next
  <2>1. PICK r \in Requests : Accept(r)
    BY <1>2 DEF Next
  <2>2. \A o \in Ops : \A n \in DOMAIN attempts'[o] :
          ProcessOf[o] = "TUNING" =>
            attempts'[o][n].role = IF n = 1 THEN "NONE" ELSE "TUNING_REWORK"
    BY <2>1, RolesKept
  <2>3. ASSUME NEW f \in Ops, NEW t \in Ops, Pair(f, t)
        PROVE  InStep(f, t)'
    <3>1. InStep(f, t)
      BY <2>3, LoopPairs DEF LoopInv
    <3>2. ProcessOf[t] = "TUNING"
      BY <2>3 DEF Pair, Running
    <3>3. \A n \in DOMAIN attempts[t] :
            attempts[t][n].role = IF n = 1 THEN "NONE" ELSE "TUNING_REWORK"
      BY <3>2, LoopPairs DEF LoopInv
    <3> QED BY <1>1, <2>1, <2>3, <3>1, <3>3, PairKept
  <2>4. (ReworkLoop /\ LoopFacts)'
    <3>1. \A f, t \in Ops : Pair(f, t)' <=> Pair(f, t)
      BY DEF Pair, Running
    <3>2. \A f, t \in Ops : Pair(f, t)' => InStep(f, t)'
      BY <2>3, <3>1
    <3> QED BY <2>2, <3>2, Zenon DEF ReworkLoop, LoopFacts, Pair, InStep
  <2> QED BY <1>1, <2>4 DEF LoopInv
<1>3. CASE UNCHANGED vars
  BY <1>1, <1>3 DEF LoopInv, ReworkLoop, LoopFacts, vars
<1> QED BY <1>2, <1>3

(* The rework loop with what it rests on: which attempts of a tuning are       *)
(* rework, and that a tuning whose retest is staged is done.                 *)
THEOREM LoopInvariant == Spec => []LoopInv
BY LoopInit, LoopNext, PTL DEF Spec

(* However many rounds a unit goes through, its tuning is never more than one  *)
(* attempt ahead of its test, and only after a failure                        *)
(* (_stage_rework_after_event in execution_service.py).                       *)
THEOREM LoopKeepsStep == Spec => []ReworkLoop
BY LoopInvariant, PTL DEF LoopInv
=============================================================================
