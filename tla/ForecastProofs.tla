--------------------------- MODULE ForecastProofs ---------------------------
(***************************************************************************)
(* Proofs about what the forecast reads: the rounds of rework that the rows   *)
(* of the shop floor spell out, the pace and the minutes left, and the dates  *)
(* of the other teams and of the gates.  AtomicProofs has the invariants of  *)
(* the service they rest on.                                                *)
(***************************************************************************)
EXTENDS GateForecast, AtomicProofs

(* The greatest element of a bounded set.                                   *)
LEMMA MaxOf ==
  ASSUME NEW S \in SUBSET Nat, S # {}, NEW b \in Nat, \A y \in S : y <= b
  PROVE  Max(S) \in S /\ \A y \in S : y <= Max(S)
<1>1. \E x \in S : \A y \in S : x >= y
  BY GreatestNatural
<1> QED BY <1>1 DEF Max

LEMMA FiniteImage ==
  ASSUME NEW S, IsFiniteSet(S), NEW f
  PROVE  IsFiniteSet({f[x] : x \in S})
<1> DEFINE T == {f[x] : x \in S}
           h == [x \in S |-> f[x]]
<1>1. h \in Surjection(S, T)
  BY DEF Surjection
<1> HIDE DEF h, T
<1>2. IsFiniteSet(T)
  BY <1>1, FS_Surjection
<1> QED BY <1>2 DEF T

(* A finite set of numbers is bounded.                                      *)
LEMMA FiniteBounded ==
  ASSUME NEW S \in SUBSET Nat, IsFiniteSet(S)
  PROVE  \E b \in Nat : \A y \in S : y <= b
<1> DEFINE F == {T \in SUBSET S : \E b \in Nat : \A y \in T : y <= b}
<1>1. {} \in F
  OBVIOUS
<1>2. ASSUME NEW T \in SUBSET S, NEW x \in S \ T, T \in F
      PROVE  T \cup {x} \in F
  <2>1. PICK b \in Nat : \A y \in T : y <= b
    BY <1>2
  <2>2. PICK c \in Nat : b <= c /\ x <= c
    <3>1. b <= b + x /\ x <= b + x /\ b + x \in Nat
      BY <2>1
    <3> QED BY <3>1
  <2>3. \A y \in T \cup {x} : y <= c
    BY <2>1, <2>2
  <2> QED BY <2>3
<1> HIDE DEF F
<1>3. S \in F
  BY <1>1, <1>2, FiniteInduction
<1> QED BY <1>3 DEF F

-----------------------------------------------------------------------------
(* The dates of external steps                                              *)

DatesOK ==
  external \in [External -> [expected : Nat \cup {NoTime}, actual : Nat \cup {NoTime}]]

(* A step that is dated has a finish, over when its last stated date is.      *)
LEMMA Finishes ==
  ASSUME DatesOK, NEW x \in External
  PROVE  /\ x \in Barriers <=> external[x] # NoDates
         /\ x \in Barriers <=> Finish(x) \in Nat
         /\ \A t \in Int : Over(x, t) <=> x \in Barriers /\ Finish(x) <= t
<1> DEFINE e == external[x]
<1>1. e \in [expected : Nat \cup {NoTime}, actual : Nat \cup {NoTime}]
  BY DEF DatesOK
<1>2. PICK p \in Nat \cup {NoTime}, q \in Nat \cup {NoTime} : e = [expected |-> p, actual |-> q]
  BY <1>1
<1>3. e.expected = p /\ e.actual = q
  BY <1>2
<1>4. e = NoDates <=> p = NoTime /\ q = NoTime
  BY <1>2 DEF NoDates
<1>5. Finish(x) = IF q # NoTime THEN q ELSE p
  BY <1>3 DEF Finish
<1>6. x \in Barriers <=> Finish(x) # NoTime
  BY DEF Barriers
<1>7. NoTime \notin Nat
  BY DEF NoTime
<1>8. \A t \in Int : Over(x, t) <=> (q # NoTime /\ q <= t) \/ (q = NoTime /\ p # NoTime /\ p <= t)
  BY <1>3 DEF Over
<1> HIDE DEF e
<1> QED BY <1>4, <1>5, <1>6, <1>7, <1>8 DEF e

LEMMA ReleasedAtLast ==
  ASSUME DatesOK, NEW r
  PROVE  /\ ReleasedAt(r) \in Nat
         /\ \A x \in Applicable(r) : Finish(x) <= ReleasedAt(r)
<1> DEFINE F == {Finish(x) : x \in Applicable(r)}
<1>1. IsFiniteSet(Applicable(r)) /\ Applicable(r) \subseteq External
  BY ExternalAssumption, FS_Subset DEF Applicable, Barriers
<1>2. IsFiniteSet(F)
  <2> DEFINE f == [x \in External |-> Finish(x)]
             A == Applicable(r)
  <2>1. F = {f[x] : x \in A}
    BY <1>1
  <2> HIDE DEF f, F, A
  <2>2. IsFiniteSet({f[x] : x \in A})
    BY <1>1, FiniteImage DEF A
  <2> QED BY <2>1, <2>2
<1>3. \A x \in Applicable(r) : Finish(x) \in Nat
  BY <1>1, Finishes DEF Applicable
<1>4. F \in SUBSET Nat
  BY <1>3
<1>5. PICK b \in Nat : \A y \in F : y <= b
  BY <1>2, <1>4, FiniteBounded
<1>6. {0} \cup F \in SUBSET Nat /\ {0} \cup F # {} /\ \A y \in {0} \cup F : y <= b
  BY <1>4, <1>5
<1> DEFINE G == {0} \cup F
<1> HIDE DEF G
<1>7. Max(G) \in G /\ \A y \in G : y <= Max(G)
  BY <1>6, MaxOf DEF G
<1>8. ReleasedAt(r) = Max(G)
  BY DEF ReleasedAt, G
<1> QED BY <1>4, <1>7, <1>8 DEF G

(* Schedules                                                                *)
LEMMA ScheduleEnds ==
  ASSUME NEW releases, NEW asOf \in Nat, \A r \in DOMAIN releases : releases[r] \in Nat,
         NEW end \in Schedules(releases, asOf)
  PROVE  /\ DOMAIN end = DOMAIN releases
         /\ \A r \in DOMAIN end : end[r] \in Nat /\ asOf < end[r] /\ releases[r] < end[r]
<1>1. PICK d \in 1 .. 2 : end = [r \in DOMAIN releases |-> Max({asOf, releases[r]}) + d]
  BY DEF Schedules
<1>2. ASSUME NEW r \in DOMAIN releases
      PROVE  end[r] \in Nat /\ asOf < end[r] /\ releases[r] < end[r]
  <2> DEFINE S == {asOf, releases[r]}
  <2>1. releases[r] \in Nat
    OBVIOUS
  <2>2. S \in SUBSET Nat /\ S # {} /\ (\A y \in S : y <= asOf + releases[r]) /\ asOf + releases[r] \in Nat
    BY <2>1
  <2> HIDE DEF S
  <2>3. Max(S) \in S /\ \A y \in S : y <= Max(S)
    BY <2>2, MaxOf
  <2>4. end[r] = Max(S) + d
    BY <1>1 DEF S
  <2> QED BY <2>1, <2>2, <2>3, <2>4 DEF S
<1> QED BY <1>1, <1>2

-----------------------------------------------------------------------------
(* The bundle                                                               *)

LEMMA SomeInstant ==
  ASSUME NEW asOf \in AsOfs
  PROVE  asOf \in Nat /\ MaxTime <= asOf /\ asOf <= MaxTime + 1
BY AtomicAssumption DEF AsOfs

Open == UNION {SchedulerCurrent(u) : u \in Units}

LEMMA BundleParts ==
  ASSUME NEW asOf
  PROVE  /\ DOMAIN Bundle(asOf).items = IF Bundle(asOf).readiness = "READY" THEN Open ELSE {}
         /\ Bundle(asOf).readiness = "READY" => Bundle(asOf).waiting = {}
BY DEF Bundle, BundleOf, Open

(* What is open is a current attempt that is not complete.                   *)
LEMMA OpenIsCurrent ==
  ASSUME NEW r \in Open
  PROVE  /\ r[1] \in Ops /\ r = <<r[1], Current(r[1])>> /\ r \in Records(UnitOf[r[1]])
         /\ r[2] \in DOMAIN attempts[r[1]]
         /\ operation[r[1]].state # "COMPLETED" /\ r \notin Blocked(UnitOf[r[1]])
<1>1. PICK u \in Units : r \in Records(u) /\ Unfinished(r) /\ r \notin Blocked(u)
  BY DEF Open, SchedulerCurrent
<1>2. PICK o \in OpsOf(u) : \E n \in DOMAIN attempts[o] : r = <<o, n>>
  BY <1>1 DEF Records
<1>3. UnitOf[o] = u /\ o \in Ops
  BY DEF OpsOf
<1> QED BY <1>1, <1>2, <1>3 DEF Unfinished, IsCurrent

(* A schedule of the full bundle waits for every step of another team.        *)
LEMMA FullHonoured == DatesOK => FullForecastHonoured
<1> SUFFICES ASSUME DatesOK, NEW asOf \in AsOfs, NEW end \in FullSchedules(asOf),
                    NEW r \in DOMAIN end, NEW x \in External, StepOf[r[1]] > x
             PROVE  Over(x, end[r])
  BY DEF FullForecastHonoured
<1> DEFINE releases == FullReleases(asOf)
<1>1. asOf \in Nat
  BY SomeInstant
<1>2. \A q \in DOMAIN releases : releases[q] = ReleasedAt(q)
  BY DEF FullReleases
<1>3. \A q \in DOMAIN releases : releases[q] \in Nat
  BY <1>2, ReleasedAtLast
<1> HIDE DEF releases
<1>4. /\ DOMAIN end = DOMAIN releases
      /\ end[r] \in Nat /\ releases[r] < end[r]
  BY <1>1, <1>3, ScheduleEnds DEF FullSchedules, releases
<1>5. Barriers = External
  BY <1>4 DEF FullReleases, FullReady, releases
<1>6. x \in Applicable(r)
  BY <1>5 DEF Applicable
<1>7. Finish(x) <= releases[r] /\ Finish(x) \in Nat /\ releases[r] \in Nat
  BY <1>2, <1>3, <1>4, <1>5, <1>6, ReleasedAtLast, Finishes
<1>8. Finish(x) <= end[r]
  BY <1>4, <1>7
<1> QED BY <1>4, <1>5, <1>8, Finishes

-----------------------------------------------------------------------------
(* Gates                                                                    *)

(* An attempt has an end exactly if it is complete.                          *)
EndedWhenDone ==
  \A o \in Ops : \A n \in DOMAIN attempts[o] :
    IF StateOf(o, n) = "COMPLETED" THEN attempts[o][n].endedAt \in Times
    ELSE attempts[o][n].endedAt = NoTime

(* The first attempt of an operation has no role and no cause, later ones are  *)
(* rework.                                                                  *)
FirstsPlain ==
  \A o \in Ops : \A n \in DOMAIN attempts[o] :
    /\ attempts[o][n].role = "NONE" <=> n = 1
    /\ n = 1 => attempts[o][n].event = None

RowFacts == IInv /\ EndedWhenDone /\ FirstsPlain

LEMMA CurrentRowOf ==
  ASSUME RowFacts, NEW o \in Ops
  PROVE  /\ Current(o) \in DOMAIN attempts[o] /\ Current(o) = Len(attempts[o])
         /\ Len(attempts[o]) \in Nat \ {0} /\ DOMAIN attempts[o] = 1 .. Len(attempts[o])
         /\ StateOf(o, Current(o)) = operation[o].state
         /\ operation[o].state = "COMPLETED" => CurrentRow(o).endedAt \in Times
         /\ operation[o].state = "COMPLETED" <=> CurrentRow(o).endedAt # NoTime
<1>1. attempts[o] \in Seq(AttemptRows) /\ Current(o) = Len(attempts[o]) /\ attempts[o] # <<>>
  BY DEF RowFacts, IInv, TypeOK, Keyed, Current
<1>2. Len(attempts[o]) \in Nat \ {0} /\ DOMAIN attempts[o] = 1 .. Len(attempts[o])
  BY <1>1
<1>3. Current(o) \in DOMAIN attempts[o]
  BY <1>1, <1>2
<1>4. NoTime \notin Times
  BY DEF Times, NoTime
<1> QED BY <1>1, <1>2, <1>3, <1>4 DEF RowFacts, EndedWhenDone, StateOf, CurrentRow

LEMMA LiveEnds ==
  ASSUME NEW asOf \in AsOfs, NEW end \in LiveSchedules(asOf)
  PROVE  /\ Bundle(asOf).readiness = "READY" /\ DOMAIN end = Open
         /\ \A r \in DOMAIN end : end[r] \in Nat /\ asOf < end[r] /\ end[r] <= asOf + 2
<1> DEFINE releases == [r \in DOMAIN Bundle(asOf).items |-> 0]
<1>1. Bundle(asOf).readiness = "READY" /\ end \in Schedules(releases, asOf)
  BY DEF LiveSchedules
<1>2. DOMAIN releases = Open
  BY <1>1, BundleParts
<1>3. asOf \in Nat /\ \A r \in DOMAIN releases : releases[r] = 0
  BY SomeInstant
<1> HIDE DEF releases
<1>4. PICK d \in 1 .. 2 : end = [r \in DOMAIN releases |-> Max({asOf, releases[r]}) + d]
  BY <1>1 DEF Schedules
<1>5. ASSUME NEW r \in DOMAIN end
      PROVE  end[r] \in Nat /\ asOf < end[r] /\ end[r] <= asOf + 2
  <2> DEFINE S == {asOf, releases[r]}
  <2>1. r \in DOMAIN releases /\ releases[r] = 0
    BY <1>3, <1>4
  <2>2. S \in SUBSET Nat /\ S # {} /\ \A y \in S : y <= asOf
    BY <1>3, <2>1
  <2> HIDE DEF S
  <2>3. Max(S) \in S /\ \A y \in S : y <= Max(S)
    BY <1>3, <2>2, MaxOf
  <2>4. end[r] = Max(S) + d
    BY <1>4, <2>1 DEF S
  <2>5. Max(S) = asOf
    BY <1>3, <2>1, <2>3 DEF S
  <2> QED BY <1>3, <2>4, <2>5
<1> QED BY <1>1, <1>2, <1>4, <1>5

(* What the ends of a gate's step are.                                      *)
LEMMA EndsOf ==
  ASSUME RowFacts, NEW asOf \in AsOfs, NEW end \in LiveSchedules(asOf), NEW s
  PROVE  /\ Ends(s, end) \in SUBSET Nat /\ \A y \in Ends(s, end) : y <= asOf + 2
         /\ \A y \in Ends(s, end) :
              \/ \E o \in Required(s) : Settled(o) /\ y = CurrentRow(o).endedAt /\ y \in Times
              \/ \E r \in DOMAIN end : StepOf[r[1]] = s /\ y = end[r]
<1>1. ASSUME NEW o \in Required(s), Settled(o)
      PROVE  CurrentRow(o).endedAt \in Times
  BY <1>1, CurrentRowOf DEF Required, Settled
<1>2. \A y \in Ends(s, end) :
        \/ \E o \in Required(s) : Settled(o) /\ y = CurrentRow(o).endedAt /\ y \in Times
        \/ \E r \in DOMAIN end : StepOf[r[1]] = s /\ y = end[r]
  BY <1>1 DEF Ends
<1>3. \A r \in DOMAIN end : end[r] \in Nat /\ end[r] <= asOf + 2
  BY LiveEnds
<1>4. \A y \in Times : y \in Nat /\ y <= asOf + 2
  BY SomeInstant, AtomicAssumption DEF Times
<1>5. \A y \in Ends(s, end) : y \in Nat /\ y <= asOf + 2
  BY <1>2, <1>3, <1>4
<1> QED BY <1>2, <1>5

LEMMA LastEnd ==
  ASSUME RowFacts, NEW asOf \in AsOfs, NEW end \in LiveSchedules(asOf), NEW s,
         Ends(s, end) # {}
  PROVE  Max(Ends(s, end)) \in Ends(s, end) /\ \A y \in Ends(s, end) : y <= Max(Ends(s, end))
<1> DEFINE S == Ends(s, end)
<1>1. S \in SUBSET Nat /\ S # {} /\ \A y \in S : y <= asOf + 2
  BY EndsOf
<1>2. asOf + 2 \in Nat
  BY SomeInstant
<1> HIDE DEF S
<1>3. Max(S) \in S /\ \A y \in S : y <= Max(S)
  BY <1>1, <1>2, MaxOf
<1> QED BY <1>3 DEF S

(* A gate of internal work is dated by the ends of its units.                *)
LEMMA DatedHasEnds ==
  ASSUME NEW end, NEW s \in Gates \ External, Dated(s, end)
  PROVE  Ends(s, end) # {} /\ ForecastAt(s, end) = Max(Ends(s, end))
<1>1. PICK o \in Ops : s = StepOf[o]
  BY DEF Gates
<1>2. UnitOf[o] \in Covered(s, end)
  BY DEF Dated, AllReach, Units
<1>3. Ends(s, end) # {}
  <2>1. CASE \E p \in Required(s) : Settled(p)
    <3>1. PICK p \in Required(s) : Settled(p)
      BY <2>1
    <3>2. CurrentRow(p).endedAt \in Ends(s, end)
      BY <3>1 DEF Ends
    <3> QED BY <3>2
  <2>2. CASE \E r \in DOMAIN end : StepOf[r[1]] = s
    <3>1. PICK r \in DOMAIN end : StepOf[r[1]] = s
      BY <2>2
    <3>2. end[r] \in Ends(s, end)
      BY <3>1 DEF Ends
    <3> QED BY <3>2
  <2>3. (\E p \in Required(s) : Settled(p)) \/ \E r \in DOMAIN end : StepOf[r[1]] = s
    BY <1>2 DEF Covered
  <2> QED BY <2>1, <2>2, <2>3
<1> QED BY <1>3 DEF ForecastAt

LEMMA LotEndIsLast ==
  ASSUME DatesOK, NEW asOf \in AsOfs, NEW end \in LiveSchedules(asOf)
  PROVE  /\ DOMAIN end # {} => LotEnd(end) \in Nat
         /\ \A r \in DOMAIN end : end[r] <= LotEnd(end)
         /\ \A x \in Barriers : Finish(x) <= LotEnd(end)
<1> DEFINE E == {end[r] : r \in DOMAIN end}
           F == {Finish(x) : x \in Barriers}
           f == [x \in External |-> Finish(x)]
<1>1. Barriers \subseteq External /\ IsFiniteSet(Barriers)
  BY ExternalAssumption, FS_Subset DEF Barriers
<1>2. F = {f[x] : x \in Barriers}
  BY <1>1
<1>3. F \in SUBSET Nat
  BY <1>1, Finishes
<1>4. E \in SUBSET Nat /\ \A y \in E : y <= asOf + 2
  BY LiveEnds
<1>9. LotEnd(end) = Max(E \cup F)
  BY DEF LotEnd
<1>10. (\A r \in DOMAIN end : end[r] \in E) /\ \A x \in Barriers : Finish(x) \in F
  OBVIOUS
<1>5. IsFiniteSet(F)
  <2> HIDE DEF f, F
  <2> QED BY <1>1, <1>2, FiniteImage
<1> HIDE DEF E, F
<1>6. PICK b \in Nat : \A y \in F : y <= b
  BY <1>3, <1>5, FiniteBounded
<1> DEFINE G == E \cup F
<1>7. G \in SUBSET Nat /\ (\A y \in G : y <= asOf + 2 + b) /\ asOf + 2 + b \in Nat
  BY <1>3, <1>4, <1>6, SomeInstant
<1>8. G # {} => Max(G) \in G /\ \A y \in G : y <= Max(G)
  <2> HIDE DEF G
  <2> QED BY <1>7, MaxOf
<1>11. ASSUME NEW y \in G
       PROVE  LotEnd(end) \in Nat /\ y <= LotEnd(end)
  <2> HIDE DEF G
  <2> QED BY <1>7, <1>8, <1>9, <1>11 DEF G
<1> QED BY <1>10, <1>11

LEMMA EndCovers == RowFacts /\ DatesOK => EndCoversGates
<1> SUFFICES ASSUME RowFacts, DatesOK, NEW asOf \in AsOfs, NEW end \in LiveSchedules(asOf),
                    DOMAIN end # {}, NEW s \in Gates, Dated(s, end)
             PROVE  ForecastAt(s, end) <= LotEnd(end)
  BY DEF EndCoversGates
<1>1. CASE s \in External
  BY <1>1, LotEndIsLast DEF Dated, ForecastAt
<1>2. CASE s \notin External
  <2> DEFINE m == Max(Ends(s, end))
  <2>1. m \in Ends(s, end) /\ ForecastAt(s, end) = m
    BY <1>2, DatedHasEnds, LastEnd
  <2> HIDE DEF m
  <2>2. PICK r \in DOMAIN end : TRUE
    OBVIOUS
  <2>3. CASE \E q \in DOMAIN end : m = end[q]
    BY <2>1, <2>3, LotEndIsLast
  <2>4. CASE m \in Times
    <3>1. m <= end[r] /\ m \in Nat /\ end[r] \in Nat
      BY <2>4, SomeInstant, LiveEnds, AtomicAssumption DEF Times
    <3>2. end[r] <= LotEnd(end)
      BY LotEndIsLast
    <3>3. LotEnd(end) \in Nat
      BY LotEndIsLast
    <3> QED BY <2>1, <3>1, <3>2, <3>3
  <2> QED BY <2>1, <2>3, <2>4, EndsOf
<1> QED BY <1>1, <1>2

(* Which units have reached a gate, and when.                                *)
LEMMA CoveredUnit ==
  ASSUME RowFacts, NEW asOf \in AsOfs, NEW end \in LiveSchedules(asOf), NEW o \in Ops
  PROVE  UnitOf[o] \in Covered(StepOf[o], end) <=>
           Settled(o) \/ <<o, Current(o)>> \in DOMAIN end
<1> DEFINE s == StepOf[o]
<1>1. ASSUME NEW p \in Ops, UnitOf[p] = UnitOf[o], StepOf[p] = s
      PROVE  p = o
  BY <1>1, ProjectionAssumption
<1>2. \A r \in DOMAIN end : r[1] \in Ops /\ r = <<r[1], Current(r[1])>>
  BY LiveEnds, OpenIsCurrent
<1>3. ASSUME UnitOf[o] \in Covered(s, end)
      PROVE  Settled(o) \/ <<o, Current(o)>> \in DOMAIN end
  <2>1. CASE \E p \in Required(s) : Settled(p) /\ UnitOf[p] = UnitOf[o]
    BY <1>1, <2>1 DEF Required
  <2>2. CASE \E r \in DOMAIN end : StepOf[r[1]] = s /\ UnitOf[r[1]] = UnitOf[o]
    <3>1. PICK r \in DOMAIN end : StepOf[r[1]] = s /\ UnitOf[r[1]] = UnitOf[o]
      BY <2>2
    <3>2. r[1] = o
      BY <1>1, <1>2, <3>1
    <3> QED BY <1>2, <3>1, <3>2
  <2>3. \/ \E p \in Required(s) : Settled(p) /\ UnitOf[p] = UnitOf[o]
        \/ \E r \in DOMAIN end : StepOf[r[1]] = s /\ UnitOf[r[1]] = UnitOf[o]
    BY <1>3 DEF Covered
  <2> QED BY <2>1, <2>2, <2>3
<1>4. Settled(o) => UnitOf[o] \in Covered(s, end)
  <2>1. o \in Required(s)
    BY DEF Required
  <2> QED BY <2>1 DEF Covered
<1>5. ASSUME <<o, Current(o)>> \in DOMAIN end
      PROVE  UnitOf[o] \in Covered(s, end)
  <2> DEFINE r == <<o, Current(o)>>
  <2>1. r \in DOMAIN end /\ StepOf[r[1]] = s /\ UnitOf[r[1]] = UnitOf[o]
    BY <1>5
  <2> HIDE DEF r
  <2> QED BY <2>1 DEF Covered
<1> QED BY <1>3, <1>4, <1>5

OverAt(o, end) ==
  IF operation[o].state = "COMPLETED" THEN attempts[o][Current(o)].endedAt
  ELSE end[<<o, Current(o)>>]

(* If the step of a gate is dated, it is dated by the ends of its operations.   *)
LEMMA EndsAreOver ==
  ASSUME RowFacts, NEW asOf \in AsOfs, NEW end \in LiveSchedules(asOf),
         NEW s \in Gates \ External, Dated(s, end)
  PROVE  /\ \A o \in Required(s) : OverAt(o, end) \in Ends(s, end)
         /\ \A y \in Ends(s, end) : \E o \in Required(s) : y = OverAt(o, end)
<1>1. ASSUME NEW o \in Required(s)
      PROVE  OverAt(o, end) \in Ends(s, end)
  <2>1. o \in Ops /\ StepOf[o] = s
    BY DEF Required
  <2>2. UnitOf[o] \in Covered(s, end)
    BY <2>1 DEF Dated, AllReach, Units
  <2>3. CASE Settled(o)
    <3>1. CurrentRow(o).endedAt \in Ends(s, end)
      BY <2>3 DEF Ends
    <3> QED BY <2>3, <3>1 DEF OverAt, CurrentRow, Settled
  <2>4. CASE <<o, Current(o)>> \in DOMAIN end
    <3> DEFINE r == <<o, Current(o)>>
    <3>1. r \in DOMAIN end /\ StepOf[r[1]] = s
      BY <2>1, <2>4
    <3>2. operation[o].state # "COMPLETED"
      BY <2>4, LiveEnds, OpenIsCurrent
    <3>4. OverAt(o, end) = end[r]
      BY <3>2 DEF OverAt
    <3> HIDE DEF r
    <3>3. end[r] \in Ends(s, end)
      BY <3>1 DEF Ends
    <3> QED BY <3>3, <3>4
  <2> QED BY <2>1, <2>2, <2>3, <2>4, CoveredUnit
<1>2. ASSUME NEW y \in Ends(s, end)
      PROVE  \E o \in Required(s) : y = OverAt(o, end)
  <2>1. CASE \E o \in Required(s) : Settled(o) /\ y = CurrentRow(o).endedAt
    BY <2>1 DEF OverAt, CurrentRow, Settled
  <2>2. CASE \E r \in DOMAIN end : StepOf[r[1]] = s /\ y = end[r]
    <3>1. PICK r \in DOMAIN end : StepOf[r[1]] = s /\ y = end[r]
      BY <2>2
    <3>2. r[1] \in Ops /\ r = <<r[1], Current(r[1])>> /\ operation[r[1]].state # "COMPLETED"
      BY LiveEnds, OpenIsCurrent
    <3>3. r[1] \in Required(s) /\ y = OverAt(r[1], end)
      BY <3>1, <3>2 DEF Required, OverAt
    <3> QED BY <3>3
  <2> QED BY <2>1, <2>2, EndsOf
<1> QED BY <1>1, <1>2

LEMMA RiskUrgent ==
  ASSUME NEW slack \in Int
  PROVE  Risk(slack) \in 0 .. 2 /\ (Risk(slack) = 2 <=> slack <= 0)
BY GateAssumption DEF Risk

(* The forecast of a dated gate is a natural, and reaches an instant exactly    *)
(* if something the gate waits for does.                                    *)
LEMMA ForecastReaches ==
  ASSUME RowFacts, DatesOK, NEW asOf \in AsOfs, NEW end \in LiveSchedules(asOf),
         NEW s \in Gates, Dated(s, end)
  PROVE  /\ ForecastAt(s, end) \in Nat
         /\ s \notin External => \A t \in Nat :
              ForecastAt(s, end) >= t <=> \E o \in Required(s) : OverAt(o, end) >= t
         /\ s \in External => \A t \in Nat : ForecastAt(s, end) >= t <=> ~ Over(s, t - 1)
<1>1. CASE s \in External
  <2>1. s \in Barriers /\ ForecastAt(s, end) = Finish(s) /\ Finish(s) \in Nat
    BY <1>1, Finishes DEF Dated, ForecastAt
  <2>2. \A t \in Nat : Over(s, t - 1) <=> Finish(s) <= t - 1
    BY <1>1, <2>1, Finishes
  <2> QED BY <1>1, <2>1, <2>2
<1>2. CASE s \notin External
  <2> DEFINE m == Max(Ends(s, end))
  <2>1. /\ m \in Ends(s, end) /\ ForecastAt(s, end) = m
        /\ \A y \in Ends(s, end) : y <= m
    BY <1>2, DatedHasEnds, LastEnd
  <2>2. Ends(s, end) \in SUBSET Nat
    BY EndsOf
  <2>3. /\ \A o \in Required(s) : OverAt(o, end) \in Ends(s, end)
        /\ \A y \in Ends(s, end) : \E o \in Required(s) : y = OverAt(o, end)
    BY <1>2, EndsAreOver
  <2> HIDE DEF m
  <2>4. ASSUME NEW t \in Nat, NEW o \in Required(s), OverAt(o, end) >= t
        PROVE  m >= t
    <3>1. OverAt(o, end) \in Nat /\ OverAt(o, end) <= m /\ m \in Nat
      BY <2>1, <2>2, <2>3
    <3> QED BY <2>4, <3>1
  <2>5. ASSUME NEW t \in Nat, m >= t
        PROVE  \E o \in Required(s) : OverAt(o, end) >= t
    BY <2>1, <2>3, <2>5
  <2> QED BY <1>2, <2>1, <2>2, <2>4, <2>5
<1> QED BY <1>1, <1>2

LEMMA LateIsUrgent == RowFacts /\ DatesOK => UrgentWhenLate
<1> SUFFICES ASSUME RowFacts, DatesOK, NEW asOf \in AsOfs, NEW end \in LiveSchedules(asOf),
                    Ready(end)
             PROVE  LotRisk(end) = 2 <=>
                      \/ \E x \in External : ~ Over(x, PlannedAt[x] - 1)
                      \/ \E o \in Ops : OverAt(o, end) >= PlannedAt[StepOf[o]]
  BY DEF UrgentWhenLate, OverAt
<1> DEFINE R == {Risk(Slack(s, end)) : s \in {s \in Gates : Dated(s, end)}}
<1>1. ASSUME NEW s \in Gates
      PROVE  /\ PlannedAt[s] \in Nat /\ Dated(s, end)
             /\ Slack(s, end) \in Int
             /\ Slack(s, end) <= 0 <=> ForecastAt(s, end) >= PlannedAt[s]
  <2>1. PlannedAt[s] \in Nat /\ Dated(s, end)
    BY GateAssumption DEF Ready
  <2>2. ForecastAt(s, end) \in Nat
    BY <2>1, ForecastReaches
  <2> QED BY <2>1, <2>2 DEF Slack
<1>2. ASSUME NEW s \in Gates
      PROVE  Risk(Slack(s, end)) \in 0 .. 2
             /\ (Risk(Slack(s, end)) = 2 <=> ForecastAt(s, end) >= PlannedAt[s])
  BY <1>1, RiskUrgent
<1>3. R \in SUBSET (0 .. 2)
  BY <1>2
<1>4. 2 \in R <=> \E s \in Gates : ForecastAt(s, end) >= PlannedAt[s]
  BY <1>1, <1>2
<1>5. LotRisk(end) = Max({0} \cup R)
  BY DEF LotRisk
<1> HIDE DEF R
<1> DEFINE Q == {0} \cup R
<1>6. Max(Q) \in Q /\ \A y \in Q : y <= Max(Q)
  <2>1. Q \in SUBSET Nat /\ Q # {} /\ 2 \in Nat /\ \A y \in Q : y <= 2
    BY <1>3
  <2> HIDE DEF Q
  <2> QED BY <2>1, MaxOf
<1>7. LotRisk(end) = 2 <=> 2 \in R
  <2>1. \A y \in Q : y \in 0 .. 2
    BY <1>3
  <2>2. 2 \in R <=> 2 \in Q
    OBVIOUS
  <2>3. LotRisk(end) = Max(Q)
    BY <1>5
  <2> HIDE DEF Q
  <2> QED BY <1>6, <2>1, <2>2, <2>3
<1>8. ASSUME NEW s \in Gates, ForecastAt(s, end) >= PlannedAt[s]
      PROVE  \/ \E x \in External : ~ Over(x, PlannedAt[x] - 1)
             \/ \E o \in Ops : OverAt(o, end) >= PlannedAt[StepOf[o]]
  BY <1>1, <1>8, ForecastReaches DEF Required
<1>9. ASSUME NEW x \in External, ~ Over(x, PlannedAt[x] - 1)
      PROVE  \E s \in Gates : ForecastAt(s, end) >= PlannedAt[s]
  <2>1. x \in Gates
    BY DEF Gates
  <2> QED BY <1>1, <1>9, <2>1, ForecastReaches
<1>10. ASSUME NEW o \in Ops, OverAt(o, end) >= PlannedAt[StepOf[o]]
       PROVE  \E s \in Gates : ForecastAt(s, end) >= PlannedAt[s]
  <2>1. StepOf[o] \in Gates /\ o \in Required(StepOf[o]) /\ StepOf[o] \notin External
    BY ExternalAssumption DEF Gates, Required
  <2> QED BY <1>1, <1>10, <2>1, ForecastReaches
<1> QED BY <1>4, <1>7, <1>8, <1>9, <1>10

-----------------------------------------------------------------------------
(* The rows of the shop floor                                               *)

(* What an event does to the rows of an operation.                           *)
LEMMA StatesAfter ==
  ASSUME IInv, NEW r \in Requests, Accept(r), NEW p \in Ops, NEW m \in DOMAIN attempts'[p]
  PROVE  \/ /\ SentTo(r, p) /\ m = Len(attempts[p]) + 1
            /\ attempts'[p][m] = Cause(r) /\ StateOf(p, m)' = "WAITING"
         \/ /\ p = r.op /\ m = Current(p) /\ m \in DOMAIN attempts[p]
            /\ StateOf(p, m) = operation[p].state
            /\ StateOf(p, m)' = After(Snapshot(p), r).state
            /\ attempts'[p][m] = Worked(attempts[p][m], After(Snapshot(p), r), r)
         \/ /\ m \in DOMAIN attempts[p] /\ ~ (p = r.op /\ m = Current(p))
            /\ StateOf(p, m)' = StateOf(p, m)
            /\ attempts'[p][m] = attempts[p][m]
<1> DEFINE o == r.op
           n == Current(o)
           after == After(Snapshot(p), r)
<1>1. /\ attempts[p] \in Seq(AttemptRows) /\ attempts'[p] \in Seq(AttemptRows)
      /\ Len(attempts'[p]) = IF SentTo(r, p) THEN Len(attempts[p]) + 1 ELSE Len(attempts[p])
      /\ operation'[p].current = Len(attempts'[p])
      /\ Current(p) = Len(attempts[p])
  BY AttemptsAfter DEF IInv, TypeOK, Keyed, Current
<1>2. m \in 1 .. Len(attempts'[p]) /\ m \in Nat /\ DOMAIN attempts[p] = 1 .. Len(attempts[p])
      /\ Len(attempts[p]) \in Nat
  <2>1. DOMAIN attempts'[p] = 1 .. Len(attempts'[p]) /\ DOMAIN attempts[p] = 1 .. Len(attempts[p])
        /\ Len(attempts[p]) \in Nat
    BY <1>1
  <2> QED BY <2>1
<1> HIDE DEF after
<1>3. CASE m = Len(attempts[p]) + 1
  <2>1. SentTo(r, p)
    BY <1>1, <1>2, <1>3
  <2>2. operation'[p] = [state |-> "WAITING", current |-> Len(attempts[p]) + 1, eligibleAt |-> r.at]
    BY <2>1, AcceptEffect, Zenon
  <2>3. attempts'[p][Len(attempts[p]) + 1] = Cause(r)
    BY <2>1, AttemptsAfter, Zenon
  <2>4. StateOf(p, m)' = "WAITING"
    BY <1>3, <2>2 DEF StateOf, Current
  <2> QED BY <1>3, <2>1, <2>3, <2>4
<1>4. CASE m \in 1 .. Len(attempts[p]) /\ p = o /\ m = n
  <2>1. ~ SentTo(r, p)
    BY <1>4, AcceptEffect
  <2>2. attempts'[p][m] = Worked(attempts[p][m], after, r)
    BY <1>4, AttemptsAfter DEF after
  <2>3. operation'[p] = [operation[p] EXCEPT !.state = after.state]
    BY <1>4, <2>1, AcceptEffect DEF after
  <2>4. operation[p] \in OperationRows
    BY DEF IInv, TypeOK
  <2>5. operation'[p].state = after.state /\ operation'[p].current = m
    BY <1>1, <1>4, <2>1, <2>3, <2>4 DEF OperationRows
  <2>6. StateOf(p, m)' = after.state /\ StateOf(p, m) = operation[p].state
    BY <1>4, <2>5 DEF StateOf, Current
  <2> QED BY <1>2, <1>4, <2>2, <2>6 DEF after
<1>5. CASE m \in 1 .. Len(attempts[p]) /\ ~ (p = o /\ m = n)
  <2>1. attempts'[p][m] = attempts[p][m]
    BY <1>5, AttemptsAfter
  <2>2. StateOf(p, m)' = StateOf(p, m)
    <3>1. CASE SentTo(r, p)
      <4>1. operation[p].state = "COMPLETED" /\ operation'[p].current = Len(attempts[p]) + 1
        BY <1>1, <3>1, AcceptEffect
      <4>2. m # Len(attempts[p]) + 1
        BY <1>2, <1>5
      <4> QED BY <4>1, <4>2 DEF StateOf, Current
    <3>2. CASE ~ SentTo(r, p) /\ p # o
      <4>1. operation'[p] = operation[p]
        BY <3>2, AcceptEffect
      <4> QED BY <4>1 DEF StateOf, Current
    <3>3. CASE ~ SentTo(r, p) /\ p = o
      <4>1. m # n /\ n = Current(p) /\ operation'[p].current = operation[p].current
        BY <1>1, <1>5, <3>3 DEF Current
      <4> QED BY <4>1 DEF StateOf, Current
    <3> QED BY <3>1, <3>2, <3>3
  <2> QED BY <1>2, <1>5, <2>1, <2>2
<1> QED BY <1>1, <1>2, <1>3, <1>4, <1>5

LEMMA EndedKept ==
  ASSUME RowFacts, NEW r \in Requests, Accept(r)
  PROVE  EndedWhenDone'
<1> SUFFICES ASSUME NEW p \in Ops, NEW m \in DOMAIN attempts'[p]
             PROVE  IF StateOf(p, m)' = "COMPLETED" THEN attempts'[p][m].endedAt \in Times
                    ELSE attempts'[p][m].endedAt = NoTime
  BY DEF EndedWhenDone, Times
<1> DEFINE after == After(Snapshot(p), r)
           a == attempts[p][m]
<1>1. CASE StateOf(p, m)' = "WAITING" /\ attempts'[p][m] = Cause(r)
  BY <1>1 DEF Cause, NewAttempt
<1>2. CASE m \in DOMAIN attempts[p] /\ StateOf(p, m)' = StateOf(p, m)
           /\ attempts'[p][m] = attempts[p][m]
  BY <1>2 DEF RowFacts, EndedWhenDone
<1>3. CASE /\ p = r.op /\ m = Current(p) /\ m \in DOMAIN attempts[p]
           /\ StateOf(p, m) = operation[p].state
           /\ StateOf(p, m)' = after.state
           /\ attempts'[p][m] = Worked(a, after, r)
  <2>1. a \in AttemptRows
    <3>1. attempts[p] \in Seq(AttemptRows)
      BY DEF RowFacts, IInv, TypeOK
    <3> QED BY <1>3, <3>1, ElementOfSeq
  <2>2. attempts'[p][m].endedAt =
          IF after.state = "COMPLETED" /\ a.endedAt = NoTime THEN r.at ELSE a.endedAt
    BY <1>3, <2>1 DEF Worked, AttemptRows
  <2>3. r.at \in Times /\ r.type \in EventTypes
    BY DEF Requests
  <2>4. IF operation[p].state = "COMPLETED" THEN a.endedAt \in Times ELSE a.endedAt = NoTime
    BY <1>3 DEF RowFacts, EndedWhenDone
  <2>5. operation[p].state = "COMPLETED" => after.state = "COMPLETED"
    <3>1. Snapshot(p).state \in AllowedIn(r)
      BY <1>3 DEF Accept, Legal
    <3>2. Snapshot(p).state = operation[p].state
      BY SnapshotReplays DEF RowFacts
    <3>3. operation[p].state = "COMPLETED" => r.type \in {"PASS", "FAIL"}
      BY <2>3, <3>1, <3>2 DEF AllowedIn, EventTypes
    <3> QED BY <3>3 DEF After, StateAfter
  <2> HIDE DEF after, a
  <2>6. CASE after.state = "COMPLETED"
    BY <1>3, <2>2, <2>3, <2>4, <2>6
  <2>7. CASE after.state # "COMPLETED"
    BY <1>3, <2>2, <2>4, <2>5, <2>7
  <2> QED BY <2>6, <2>7
<1> QED BY <1>1, <1>2, <1>3, StatesAfter DEF RowFacts

-----------------------------------------------------------------------------
(* Rounds of rework                                                         *)

Numbered == \A i \in Indices : events[i].id = i

(* Each tuning after the first is due to a FAIL on the test before it, and    *)
(* shares its cause with the retest; the tuning is ahead after a failure.     *)
Rounds(f, t) ==
  /\ \A n \in 2 .. Len(attempts[t]) :
       LET a == attempts[t][n]
       IN /\ a.role = "TUNING_REWORK" /\ a.source = f
          /\ a.event \in Indices /\ events[a.event].type = "FAIL"
          /\ events[a.event].op = f /\ events[a.event].attempt = n - 1
  /\ \A n \in 2 .. Len(attempts[f]) :
       LET a == attempts[f][n]
       IN a.role = "FINAL_TEST_RETEST" /\ a.source = f /\ a.event = attempts[t][n].event
  /\ attempts[f][Len(attempts[f])].result = "FAIL" => Len(attempts[t]) = Len(attempts[f]) + 1

OnlyPairs ==
  \A o \in Ops : Len(attempts[o]) > 1 => \E q \in Ops : Pair(o, q) \/ Pair(q, o)

Failing(f) == ProcessOf[f] = "FINAL_TEST" /\ attempts[f][Len(attempts[f])].result = "FAIL"
FailuresPaired == \A f \in Ops : Failing(f) => \E t \in Ops : Pair(f, t)

RoundInv ==
  /\ Numbered /\ OnlyPairs /\ FailuresPaired
  /\ \A f, t \in Ops : Pair(f, t) => Rounds(f, t)

LEMMA SentMakesPair ==
  ASSUME TunedThenTested, NEW r \in Requests, NEW o \in Ops, SentTo(r, o)
  PROVE  \/ Pair(r.op, o) /\ SentBack(r)
         \/ Pair(o, r.op) /\ SentOn(r) /\ ~ SentBack(r)
<1>1. r.op \in Ops
  BY DEF Requests
<1>2. CASE SentBack(r)
  <2>1. ProcessOf[r.op] = "FINAL_TEST" /\ UnitOf[o] = UnitOf[r.op] /\ ProcessOf[o] = "TUNING"
    BY <1>2 DEF SentTo, SentBack, TriggersRework, Running
  <2>2. Running(r.op, "FINAL_TEST") = {r.op} /\ Running(r.op, "TUNING") = {o}
    BY <1>1, <2>1 DEF TunedThenTested, Running
  <2> QED BY <1>2, <2>2 DEF Pair
<1>3. CASE ~ SentBack(r)
  <2>1. ProcessOf[r.op] = "TUNING" /\ UnitOf[o] = UnitOf[r.op] /\ ProcessOf[o] = "FINAL_TEST"
        /\ SentOn(r)
    BY <1>3 DEF SentTo, Sends, SentOn, Running
  <2>2. Running(o, "FINAL_TEST") = {o} /\ Running(o, "TUNING") = {r.op}
    BY <1>1, <2>1 DEF TunedThenTested, Running
  <2> QED BY <1>3, <2>1, <2>2 DEF Pair
<1> QED BY <1>2, <1>3

(* An event leaves what caused a row.                                        *)
LEMMA CauseKept ==
  ASSUME IInv, NEW r \in Requests, Accept(r), NEW p \in Ops, NEW m \in 1 .. Len(attempts[p])
  PROVE  /\ attempts'[p][m].role = attempts[p][m].role
         /\ attempts'[p][m].source = attempts[p][m].source
         /\ attempts'[p][m].event = attempts[p][m].event
<1> DEFINE after == After(Snapshot(p), r)
           a == attempts[p][m]
<1>1. a \in AttemptRows
  <2>1. attempts[p] \in Seq(AttemptRows)
    BY DEF IInv, TypeOK
  <2> QED BY <2>1, ElementOfSeq
<1>2. attempts'[p][m] = a \/ attempts'[p][m] = Worked(a, after, r)
  BY AttemptsAfter
<1> HIDE DEF after, a
<1>3. Worked(a, after, r).role = a.role /\ Worked(a, after, r).source = a.source
      /\ Worked(a, after, r).event = a.event
  BY <1>1 DEF Worked, AttemptRows
<1> QED BY <1>2, <1>3 DEF a

LEMMA LogGrows ==
  ASSUME IInv, NEW r \in Requests, Accept(r), r.id = Len(events) + 1
  PROVE  /\ Indices \subseteq Indices' /\ Indices' = Indices \cup {r.id} /\ r.id \notin Indices
         /\ \A i \in Indices : events'[i] = events[i]
         /\ events'[r.id] = EventRow(r, Current(r.op))
<1>1. events \in Seq(EventRows) /\ events' = Append(events, EventRow(r, Current(r.op)))
  BY DEF Accept, IInv, TypeOK
<1>2. /\ Len(events') = Len(events) + 1 /\ Len(events) \in Nat
      /\ \A i \in 1 .. Len(events) : events'[i] = events[i]
      /\ events'[Len(events) + 1] = EventRow(r, Current(r.op))
  BY <1>1
<1>3. 1 .. Len(events') = 1 .. Len(events) \cup {Len(events) + 1}
      /\ Len(events) + 1 \notin 1 .. Len(events)
  BY <1>2
<1> QED BY <1>2, <1>3 DEF Indices

LEMMA RoundsKept ==
  ASSUME IInv, NEW r \in Requests, Accept(r), r.id = Len(events) + 1,
         NEW f \in Ops, NEW t \in Ops, Pair(f, t), Rounds(f, t), InStep(f, t), InStep(f, t)'
  PROVE  Rounds(f, t)'
<1> DEFINE F == Len(attempts[f])
           T == Len(attempts[t])
<1>1. /\ attempts[f] \in Seq(AttemptRows) /\ attempts[f] # <<>> /\ Current(f) = F
      /\ attempts[t] \in Seq(AttemptRows) /\ attempts[t] # <<>> /\ Current(t) = T
  BY DEF IInv, TypeOK, Keyed, Current
<1>2. F \in Nat /\ T \in Nat /\ F >= 1 /\ T >= 1
  BY <1>1
<1>3. /\ Len(attempts'[f]) = IF r.op = t /\ SentOn(r) THEN F + 1 ELSE F
      /\ Len(attempts'[t]) = IF r.op = f /\ SentBack(r) THEN T + 1 ELSE T
      /\ r.op = f /\ SentBack(r) => attempts'[t][T + 1] = Cause(r)
      /\ r.op = t /\ SentOn(r) => attempts'[f][F + 1] = Cause(r)
  BY AttemptsAfter, SentWithin
<1>4. f # t
  BY SentWithin
<1>5. T \in {F, F + 1} /\ Len(attempts'[t]) \in {Len(attempts'[f]), Len(attempts'[f]) + 1}
  BY DEF InStep
<1>6. SentBack(r) => ~ SentOn(r) /\ r.type = "FAIL"
  BY DEF SentBack, TriggersRework, SentOn
<1>7. ProcessOf[f] = "FINAL_TEST" /\ ProcessOf[t] = "TUNING"
  BY DEF Pair, Running
<1>8. /\ \A n \in 1 .. F : /\ attempts'[f][n].role = attempts[f][n].role
                           /\ attempts'[f][n].source = attempts[f][n].source
                           /\ attempts'[f][n].event = attempts[f][n].event
      /\ \A n \in 1 .. T : /\ attempts'[t][n].role = attempts[t][n].role
                           /\ attempts'[t][n].source = attempts[t][n].source
                           /\ attempts'[t][n].event = attempts[t][n].event
  BY CauseKept
<1>9. ASSUME NEW n \in 2 .. Len(attempts'[t])
      PROVE  /\ attempts'[t][n].role = "TUNING_REWORK" /\ attempts'[t][n].source = f
             /\ attempts'[t][n].event \in Indices'
             /\ events'[attempts'[t][n].event].type = "FAIL"
             /\ events'[attempts'[t][n].event].op = f
             /\ events'[attempts'[t][n].event].attempt = n - 1
  <2>1. CASE n \in 2 .. T
    <3>1. /\ attempts[t][n].role = "TUNING_REWORK" /\ attempts[t][n].source = f
          /\ attempts[t][n].event \in Indices
          /\ events[attempts[t][n].event].type = "FAIL"
          /\ events[attempts[t][n].event].op = f
          /\ events[attempts[t][n].event].attempt = n - 1
      BY <2>1 DEF Rounds
    <3>2. n \in 1 .. T
      BY <2>1, <1>2
    <3> QED BY <1>8, <3>1, <3>2, LogGrows
  <2>2. CASE n \notin 2 .. T
    <3>1. r.op = f /\ SentBack(r) /\ n = T + 1
      BY <1>2, <1>3, <2>2
    <3>2. T = F
      BY <1>2, <1>3, <1>4, <1>5, <3>1
    <3>3. attempts'[t][n] = NewAttempt("TUNING_REWORK", f, r.id)
      BY <1>3, <3>1 DEF Cause
    <3>4. /\ attempts'[t][n].role = "TUNING_REWORK" /\ attempts'[t][n].source = f
          /\ attempts'[t][n].event = r.id
      BY <3>3 DEF NewAttempt
    <3>5. events'[r.id] = EventRow(r, F) /\ r.id \in Indices'
      BY <1>1, <3>1, LogGrows
    <3>6. events'[r.id].type = "FAIL" /\ events'[r.id].op = f /\ events'[r.id].attempt = n - 1
      BY <1>2, <1>6, <3>1, <3>2, <3>5 DEF EventRow
    <3> QED BY <3>4, <3>5, <3>6
  <2> QED BY <2>1, <2>2
<1>10. ASSUME NEW n \in 2 .. Len(attempts'[f])
       PROVE  /\ attempts'[f][n].role = "FINAL_TEST_RETEST" /\ attempts'[f][n].source = f
              /\ attempts'[f][n].event = attempts'[t][n].event
  <2>1. CASE n \in 2 .. F
    <3>1. /\ attempts[f][n].role = "FINAL_TEST_RETEST" /\ attempts[f][n].source = f
          /\ attempts[f][n].event = attempts[t][n].event
      BY <2>1 DEF Rounds
    <3>2. n \in 1 .. F /\ n \in 1 .. T
      BY <2>1, <1>2, <1>5
    <3> QED BY <1>8, <3>1, <3>2
  <2>2. CASE n \notin 2 .. F
    <3>1. r.op = t /\ SentOn(r) /\ n = F + 1
      BY <1>2, <1>3, <2>2
    <3>2. T = n /\ n \in 2 .. T /\ n \in 1 .. T
      BY <1>2, <1>3, <1>4, <1>5, <3>1
    <3>3. attempts'[f][n] = NewAttempt("FINAL_TEST_RETEST", attempts[t][n].source, attempts[t][n].event)
      BY <1>1, <1>3, <1>6, <3>1, <3>2 DEF Cause
    <3>4. attempts[t][n].source = f
      BY <3>2 DEF Rounds
    <3>5. attempts'[f][n].role = "FINAL_TEST_RETEST" /\ attempts'[f][n].source = f
          /\ attempts'[f][n].event = attempts[t][n].event
      BY <3>3, <3>4 DEF NewAttempt
    <3> QED BY <1>8, <3>2, <3>5
  <2> QED BY <2>1, <2>2
<1>11. ASSUME attempts'[f][Len(attempts'[f])].result = "FAIL"
       PROVE  Len(attempts'[t]) = Len(attempts'[f]) + 1
  <2>1. ~ (r.op = t /\ SentOn(r))
    BY <1>3, <1>11 DEF Cause, NewAttempt
  <2>2. Len(attempts'[f]) = F /\ attempts'[f][F].result = "FAIL"
    BY <1>3, <1>11, <2>1
  <2>3. CASE attempts[f][F].result = "FAIL"
    <3>1. T = F + 1
      BY <2>3 DEF Rounds
    <3> QED BY <1>2, <1>3, <1>5, <2>2, <3>1
  <2>4. CASE attempts[f][F].result # "FAIL"
    <3> DEFINE after == After(Snapshot(f), r)
    <3>1. F \in 1 .. Len(attempts[f])
      BY <1>2
    <3>2. attempts'[f][F] # attempts[f][F]
      BY <2>2, <2>4
    <3>3. r.op = f /\ attempts'[f][F] = Worked(attempts[f][F], after, r)
      BY <1>1, <3>1, <3>2, AttemptsAfter
    <3>4. attempts[f][F] \in AttemptRows
      BY <1>1, <3>1, ElementOfSeq
    <3>5. attempts'[f][F].result = after.result
      BY <3>3, <3>4 DEF Worked, AttemptRows
    <3>6. after.result = IF IsVerdict(r) THEN r.type ELSE Snapshot(f).result
      BY DEF After
    <3>7. Snapshot(f).result = attempts[f][F].result
      BY <1>1, SnapshotReplays
    <3>8. r.type = "FAIL"
      BY <2>2, <2>4, <3>5, <3>6, <3>7
    <3>9. SentBack(r)
      BY <1>7, <3>3, <3>8 DEF SentBack, TriggersRework
    <3> QED BY <1>2, <1>3, <1>5, <2>2, <3>3, <3>9
  <2> QED BY <2>3, <2>4
<1> QED BY <1>9, <1>10, <1>11 DEF Rounds

LEMMA RowNumbers ==
  ASSUME IInv, NEW o \in Ops
  PROVE  /\ attempts[o] \in Seq(AttemptRows) /\ Len(attempts[o]) \in Nat \ {0}
         /\ DOMAIN attempts[o] = 1 .. Len(attempts[o]) /\ Current(o) = Len(attempts[o])
<1>1. attempts[o] \in Seq(AttemptRows) /\ Current(o) = Len(attempts[o]) /\ attempts[o] # <<>>
  BY DEF IInv, TypeOK, Keyed, Current
<1>2. Len(attempts[o]) \in Nat \ {0} /\ DOMAIN attempts[o] = 1 .. Len(attempts[o])
  BY <1>1
<1> QED BY <1>1, <1>2

(* A unit's test and its tuning.                                            *)
LEMMA OfPair ==
  ASSUME NEW f \in Ops, NEW t \in Ops, Pair(f, t)
  PROVE  /\ ProcessOf[f] = "FINAL_TEST" /\ ProcessOf[t] = "TUNING" /\ f # t
         /\ UnitOf[t] = UnitOf[f] /\ f \in OpsOf(UnitOf[f]) /\ t \in OpsOf(UnitOf[f])
         /\ \A o \in OpsOf(UnitOf[f]) : ProcessOf[o] \in {"FINAL_TEST", "TUNING"} => o \in {f, t}
BY DEF Pair, Running, OpsOf

LEMMA RoundInit == Init => RoundInv
<1> SUFFICES ASSUME Init PROVE RoundInv
  OBVIOUS
<1>1. \A o \in Ops : attempts[o] = <<NewAttempt("NONE", None, None)>>
  BY DEF Init
<1>2. \A o \in Ops : Len(attempts[o]) = 1 /\ attempts[o][1] = NewAttempt("NONE", None, None)
  BY <1>1
<1>3. NewAttempt("NONE", None, None).role = "NONE" /\ NewAttempt("NONE", None, None).result = "NONE"
  BY DEF NewAttempt
<1>4. \A o \in Ops : attempts[o][1].role = "NONE" /\ attempts[o][1].result = "NONE"
  BY <1>2, <1>3
<1>5. Numbered
  <2>1. events = <<>> /\ Len(events) = 0
    BY DEF Init
  <2> QED BY <2>1 DEF Numbered, Indices
<1>6. ASSUME NEW f \in Ops, NEW t \in Ops
      PROVE  Rounds(f, t)
  <2>1. Len(attempts[f]) = 1 /\ Len(attempts[t]) = 1 /\ attempts[f][Len(attempts[f])].result = "NONE"
    BY <1>2, <1>4
  <2> QED BY <2>1 DEF Rounds
<1>7. ASSUME NEW o \in Ops, Len(attempts[o]) > 1 PROVE FALSE
  <2>1. Len(attempts[o]) = 1
    BY <1>2
  <2> QED BY <1>7, <2>1
<1>8. OnlyPairs
  BY <1>7 DEF OnlyPairs
<1>9. \A o \in Ops : attempts[o][Len(attempts[o])].result = "NONE"
  BY <1>2, <1>4
<1>10. FailuresPaired
  BY <1>9 DEF FailuresPaired, Failing
<1> QED BY <1>5, <1>6, <1>8, <1>10 DEF RoundInv

LEMMA RoundStep ==
  ASSUME TunedThenTested, LoopInv, LoopInv', RoundInv,
         NEW r \in Requests, r.id = Len(events) + 1, Accept(r)
  PROVE  RoundInv'
<1>1. IInv /\ IInv'
  BY DEF LoopInv
<1>2. Numbered'
  <2>1. events \in Seq(EventRows)
    BY <1>1 DEF IInv, TypeOK
  <2>2. events'[r.id] = EventRow(r, Current(r.op))
    BY <1>1, LogGrows
  <2>3. events'[r.id].id = r.id
    BY <2>2 DEF EventRow
  <2> QED BY <1>1, <2>3, LogGrows DEF RoundInv, Numbered
<1>4. \A p, q \in Ops : Pair(p, q)' <=> Pair(p, q)
  BY DEF Pair, Running
<1>5. OnlyPairs'
  <2>1. ASSUME NEW o \in Ops, Len(attempts'[o]) > 1
        PROVE  \E q \in Ops : Pair(o, q) \/ Pair(q, o)
    <3>1. CASE SentTo(r, o)
      <4>1. r.op \in Ops
        BY DEF Requests
      <4> QED BY <3>1, <4>1, SentMakesPair
    <3>2. CASE ~ SentTo(r, o)
      <4>1. Len(attempts[o]) > 1
        BY <1>1, <2>1, <3>2, AttemptsAfter
      <4> QED BY <4>1 DEF RoundInv, OnlyPairs
    <3> QED BY <3>1, <3>2
  <2> QED BY <1>4, <2>1 DEF OnlyPairs
<1>6. ASSUME NEW f \in Ops, NEW t \in Ops, Pair(f, t)
      PROVE  Rounds(f, t)'
  <2>1. InStep(f, t)
    BY <1>6, LoopPairs DEF LoopInv
  <2>2. InStep(f, t)'
    <3>1. ReworkLoop' /\ LoopFacts'
      BY DEF LoopInv
    <3>2. Pair(f, t)'
      BY <1>4, <1>6
    <3>3. (ReworkLoop /\ LoopFacts)' => (Pair(f, t)' => InStep(f, t)')
      BY Zenon DEF ReworkLoop, LoopFacts, Pair, InStep
    <3> QED BY <3>1, <3>2, <3>3
  <2>3. Rounds(f, t)
    BY <1>6 DEF RoundInv
  <2> QED BY <1>1, <1>6, <2>1, <2>2, <2>3, RoundsKept
<1>7. FailuresPaired'
  <2>1. ASSUME NEW f \in Ops, Failing(f)' PROVE \E t \in Ops : Pair(f, t)
    <3> DEFINE F == Len(attempts[f])
               after == After(Snapshot(f), r)
    <3>1. ProcessOf[f] = "FINAL_TEST" /\ attempts'[f][Len(attempts'[f])].result = "FAIL"
      BY <2>1 DEF Failing
    <3>2. r.op \in Ops
      BY DEF Requests
    <3>3. CASE SentTo(r, f)
      <4>1. ~ Pair(r.op, f)
        BY <3>1, <3>2, OfPair
      <4> QED BY <3>2, <3>3, <4>1, SentMakesPair
    <3>4. CASE Failing(f)
      BY <3>4 DEF RoundInv, FailuresPaired
    <3>5. CASE ~ SentTo(r, f) /\ ~ Failing(f)
      <4>1. /\ attempts[f] \in Seq(AttemptRows) /\ F \in Nat \ {0} /\ Current(f) = F
            /\ Len(attempts'[f]) = F
        BY <1>1, <3>5, RowNumbers, AttemptsAfter
      <4>2. F \in 1 .. Len(attempts[f]) /\ attempts'[f][F].result = "FAIL"
            /\ attempts[f][F].result # "FAIL"
        BY <3>1, <3>5, <4>1 DEF Failing
      <4>3. r.op = f /\ attempts'[f][F] = Worked(attempts[f][F], after, r)
        BY <1>1, <4>1, <4>2, AttemptsAfter
      <4>4. attempts[f][F] \in AttemptRows
        BY <4>1, <4>2, ElementOfSeq
      <4>5. after.result = "FAIL"
        <5> HIDE DEF after
        <5> QED BY <4>2, <4>3, <4>4 DEF Worked, AttemptRows
      <4>6. r.type = "FAIL"
        <5>1. Snapshot(f).result # "FAIL"
          BY <1>1, <4>1, <4>2, SnapshotReplays
        <5>2. after.result = IF IsVerdict(r) THEN r.type ELSE Snapshot(f).result
          BY DEF After
        <5> QED BY <4>5, <5>1, <5>2
      <4>7. SentBack(r)
        BY <3>1, <4>3, <4>6 DEF SentBack, TriggersRework
      <4>8. PICK t \in Running(f, "TUNING") : TRUE
        BY <4>3, <4>7 DEF Accept
      <4>9. t \in Ops /\ SentTo(r, t)
        BY <4>3, <4>7, <4>8 DEF SentTo, Sends, Running
      <4> QED BY <4>3, <4>7, <4>9, SentMakesPair
    <3> QED BY <3>3, <3>4, <3>5
  <2>2. \A f, t : Pair(f, t)' <=> Pair(f, t)
    BY DEF Pair, Running
  <2> QED BY <2>1, <2>2 DEF FailuresPaired
<1> QED BY <1>2, <1>4, <1>5, <1>6, <1>7 DEF RoundInv

LEMMA RoundNext ==
  ASSUME TunedThenTested
  PROVE  LoopInv /\ RoundInv /\ [Next]_vars => RoundInv'
<1> SUFFICES ASSUME LoopInv, RoundInv, [Next]_vars PROVE RoundInv'
  OBVIOUS
<1>1. LoopInv'
  BY LoopNext
<1>2. CASE Next
  <2>1. PICK r \in Requests : r.id = Len(events) + 1 /\ Accept(r)
    BY <1>2 DEF Next
  <2> QED BY <1>1, <2>1, RoundStep
<1>3. CASE UNCHANGED vars
  BY <1>3 DEF RoundInv, Numbered, OnlyPairs, FailuresPaired, Failing, Pair, Running, Rounds, Indices, vars
<1> QED BY <1>2, <1>3

LEMMA RowsInit == Init => RowFacts
<1> SUFFICES ASSUME Init PROVE EndedWhenDone /\ FirstsPlain
  BY IInvInit DEF RowFacts
<1>1. \A o \in Ops : attempts[o] = <<NewAttempt("NONE", None, None)>>
                     /\ operation[o].state = "WAITING" /\ operation[o].current = 1
  BY DEF Init
<1>2. \A o \in Ops : DOMAIN attempts[o] = {1} /\ attempts[o][1].endedAt = NoTime
                     /\ attempts[o][1].role = "NONE" /\ attempts[o][1].event = None
  BY <1>1 DEF NewAttempt
<1>3. \A o \in Ops : StateOf(o, 1) = "WAITING"
  BY <1>1 DEF StateOf, Current
<1> QED BY <1>2, <1>3 DEF EndedWhenDone, FirstsPlain

LEMMA PlainKept ==
  ASSUME RowFacts, NEW r \in Requests, Accept(r)
  PROVE  FirstsPlain'
<1> SUFFICES ASSUME NEW o \in Ops, NEW n \in DOMAIN attempts'[o]
             PROVE  /\ attempts'[o][n].role = "NONE" <=> n = 1
                    /\ n = 1 => attempts'[o][n].event = None
  BY DEF FirstsPlain
<1>1. /\ Len(attempts[o]) \in Nat \ {0} /\ DOMAIN attempts[o] = 1 .. Len(attempts[o])
      /\ attempts'[o] \in Seq(AttemptRows)
      /\ Len(attempts'[o]) = IF SentTo(r, o) THEN Len(attempts[o]) + 1 ELSE Len(attempts[o])
  BY RowNumbers, AttemptsAfter DEF RowFacts
<1>2. n \in 1 .. Len(attempts'[o])
  <2>1. DOMAIN attempts'[o] = 1 .. Len(attempts'[o])
    BY <1>1
  <2> QED BY <2>1
<1>3. CASE n \in 1 .. Len(attempts[o])
  BY <1>1, <1>3, CauseKept DEF RowFacts, FirstsPlain
<1>4. CASE n \notin 1 .. Len(attempts[o])
  <2>1. n = Len(attempts[o]) + 1 /\ SentTo(r, o) /\ n # 1
    BY <1>1, <1>2, <1>4
  <2>2. attempts'[o][n] = Cause(r)
    BY <2>1, AttemptsAfter DEF RowFacts
  <2>3. Cause(r).role # "NONE"
    BY DEF Cause, NewAttempt
  <2> QED BY <2>1, <2>2, <2>3
<1> QED BY <1>3, <1>4

LEMMA RowsNext == RowFacts /\ [Next]_vars => RowFacts'
<1>1. RowFacts /\ [Next]_vars => IInv'
  BY IInvNext DEF RowFacts
<1>2. RowFacts /\ Next => EndedWhenDone' /\ FirstsPlain'
  BY EndedKept, PlainKept DEF Next
<1>3. RowFacts /\ UNCHANGED vars => EndedWhenDone' /\ FirstsPlain'
  BY DEF RowFacts, EndedWhenDone, FirstsPlain, StateOf, Current, vars
<1> QED BY <1>1, <1>2, <1>3 DEF RowFacts

LEMMA DatesKept == DatesOK /\ Told => DatesOK'
<1> SUFFICES ASSUME DatesOK, NEW x \in External, NEW expected \in Nat \cup {NoTime},
                    NEW actual \in Nat \cup {NoTime}, Save(x, expected, actual)
             PROVE  DatesOK'
  BY DEF Told
<1> QED BY DEF DatesOK, Save

-----------------------------------------------------------------------------
(* What is true of the shop floor and of the other teams                    *)

ShopInv == LoopInv /\ RowFacts /\ DatesOK

(* The attempts of every unit, and the dates of every external step, are      *)
(* consistent whatever the shop floor reports and the manager states          *)
(* (persist_work_event beside save_lot_external_step_state).                 *)
THEOREM ShopInvariant == ShopSpec => []ShopInv
<1>1. ShopInit => ShopInv
  <2>1. InitExternal => DatesOK
    BY DEF InitExternal, DatesOK, NoDates
  <2> QED BY <2>1, LoopInit, RowsInit DEF ShopInit, ShopInv
<1>2. ShopInv /\ [ShopNext]_<<vars, external>> => ShopInv'
  <2> SUFFICES ASSUME ShopInv, [ShopNext]_<<vars, external>> PROVE ShopInv'
    OBVIOUS
  <2>1. [Next]_vars
    BY DEF ShopNext, vars
  <2>2. LoopInv' /\ RowFacts'
    BY <2>1, LoopNext, RowsNext DEF ShopInv
  <2>3. Told \/ UNCHANGED external
    BY DEF ShopNext
  <2>4. DatesOK'
    BY <2>3, DatesKept DEF ShopInv, DatesOK
  <2> QED BY <2>2, <2>4 DEF ShopInv
<1> QED BY <1>1, <1>2, PTL DEF ShopSpec

LEMMA ShopRows == ShopInv => RowFacts /\ DatesOK
BY DEF ShopInv

(* Whatever the manager has stated, a forecast from the full bundle lets no    *)
(* work end before an external step in front of it is over                   *)
(* (load_lot_external_barriers, build_full_lot_forecast_inputs).             *)
THEOREM ExternalStepsHonoured == ShopSpec => []FullForecastHonoured
BY ShopInvariant, ShopRows, FullHonoured, PTL

(* No gate is forecast for later than the end of the LOT                      *)
(* (forecast_result.py).                                                    *)
THEOREM LotEndCoversGates == ShopSpec => []EndCoversGates
BY ShopInvariant, ShopRows, EndCovers, PTL

(* A ready forecast is URGENT exactly when a unit passes a step, or another    *)
(* team ends one, at the planned instant of its gate or later                *)
(* (risk_engine.py over forecast_result.py).                                *)
THEOREM LotUrgentWhenLate == ShopSpec => []UrgentWhenLate
BY ShopInvariant, ShopRows, LateIsUrgent, PTL

(* In a routing that tunes each unit once and then tests it, the rounds of     *)
(* rework are paired by the failure that caused them                         *)
(* (_stage_rework_after_event).                                             *)
THEOREM RoundsPaired == ASSUME TunedThenTested PROVE ShopSpec => [](ShopInv /\ RoundInv)
<1>1. ShopInit => RoundInv
  BY RoundInit DEF ShopInit
<1>2. ShopInv /\ RoundInv /\ [ShopNext]_<<vars, external>> => RoundInv'
  <2>1. [ShopNext]_<<vars, external>> => [Next]_vars
    BY DEF ShopNext, vars
  <2> QED BY <2>1, RoundNext DEF ShopInv
<1> QED BY <1>1, <1>2, ShopInvariant, PTL DEF ShopSpec

(* The causes of rework in a unit                                           *)

LEMMA EventNamed ==
  ASSUME Numbered, NEW id \in Indices
  PROVE  EventOf(id) = events[id] /\ Recorded(id)
<1>1. \A i \in Indices : events[i].id = i
  BY DEF Numbered
<1>2. (CHOOSE i \in Indices : events[i].id = id) = id
  BY <1>1
<1> QED BY <1>1, <1>2 DEF EventOf, Recorded

LEMMA RecordsAre ==
  ASSUME IInv, NEW u
  PROVE  \A r : r \in Records(u) <=>
                  \E o \in OpsOf(u) : \E n \in 1 .. Len(attempts[o]) : r = <<o, n>>
<1>1. \A o \in OpsOf(u) : DOMAIN attempts[o] = 1 .. Len(attempts[o])
  BY RowNumbers DEF OpsOf
<1> QED BY <1>1 DEF Records

LEMMA OnlyTheyRepeat ==
  ASSUME IInv, RoundInv, NEW f \in Ops, NEW t \in Ops, Pair(f, t),
         NEW o \in OpsOf(UnitOf[f]), Len(attempts[o]) > 1
  PROVE  o \in {f, t}
<1>1. o \in Ops
  BY DEF OpsOf
<1>2. PICK q \in Ops : Pair(o, q) \/ Pair(q, o)
  BY <1>1 DEF RoundInv, OnlyPairs
<1> QED BY <1>1, <1>2, OfPair

LEMMA RepairsOfPair ==
  ASSUME IInv, RoundInv, NEW f \in Ops, NEW t \in Ops, Pair(f, t)
  PROVE  \A r : r \in Repairs(UnitOf[f]) <=>
                  \/ \E n \in 2 .. Len(attempts[f]) : r = <<f, n>>
                  \/ \E n \in 2 .. Len(attempts[t]) : r = <<t, n>>
<1> DEFINE u == UnitOf[f]
<1>1. Len(attempts[f]) \in Nat /\ Len(attempts[t]) \in Nat
  BY RowNumbers
<1>2. f \in OpsOf(u) /\ t \in OpsOf(u)
  BY OfPair
<1>3. \A r : r \in Records(u) <=>
               \E o \in OpsOf(u) : \E n \in 1 .. Len(attempts[o]) : r = <<o, n>>
  BY RecordsAre
<1> HIDE DEF u
<1>4. ASSUME NEW r, r \in Repairs(u)
      PROVE  \/ \E n \in 2 .. Len(attempts[f]) : r = <<f, n>>
             \/ \E n \in 2 .. Len(attempts[t]) : r = <<t, n>>
  <2>1. r \in Records(u) /\ r[2] # 1
    BY <1>4 DEF Repairs
  <2>2. PICK o \in OpsOf(u) : \E n \in 1 .. Len(attempts[o]) : r = <<o, n>>
    BY <1>3, <2>1
  <2>3. PICK n \in 1 .. Len(attempts[o]) : r = <<o, n>>
    BY <2>2
  <2>4. Len(attempts[o]) \in Nat
    BY RowNumbers DEF OpsOf
  <2>5. n \in 2 .. Len(attempts[o]) /\ Len(attempts[o]) > 1
    BY <2>1, <2>3, <2>4
  <2>6. o \in {f, t}
    BY <2>5, OnlyTheyRepeat DEF u
  <2> QED BY <2>3, <2>5, <2>6
<1>5. ASSUME NEW o \in {f, t}, NEW n \in 2 .. Len(attempts[o])
      PROVE  <<o, n>> \in Repairs(u)
  <2>1. n \in 1 .. Len(attempts[o]) /\ n # 1 /\ o \in OpsOf(u)
    BY <1>1, <1>2
  <2>2. <<o, n>> \in Records(u)
    BY <1>3, <2>1
  <2> QED BY <2>1, <2>2 DEF Repairs
<1> QED BY <1>4, <1>5 DEF u

LEMMA PairRounds ==
  ASSUME LoopInv, RoundInv, NEW f \in Ops, NEW t \in Ops, Pair(f, t)
  PROVE  /\ InStep(f, t) /\ Rounds(f, t)
         /\ Len(attempts[f]) \in Nat \ {0} /\ Len(attempts[t]) \in Nat \ {0}
<1>1. IInv
  BY DEF LoopInv
<1> QED BY <1>1, LoopPairs, RowNumbers DEF LoopInv, RoundInv

(* The failure of the test before it is the cause of a round, and of no other. *)
LEMMA CauseOfRound ==
  ASSUME LoopInv, RoundInv, NEW f \in Ops, NEW t \in Ops, Pair(f, t),
         NEW n \in 2 .. Len(attempts[t])
  PROVE  LET id == attempts[t][n].event
         IN /\ id \in Indices /\ EventOf(id) = events[id] /\ events[id].type = "FAIL"
            /\ SourceOf(id) = <<f, n - 1>> /\ n - 1 \in 1 .. Len(attempts[f])
            /\ id \in Causes(UnitOf[f])
            /\ \A m \in 2 .. Len(attempts[t]) : attempts[t][m].event = id => m = n
            /\ \A r : r \in Group(UnitOf[f], id) <=>
                        r = <<t, n>> \/ (n <= Len(attempts[f]) /\ r = <<f, n>>)
<1> DEFINE id == attempts[t][n].event
           F == Len(attempts[f])
           T == Len(attempts[t])
           u == UnitOf[f]
<1>0. IInv /\ Numbered
  BY DEF LoopInv, RoundInv
<1>1. /\ F \in Nat \ {0} /\ T \in {F, F + 1} /\ Rounds(f, t) /\ n \in Nat /\ n <= T
  BY PairRounds DEF InStep
<1>2. /\ id \in Indices /\ events[id].type = "FAIL" /\ events[id].op = f
      /\ events[id].attempt = n - 1
  BY <1>1 DEF Rounds
<1>3. EventOf(id) = events[id]
  BY <1>0, <1>2, EventNamed
<1>4. SourceOf(id) = <<f, n - 1>> /\ n - 1 \in 1 .. F
  BY <1>1, <1>2, <1>3 DEF SourceOf
<1>5. \A m \in 2 .. T : attempts[t][m].event = id => m = n
  <2>1. ASSUME NEW m \in 2 .. T, attempts[t][m].event = id PROVE m = n
    <3>1. events[attempts[t][m].event].attempt = m - 1
      BY <1>1 DEF Rounds
    <3>2. m \in Nat /\ m - 1 = n - 1
      BY <1>2, <2>1, <3>1
    <3> QED BY <1>1, <3>2
  <2> QED BY <2>1
<1>6. \A m \in 2 .. F : m \in 2 .. T /\ attempts[f][m].event = attempts[t][m].event
  BY <1>1 DEF Rounds
<1>7. \A r : r \in Repairs(u) <=>
               \/ \E m \in 2 .. F : r = <<f, m>>
               \/ \E m \in 2 .. T : r = <<t, m>>
  BY <1>0, RepairsOfPair
<1> HIDE DEF id, F, T, u
<1>8. \A o, m : Row(<<o, m>>) = attempts[o][m]
  BY DEF Row
<1>9. \A m : Row(<<f, m>>) = attempts[f][m] /\ Row(<<t, m>>) = attempts[t][m]
  BY <1>8
<1>10. ASSUME NEW r, r \in Group(u, id)
       PROVE  r = <<t, n>> \/ (n <= F /\ r = <<f, n>>)
  <2>1. r \in Repairs(u) /\ Row(r).event = id
    BY <1>10 DEF Group
  <2>2. CASE \E m \in 2 .. F : r = <<f, m>>
    <3>1. PICK m \in 2 .. F : r = <<f, m>>
      BY <2>2
    <3>2. m = n /\ m <= F
      BY <1>1, <1>5, <1>6, <1>9, <2>1, <3>1
    <3> QED BY <3>1, <3>2
  <2>3. CASE \E m \in 2 .. T : r = <<t, m>>
    BY <1>5, <1>9, <2>1, <2>3
  <2> QED BY <1>7, <2>1, <2>2, <2>3
<1>11. <<t, n>> \in Group(u, id)
  <2>1. n \in 2 .. T /\ Row(<<t, n>>).event = id
    BY <1>9 DEF T, id
  <2>2. <<t, n>> \in Repairs(u)
    BY <1>7, <2>1
  <2> QED BY <2>1, <2>2 DEF Group
<1>12. ASSUME n <= F PROVE <<f, n>> \in Group(u, id)
  <2>1. n \in 2 .. F
    BY <1>1, <1>12
  <2>2. Row(<<f, n>>).event = id
    BY <1>6, <1>9, <2>1 DEF id
  <2>3. <<f, n>> \in Repairs(u)
    BY <1>7, <2>1
  <2> QED BY <2>2, <2>3 DEF Group
<1>13. id \in Causes(u)
  BY <1>11 DEF Group, Causes
<1> QED BY <1>2, <1>3, <1>4, <1>5, <1>10, <1>11, <1>12, <1>13 DEF id, F, T, u

(* Every cause is one of a round.                                           *)
LEMMA RoundOfCause ==
  ASSUME LoopInv, RoundInv, NEW f \in Ops, NEW t \in Ops, Pair(f, t),
         NEW id \in Causes(UnitOf[f])
  PROVE  \E n \in 2 .. Len(attempts[t]) : id = attempts[t][n].event
<1> DEFINE u == UnitOf[f]
           F == Len(attempts[f])
           T == Len(attempts[t])
<1>1. PICK r \in Repairs(u) : Row(r).event = id
  BY DEF Causes
<1>2. /\ F \in Nat \ {0} /\ T \in {F, F + 1} /\ Rounds(f, t)
  BY PairRounds DEF InStep
<1>3. \/ \E n \in 2 .. F : r = <<f, n>>
      \/ \E n \in 2 .. T : r = <<t, n>>
  BY RepairsOfPair DEF LoopInv
<1>4. CASE \E n \in 2 .. F : r = <<f, n>>
  <2>1. PICK n \in 2 .. F : r = <<f, n>>
    BY <1>4
  <2>2. n \in 2 .. T /\ attempts[f][n].event = attempts[t][n].event
    BY <1>2 DEF Rounds
  <2>3. Row(r) = attempts[f][n]
    BY <2>1 DEF Row
  <2> QED BY <1>1, <2>2, <2>3
<1>5. CASE \E n \in 2 .. T : r = <<t, n>>
  <2>1. PICK n \in 2 .. T : r = <<t, n>>
    BY <1>5
  <2>3. Row(r) = attempts[t][n]
    BY <2>1 DEF Row
  <2> QED BY <1>1, <2>3
<1> QED BY <1>3, <1>4, <1>5

(* A unit without rework.                                                   *)
LEMMA NoCauses ==
  ASSUME IInv, RoundInv, NEW u, NEW id \in Causes(u)
  PROVE  \E f, t \in Ops : Pair(f, t) /\ UnitOf[f] = u
<1>1. PICK r \in Repairs(u) : TRUE
  BY DEF Causes
<1>2. r \in Records(u) /\ r[2] # 1
  BY DEF Repairs
<1>3. PICK o \in OpsOf(u) : \E n \in 1 .. Len(attempts[o]) : r = <<o, n>>
  BY <1>2, RecordsAre
<1>4. o \in Ops /\ UnitOf[o] = u
  BY DEF OpsOf
<1>5. Len(attempts[o]) > 1
  <2>1. PICK n \in 1 .. Len(attempts[o]) : r = <<o, n>>
    BY <1>3
  <2>2. Len(attempts[o]) \in Nat
    BY <1>4, RowNumbers
  <2> QED BY <1>2, <2>1, <2>2
<1>6. PICK q \in Ops : Pair(o, q) \/ Pair(q, o)
  BY <1>4, <1>5 DEF RoundInv, OnlyPairs
<1> QED BY <1>4, <1>6, OfPair

(* What a failure causes is unresolved exactly while it is the latest one.      *)
LEMMA UnresolvedRound ==
  ASSUME LoopInv, RoundInv, NEW f \in Ops, NEW t \in Ops, Pair(f, t),
         NEW n \in 2 .. Len(attempts[t])
  PROVE  Unresolved(UnitOf[f], attempts[t][n].event) <=> n > Len(attempts[f])
<1> DEFINE id == attempts[t][n].event
           u == UnitOf[f]
           F == Len(attempts[f])
<1>1. F \in Nat /\ n \in Nat /\ Len(attempts[t]) \in Nat /\ n >= 2
  BY PairRounds
<1>2. \A r : r \in Group(u, id) <=> r = <<t, n>> \/ (n <= F /\ r = <<f, n>>)
  BY CauseOfRound
<1>3. Row(<<t, n>>).role = "TUNING_REWORK"
  BY PairRounds DEF Rounds, Row
<1>4. n <= F => Row(<<f, n>>).role = "FINAL_TEST_RETEST"
  <2> SUFFICES ASSUME n <= F PROVE Row(<<f, n>>).role = "FINAL_TEST_RETEST"
    OBVIOUS
  <2>1. n \in 2 .. F
    BY <1>1
  <2> QED BY <2>1, PairRounds DEF Rounds, Row
<1> HIDE DEF id, u
<1>5. "TUNING_REWORK" \in Roles(u, id)
  <2>1. <<t, n>> \in Group(u, id)
    BY <1>2
  <2> QED BY <1>3, <2>1 DEF Roles
<1>6. "FINAL_TEST_RETEST" \in Roles(u, id) <=> n <= F
  <2>1. ASSUME n <= F PROVE "FINAL_TEST_RETEST" \in Roles(u, id)
    <3>1. <<f, n>> \in Group(u, id)
      BY <1>2, <2>1
    <3> QED BY <1>4, <2>1, <3>1 DEF Roles
  <2>2. ASSUME "FINAL_TEST_RETEST" \in Roles(u, id) PROVE n <= F
    <3>1. PICK r \in Group(u, id) : Row(r).role = "FINAL_TEST_RETEST"
      BY <2>2 DEF Roles
    <3>2. r # <<t, n>>
      BY <1>3, <3>1
    <3> QED BY <1>2, <3>2
  <2> QED BY <2>1, <2>2
<1>7. ~ n <= F <=> n > F
  BY <1>1
<1> QED BY <1>5, <1>6, <1>7 DEF Unresolved, id, u

(* What is not done is left to be scheduled unless a failed test of its unit    *)
(* stands before it.                                                        *)
LEMMA OpenUnlessFailed ==
  ASSUME TunedThenTested, LoopInv, RoundInv, NEW o \in Ops, operation[o].state # "COMPLETED"
  PROVE  <<o, Current(o)>> \in SchedulerCurrent(UnitOf[o]) <=> ~ FailedTest(UnitOf[o], StepOf[o])
<1> DEFINE u == UnitOf[o]
           r == <<o, Current(o)>>
<1>0. IInv
  BY DEF LoopInv
<1>1. /\ Current(o) = Len(attempts[o]) /\ Len(attempts[o]) \in Nat \ {0} /\ o \in OpsOf(u)
      /\ StepOf[o] \in Nat
  BY <1>0, RowNumbers, ProjectionAssumption DEF OpsOf
<1>2. r \in Records(u) /\ Unfinished(r)
  <2>1. Current(o) \in 1 .. Len(attempts[o])
    BY <1>1
  <2>2. r \in Records(u)
    BY <1>0, <1>1, <2>1, RecordsAre
  <2> QED BY <2>2 DEF Unfinished, IsCurrent
<1>3. r \in Blocked(u) <=>
        /\ Current(o) = 1
        /\ \E id \in Causes(u) : Unresolved(u, id) /\ StepOf[o] > StepOf[SourceOf(id)[1]]
  BY <1>2 DEF Blocked
<1>4. ASSUME FailedTest(u, StepOf[o]) PROVE r \in Blocked(u)
  <2>1. PICK f \in OpsOf(u) : /\ ProcessOf[f] = "FINAL_TEST" /\ StepOf[f] < StepOf[o]
                              /\ attempts[f][Len(attempts[f])].result = "FAIL"
    BY <1>4 DEF FailedTest
  <2>2. f \in Ops /\ UnitOf[f] = u
    BY DEF OpsOf
  <2>3. PICK t \in Ops : Pair(f, t)
    BY <2>1, <2>2 DEF RoundInv, FailuresPaired, Failing
  <2>4. StepOf[f] \in Nat /\ StepOf[t] \in Nat /\ StepOf[t] < StepOf[f]
    BY <2>2, <2>3, OfPair, ProjectionAssumption DEF TunedThenTested
  <2>5. o \notin {f, t}
    BY <1>1, <2>1, <2>4
  <2>6. Current(o) = 1
    <3>1. ~ Len(attempts[o]) > 1
      BY <1>0, <1>1, <2>2, <2>3, <2>5, OnlyTheyRepeat
    <3> DEFINE n == Len(attempts[o])
    <3>2. n \in Nat \ {0} /\ ~ n > 1 /\ Current(o) = n
      BY <1>1, <3>1
    <3> HIDE DEF n
    <3> QED BY <3>2
  <2> DEFINE T == Len(attempts[t])
             id == attempts[t][T].event
  <2>7. T = Len(attempts[f]) + 1 /\ Len(attempts[f]) \in Nat \ {0}
    BY <2>1, <2>2, <2>3, PairRounds DEF Rounds
  <2>8. T \in 2 .. Len(attempts[t]) /\ T > Len(attempts[f])
    BY <2>7
  <2> HIDE DEF T
  <2>9. Unresolved(u, id)
    BY <2>2, <2>3, <2>8, UnresolvedRound
  <2>10. id \in Causes(u) /\ SourceOf(id)[1] = f
    BY <2>2, <2>3, <2>8, CauseOfRound
  <2> QED BY <1>3, <2>1, <2>4, <1>1, <2>6, <2>9, <2>10
<1>5. ASSUME r \in Blocked(u) PROVE FailedTest(u, StepOf[o])
  <2>1. PICK id \in Causes(u) : Unresolved(u, id) /\ StepOf[o] > StepOf[SourceOf(id)[1]]
    BY <1>3, <1>5
  <2>2. PICK f \in Ops : \E t \in Ops : Pair(f, t) /\ UnitOf[f] = u
    BY <1>0, NoCauses
  <2>3. PICK t \in Ops : Pair(f, t) /\ UnitOf[f] = u
    BY <2>2
  <2>4. PICK n \in 2 .. Len(attempts[t]) : id = attempts[t][n].event
    BY <2>3, RoundOfCause
  <2>5. n > Len(attempts[f])
    BY <2>1, <2>3, <2>4, UnresolvedRound
  <2>6. SourceOf(id)[1] = f
    BY <2>3, <2>4, CauseOfRound
  <2>7. /\ Len(attempts[f]) \in Nat \ {0} /\ Len(attempts[t]) \in {Len(attempts[f]), Len(attempts[f]) + 1}
        /\ Len(attempts[t]) > Len(attempts[f]) => attempts[f][Len(attempts[f])].result = "FAIL"
    BY <2>3, PairRounds DEF InStep
  <2>8. attempts[f][Len(attempts[f])].result = "FAIL"
    BY <2>4, <2>5, <2>7
  <2>9. f \in OpsOf(u) /\ ProcessOf[f] = "FINAL_TEST" /\ StepOf[f] \in Nat
    BY <2>3, OfPair, ProjectionAssumption
  <2> QED BY <1>1, <2>1, <2>6, <2>8, <2>9 DEF FailedTest
<1>6. r \in SchedulerCurrent(u) <=> r \notin Blocked(u)
  BY <1>2 DEF SchedulerCurrent
<1> QED BY <1>4, <1>5, <1>6

LEMMA HeldDownstream ==
  ASSUME TunedThenTested
  PROVE  LoopInv /\ RoundInv => DownstreamHeld
<1> SUFFICES ASSUME LoopInv, RoundInv, NEW u \in Units, NEW f \in OpsOf(u), NEW o \in OpsOf(u),
                    ProcessOf[f] = "FINAL_TEST", StepOf[o] > StepOf[f],
                    operation[o].state # "COMPLETED"
             PROVE  <<o, 1>> \in SchedulerCurrent(u) <=>
                      attempts[f][Len(attempts[f])].result # "FAIL"
  BY DEF DownstreamHeld
<1>1. f \in Ops /\ o \in Ops /\ UnitOf[f] = u /\ UnitOf[o] = u
  BY DEF OpsOf
<1>2. StepOf[f] \in Nat /\ StepOf[o] \in Nat
  BY <1>1, ProjectionAssumption
<1>3. FailedTest(u, StepOf[o]) <=> attempts[f][Len(attempts[f])].result = "FAIL"
  <2>1. \A p \in OpsOf(u) : ProcessOf[p] = "FINAL_TEST" => p = f
    BY <1>1 DEF OpsOf, TunedThenTested
  <2> QED BY <1>2, <2>1 DEF FailedTest
<1>4. <<o, Current(o)>> \in SchedulerCurrent(u) <=> ~ FailedTest(u, StepOf[o])
  BY <1>1, OpenUnlessFailed
<1>5. Current(o) = 1
  <2>1. Current(o) = Len(attempts[o]) /\ Len(attempts[o]) \in Nat \ {0}
    BY <1>1, RowNumbers DEF LoopInv
  <2>2. ASSUME Len(attempts[o]) > 1 PROVE FALSE
    <3>1. PICK q \in Ops : Pair(o, q) \/ Pair(q, o)
      BY <1>1, <2>2 DEF RoundInv, OnlyPairs
    <3>2. ProcessOf[o] \in {"FINAL_TEST", "TUNING"}
      BY <1>1, <3>1, OfPair
    <3>3. ProcessOf[o] = "FINAL_TEST" => o = f
      BY <1>1 DEF TunedThenTested
    <3>4. ProcessOf[o] = "TUNING" => StepOf[o] < StepOf[f]
      BY <1>1 DEF TunedThenTested
    <3> QED BY <1>2, <3>2, <3>3, <3>4
  <2> DEFINE n == Len(attempts[o])
  <2>3. n \in Nat \ {0} /\ ~ n > 1 /\ Current(o) = n
    BY <2>1, <2>2
  <2> HIDE DEF n
  <2> QED BY <2>3
<1> QED BY <1>3, <1>4, <1>5

-----------------------------------------------------------------------------
(* Gates are given a date when they are to be reached                        *)

(* An operation that counts for its gate: done and, if tested, passed; or      *)
(* still to be done with no failed test before it.                          *)
Reaches(o) ==
  IF operation[o].state = "COMPLETED"
  THEN ProcessOf[o] = "FINAL_TEST" => attempts[o][Len(attempts[o])].result = "PASS"
  ELSE ~ FailedTest(UnitOf[o], StepOf[o])

LEMMA ReachesOrOpen ==
  ASSUME TunedThenTested, ShopInv, RoundInv, NEW asOf \in AsOfs,
         NEW end \in LiveSchedules(asOf), NEW o \in Ops
  PROVE  Reaches(o) <=> Settled(o) \/ <<o, Current(o)>> \in DOMAIN end
<1> DEFINE r == <<o, Current(o)>>
<1>1. RowFacts /\ LoopInv
  BY ShopRows DEF ShopInv
<1>2. DOMAIN end = Open
  BY LiveEnds
<1>3. CASE operation[o].state = "COMPLETED"
  <2>1. r \notin DOMAIN end
    BY <1>2, <1>3, OpenIsCurrent
  <2>2. CurrentRow(o).endedAt # NoTime /\ CurrentRow(o) = attempts[o][Len(attempts[o])]
    BY <1>1, <1>3, CurrentRowOf DEF CurrentRow
  <2> QED BY <1>3, <2>1, <2>2 DEF Reaches, Settled
<1>4. CASE operation[o].state # "COMPLETED"
  <2>1. ~ Settled(o)
    BY <1>4 DEF Settled
  <2>2. r \in SchedulerCurrent(UnitOf[o]) <=> ~ FailedTest(UnitOf[o], StepOf[o])
    BY <1>1, <1>4, OpenUnlessFailed
  <2>3. r \in Open <=> r \in SchedulerCurrent(UnitOf[o])
    <3>1. UnitOf[o] \in Units
      BY DEF Units
    <3>2. ASSUME NEW u \in Units, r \in SchedulerCurrent(u) PROVE u = UnitOf[o]
      <4>1. r \in Records(u)
        BY <3>2 DEF SchedulerCurrent
      <4>2. PICK p \in OpsOf(u) : \E n \in DOMAIN attempts[p] : r = <<p, n>>
        BY <4>1 DEF Records
      <4>3. p = o
        BY <4>2
      <4> QED BY <4>3 DEF OpsOf
    <3> QED BY <3>1, <3>2 DEF Open
  <2> QED BY <1>2, <1>4, <2>1, <2>2, <2>3 DEF Reaches
<1> QED BY <1>3, <1>4

LEMMA DatesOfGates ==
  ASSUME TunedThenTested, SameRouting
  PROVE  ShopInv /\ RoundInv => GateDated
<1> SUFFICES ASSUME ShopInv, RoundInv, NEW asOf \in AsOfs, NEW end \in LiveSchedules(asOf),
                    NEW s \in Gates
             PROVE  Dated(s, end) <=> /\ s \in External => external[s] # NoDates
                                      /\ \A o \in Required(s) : Reaches(o)
  BY DEF GateDated, Reaches, Required
<1>1. RowFacts /\ DatesOK
  BY ShopRows
<1>2. CASE s \in External
  <2>1. Required(s) = {}
    BY <1>2, ExternalAssumption DEF Required
  <2>2. s \in Barriers <=> external[s] # NoDates
    BY <1>1, <1>2, Finishes
  <2> QED BY <1>2, <2>1, <2>2 DEF Dated
<1>3. CASE s \notin External
  <2>1. PICK g \in Ops : StepOf[g] = s
    BY <1>3 DEF Gates
  <2>2. \A o \in Required(s) : o \in Ops /\ StepOf[o] = s
    BY DEF Required
  <2>3. \A o \in Required(s) : Reaches(o) <=> UnitOf[o] \in Covered(s, end)
    BY <1>1, <2>2, CoveredUnit, ReachesOrOpen
  <2>4. \A u \in Units : \E o \in Required(s) : UnitOf[o] = u
    <3>1. ASSUME NEW u \in Units PROVE \E o \in Required(s) : UnitOf[o] = u
      <4>1. PICK p \in OpsOf(u) : StepOf[p] = s
        BY <2>1 DEF SameRouting
      <4> QED BY <4>1 DEF OpsOf, Required
    <3> QED BY <3>1
  <2>5. \A o \in Required(s) : UnitOf[o] \in Units
    BY <2>2 DEF Units
  <2>6. Units \subseteq Covered(s, end) <=> \A o \in Required(s) : Reaches(o)
    BY <2>3, <2>4, <2>5
  <2> QED BY <1>3, <2>6 DEF Dated, AllReach
<1> QED BY <1>2, <1>3

(* In such a routing, a step after the final test is left to be scheduled      *)
(* exactly when the latest test has not failed                              *)
(* (execution_projection.py).                                               *)
THEOREM DownstreamWaits == ASSUME TunedThenTested PROVE ShopSpec => []DownstreamHeld
<1>1. ShopInv /\ RoundInv => DownstreamHeld
  BY HeldDownstream DEF ShopInv
<1> QED BY <1>1, RoundsPaired, PTL

(* If all units have the same routing too, a gate is given a date exactly       *)
(* when every unit is to reach it (forecast_result.py).                     *)
THEOREM GatesDated == ASSUME TunedThenTested, SameRouting PROVE ShopSpec => []GateDated
BY DatesOfGates, RoundsPaired, PTL

(* The active minutes of an attempt are those the log has it worked on.        *)
LEMMA EffectiveIsLogged ==
  ASSUME IInv, NEW asOf \in AsOfs, NEW o \in Ops, NEW n \in DOMAIN attempts[o]
  PROVE  /\ Effective(<<o, n>>, asOf) = LogMinutes(<<o, n>>, asOf)
         /\ LogMinutes(<<o, n>>, asOf) \in Nat
<1> DEFINE r == <<o, n>>
           snap == Folded(events, o, n).snap
           L == snap.lastAt
           B == WorkedBefore(events, o, n, L)
           W == {t \in 0 .. asOf - 1 : WorkedAt(o, n, t)}
           rows == In(events, o, n)
           begun == {i \in EventsOf(o, n) : events[i].type \in {"START", "RESUME"}}
<1>1. /\ Replayed(events, o, n, snap) /\ snap.active = attempts[o][n].active
      /\ snap.state = StateOf(o, n)
  BY DEF IInv, RowReplays
<1>2. asOf \in Nat /\ MaxTime <= asOf /\ asOf <= MaxTime + 1 /\ MaxTime \in Nat
  BY SomeInstant, AtomicAssumption
<1>3. rows = EventsOf(o, n)
  BY DEF In, EventsOf, Indices
<1>4. \A t \in Times : WorkedAt(o, n, t) <=> At(events, o, n, t)
  BY DEF WorkedAt, At, EventsOf, In, Indices, Begins
<1>5. Effective(r, asOf) =
        attempts[o][n].active + IF n = Current(o) /\ operation[o].state = "RUNNING"
                                THEN asOf - Latest({events[i].at : i \in begun}) ELSE 0
  BY DEF Effective, Row, IsCurrent, State
<1>6. LogMinutes(r, asOf) = Cardinality(W)
  BY DEF LogMinutes
<1> HIDE DEF snap
<1>7. /\ L \in Times \cup {NoTime} /\ snap.active = Cardinality(B)
      /\ (rows # {} => snap.state # "WAITING" /\ \E i \in rows : events[i].at = L)
      /\ (rows = {} => snap.state = "WAITING")
      /\ \A i \in rows : events[i].at <= L
      /\ snap.state = "RUNNING" => \E i \in rows : events[i].at = L /\ Begins(events[i])
      /\ \A t \in Times : L <= t => (At(events, o, n, t) <=> snap.state = "RUNNING")
  <2>1. /\ snap \in Snapshots(Times) /\ (rows = {} => snap = Fresh)
        /\ snap.active = Cardinality(B)
        /\ (rows # {} => snap.state # "WAITING" /\ \E i \in rows : events[i].at = L)
        /\ \A i \in rows : events[i].at <= L
        /\ snap.state = "RUNNING" => \E i \in rows : events[i].at = L /\ Begins(events[i])
        /\ \A t \in Times : L <= t => (At(events, o, n, t) <=> snap.state = "RUNNING")
    BY <1>1 DEF Replayed
  <2>2. Fresh.state = "WAITING"
    BY DEF Fresh
  <2>3. L \in Times \cup {NoTime}
    BY <2>1 DEF Snapshots
  <2> HIDE DEF rows, L, B
  <2> QED BY <2>1, <2>2, <2>3
<1> HIDE DEF rows
<1>8. Times = 0 .. MaxTime /\ NoTime \in Int /\ \A t \in Nat : NoTime < t
  BY DEF Times, NoTime
<1>9. \A t \in Times : t \in B <=> t < L /\ At(events, o, n, t)
  BY DEF WorkedBefore
<1>10. B \subseteq Times /\ IsFiniteSet(B) /\ Cardinality(B) \in Nat
  <2>1. B \subseteq Times
    BY DEF WorkedBefore
  <2>2. IsFiniteSet(Times)
    BY <1>2, <1>8, FS_Interval
  <2>3. IsFiniteSet(B)
    BY <2>1, <2>2, FS_Subset
  <2> QED BY <2>1, <2>3, FS_CardinalityType
<1> HIDE DEF L, B
<1>11. \A t \in W : t \in Times
  BY <1>2, <1>8
<1>12. CASE snap.state # "RUNNING"
  <2>1. ~ (n = Current(o) /\ operation[o].state = "RUNNING")
    BY <1>1, <1>12 DEF StateOf
  <2>2. \A t : t \in W <=> t \in B
    <3>1. ASSUME NEW t \in W PROVE t \in B
      BY <1>4, <1>7, <1>8, <1>9, <1>11, <1>12
    <3>2. ASSUME NEW t \in B PROVE t \in W
      <4>1. t \in Times /\ t < L /\ WorkedAt(o, n, t)
        BY <1>4, <1>9, <1>10, <3>2
      <4>2. t \in 0 .. asOf - 1
        BY <1>2, <1>7, <1>8, <4>1
      <4> QED BY <4>1, <4>2
    <3> QED BY <3>1, <3>2
  <2>3. W = B
    BY <2>2
  <2> HIDE DEF W
  <2> QED BY <1>1, <1>5, <1>6, <1>7, <1>10, <2>1, <2>3
<1>13. CASE snap.state = "RUNNING"
  <2>1. n = Current(o) /\ operation[o].state = "RUNNING"
    BY <1>1, <1>13 DEF StateOf
  <2>2. PICK i \in rows : events[i].at = L /\ Begins(events[i])
    BY <1>7, <1>13
  <2>3. events \in Seq(EventRows)
    BY DEF IInv, TypeOK
  <2>4. \A j \in rows : events[j].at \in Times
    <3>1. \A j \in 1 .. Len(events) : events[j] \in EventRows
      BY <2>3
    <3> QED BY <3>1 DEF In, rows, EventRows
  <2>5. L \in Times
    BY <2>2, <2>4
  <2>6. Latest({events[j].at : j \in begun}) = L
    <3> DEFINE S == {events[j].at : j \in begun}
    <3>1. i \in begun
      BY <1>3, <2>2 DEF Begins
    <3>2. L \in S
      BY <2>2, <3>1
    <3>3. \A t \in S : t \in Int /\ t <= L
      BY <1>3, <1>7, <1>8, <2>4
    <3> HIDE DEF S
    <3> QED BY <3>2, <3>3, LatestIs DEF S
  <2>7. Effective(r, asOf) = Cardinality(B) + (asOf - L)
    BY <1>1, <1>5, <1>7, <2>1, <2>6
  <2> DEFINE C == L .. asOf - 1
  <2>8. L \in Nat /\ L <= asOf /\ asOf - L \in Nat
    BY <1>2, <1>8, <2>5
  <2>9. IsFiniteSet(C) /\ Cardinality(C) = asOf - L
    BY <1>2, <2>8, FS_Interval
  <2>10. W = B \cup C
    <3>1. ASSUME NEW t \in W PROVE t \in B \cup C
      BY <1>2, <1>4, <1>8, <1>9, <1>11, <2>8
    <3>2. ASSUME NEW t \in B PROVE t \in W
      <4>1. t \in Times /\ t < L /\ WorkedAt(o, n, t)
        BY <1>4, <1>9, <1>10, <3>2
      <4>2. t \in 0 .. asOf - 1
        BY <1>2, <1>8, <2>8, <4>1
      <4> QED BY <4>1, <4>2
    <3>3. ASSUME NEW t \in C PROVE t \in W
      <4>1. t \in 0 .. asOf - 1 /\ t \in Times /\ L <= t
        BY <1>2, <1>8, <2>8
      <4> QED BY <1>4, <1>7, <1>13, <4>1
    <3> QED BY <3>1, <3>2, <3>3
  <2>11. B \cap C = {}
    BY <1>8, <1>9, <1>10, <2>8
  <2> HIDE DEF W, C
  <2>12. Cardinality(W) = Cardinality(B) + Cardinality(C)
    <3>1. Cardinality(B \cup C) = Cardinality(B) + Cardinality(C) - Cardinality(B \cap C)
      BY <1>10, <2>9, FS_Union
    <3>2. Cardinality(B \cap C) = 0
      BY <2>11, FS_EmptySet
    <3> QED BY <1>10, <2>8, <2>9, <2>10, <3>1, <3>2
  <2> QED BY <1>6, <1>10, <2>7, <2>8, <2>9, <2>12
<1> QED BY <1>12, <1>13

-----------------------------------------------------------------------------
(* Sums and shares                                                          *)

LEMMA TotalAtMost ==
  ASSUME NEW S, IsFiniteSet(S), NEW f, NEW k \in Nat, NEW c \in Int,
         \A x \in S : f[x] \in Int /\ k * f[x] <= c
  PROVE  Total(f, S) \in Int /\ Cardinality(S) \in Nat /\ k * Total(f, S) <= c * Cardinality(S)
<1> DEFINE F == {T \in SUBSET S : /\ Total(f, T) \in Int /\ Cardinality(T) \in Nat
                                  /\ k * Total(f, T) <= c * Cardinality(T)}
<1>1. {} \in F
  BY TotalEmpty, FS_EmptySet
<1>2. ASSUME NEW T \in SUBSET S, NEW x \in S \ T, T \in F
      PROVE  T \cup {x} \in F
  <2>1. IsFiniteSet(T)
    BY FS_Subset
  <2>2. Cardinality(T \cup {x}) = Cardinality(T) + 1
    BY <2>1, FS_AddElement
  <2>3. \A y \in T \cup {x} : f[y] \in Int
    OBVIOUS
  <2>4. Total(f, T \cup {x}) = f[x] + Total(f, T)
    BY <2>1, <2>3, TotalAdd
  <2> DEFINE s == Total(f, T)
             n == Cardinality(T)
             v == f[x]
  <2>5. s \in Int /\ n \in Nat /\ v \in Int /\ k * s <= c * n /\ k * v <= c
    BY <1>2
  <2> HIDE DEF s, n, v
  <2>6. k * (v + s) = k * v + k * s /\ c * (n + 1) = c * n + c /\ v + s \in Int /\ n + 1 \in Nat
        /\ k * v \in Int /\ k * s \in Int /\ c * n \in Int
    BY <2>5
  <2>7. k * (v + s) <= c * (n + 1)
    BY <2>5, <2>6
  <2>8. Total(f, T \cup {x}) = v + s /\ Cardinality(T \cup {x}) = n + 1
    BY <2>2, <2>4 DEF s, n, v
  <2> QED BY <2>6, <2>7, <2>8
<1> HIDE DEF F
<1>3. S \in F
  BY <1>1, <1>2, FiniteInduction
<1> QED BY <1>3 DEF F

LEMMA TotalConstant ==
  ASSUME NEW S, IsFiniteSet(S), NEW f, NEW c \in Int, \A x \in S : f[x] = c
  PROVE  Total(f, S) = c * Cardinality(S)
<1> DEFINE F == {T \in SUBSET S : Cardinality(T) \in Nat /\ Total(f, T) = c * Cardinality(T)}
<1>1. {} \in F
  BY TotalEmpty, FS_EmptySet
<1>2. ASSUME NEW T \in SUBSET S, NEW x \in S \ T, T \in F
      PROVE  T \cup {x} \in F
  <2>1. IsFiniteSet(T)
    BY FS_Subset
  <2>2. Cardinality(T \cup {x}) = Cardinality(T) + 1
    BY <2>1, FS_AddElement
  <2>6. f[x] = c /\ \A y \in T \cup {x} : f[y] \in Int
    OBVIOUS
  <2>3. Total(f, T \cup {x}) = c + Total(f, T)
    BY <2>1, <2>6, TotalAdd
  <2> DEFINE n == Cardinality(T)
  <2>4. n \in Nat /\ Total(f, T) = c * n
    BY <1>2
  <2> HIDE DEF n
  <2>5. c + c * n = c * (n + 1)
    BY <2>4
  <2> QED BY <2>2, <2>3, <2>4, <2>5 DEF n
<1> HIDE DEF F
<1>3. S \in F
  BY <1>1, <1>2, FiniteInduction
<1> QED BY <1>3 DEF F

LEMMA TotalParts ==
  ASSUME NEW S, IsFiniteSet(S), NEW f, \A x \in S : f[x] \in Int, NEW T \in SUBSET S
  PROVE  Total(f, S) = Total(f, T) + Total(f, S \ T)
<1> DEFINE R == S \ T
           F == {U \in SUBSET R : Total(f, T) \in Int /\ Total(f, T \cup U) = Total(f, T) + Total(f, U)
                                  /\ Total(f, U) \in Int}
<1>0. \A U \in SUBSET S : IsFiniteSet(U) /\ Total(f, U) \in Int
  <2>1. ASSUME NEW U \in SUBSET S PROVE IsFiniteSet(U) /\ Total(f, U) \in Int
    <3>1. IsFiniteSet(U)
      BY FS_Subset
    <3>2. CASE U = {}
      BY <3>1, <3>2, TotalEmpty
    <3>3. CASE U # {}
      <4>1. PICK x \in U : TRUE
        BY <3>3
      <4> QED BY <3>1, <4>1, TotalSplit
    <3> QED BY <3>2, <3>3
  <2> QED BY <2>1
<1>1. {} \in F
  <2>1. T \cup {} = T /\ Total(f, T) \in Int /\ Total(f, {}) = 0
    BY <1>0, TotalEmpty
  <2> QED BY <2>1
<1>2. ASSUME NEW U \in SUBSET R, NEW x \in R \ U, U \in F
      PROVE  U \cup {x} \in F
  <2>1. T \cup (U \cup {x}) = (T \cup U) \cup {x} /\ x \notin T \cup U /\ T \cup U \in SUBSET S
        /\ U \in SUBSET S /\ x \notin U
    OBVIOUS
  <2>2. IsFiniteSet(T \cup U) /\ IsFiniteSet(U)
    BY <1>0, <2>1
  <2>3. Total(f, (T \cup U) \cup {x}) = f[x] + Total(f, T \cup U)
    BY <2>1, <2>2, TotalAdd
  <2>4. Total(f, U \cup {x}) = f[x] + Total(f, U)
    BY <2>1, <2>2, TotalAdd
  <2>5. f[x] \in Int
    OBVIOUS
  <2> QED BY <1>2, <2>1, <2>3, <2>4, <2>5
<1>3. IsFiniteSet(R)
  BY FS_Subset
<1> HIDE DEF F
<1>4. R \in F
  BY <1>1, <1>2, <1>3, FiniteInduction
<1>5. T \cup R = S
  OBVIOUS
<1> QED BY <1>4, <1>5 DEF F

LEMMA Divides ==
  ASSUME NEW a \in Nat, NEW b \in Nat \ {0}, a % b = 0
  PROVE  \E k \in Nat : a = b * k
<1>1. a \div b \in Nat /\ a = b * (a \div b) + (a % b)
  OBVIOUS
<1> QED BY <1>1

LEMMA Exactly ==
  ASSUME NEW b \in Nat \ {0}, NEW z \in Int
  PROVE  (b * z) \div b = z
OBVIOUS

(* Grain is so fine that means over samples and shares of units are whole.      *)
LEMMA FineGrain ==
  ASSUME NEW m \in 1 .. Quantity, NEW n \in 1 .. Quantity, Quantity \in Nat
  PROVE  \E k \in Nat \ {0} : Grain = m * (n * k)
<1>1. Grain % (m * n) = 0 /\ Grain \in Nat \ {0}
  BY ForecastAssumption
<1>2. m * n \in Nat \ {0} /\ m \in Nat \ {0} /\ n \in Nat \ {0}
  OBVIOUS
<1> DEFINE b == m * n
<1>3. b \in Nat \ {0} /\ Grain % b = 0
  BY <1>1, <1>2
<1> HIDE DEF b
<1>4. PICK k \in Nat : Grain = b * k
  BY <1>1, <1>3, Divides
<1>5. Grain = m * (n * k)
  BY <1>2, <1>4 DEF b
<1>6. k # 0
  BY <1>1, <1>3, <1>4
<1> QED BY <1>5, <1>6

LEMMA WorkIsTotal ==
  ASSUME NEW S, IsFiniteSet(S), NEW asOf, \A x \in S : Effective(x, asOf) \in Int
  PROVE  Work(S, asOf) = Total([x \in S |-> Effective(x, asOf)], S)
<1> DEFINE f == [x \in S |-> Effective(x, asOf)]
           v(x) == Effective(x, asOf)
           F(h) == [T \in SUBSET S |-> IF T = {} THEN 0
                      ELSE v(CHOOSE x \in T : TRUE) + h[T \ {CHOOSE x \in T : TRUE}]]
           k == CHOOSE h : h = F(h)
<1>1. \A x \in S : f[x] \in Int /\ v(x) = f[x]
  OBVIOUS
<1>2. Work(S, asOf) = k[S]
  BY DEF Work, MapThenSumSet, MapThenFoldSet
<1> HIDE DEF f, v
<1>3. PICK g \in [SUBSET S -> Int] : AddsUp(g, f, S)
  BY <1>1, AddsUpSome
<1>4. \A T \in SUBSET S : T # {} => v(CHOOSE x \in T : TRUE) = f[CHOOSE x \in T : TRUE]
  BY <1>1
<1>5. g = F(g)
  BY <1>3, <1>4 DEF AddsUp
<1>6. k = F(k)
  <2> HIDE DEF F
  <2> QED BY <1>5
<1> HIDE DEF k
<1>7. AddsUp(k, f, S)
  BY <1>4, <1>6 DEF AddsUp
<1>8. Total(f, S) = k[S]
  BY <1>1, <1>7, TotalSums
<1> QED BY <1>2, <1>8 DEF f

LEMMA LogIsTotal ==
  ASSUME NEW S, IsFiniteSet(S), NEW asOf, \A x \in S : LogMinutes(x, asOf) \in Int
  PROVE  MapThenSumSet(LAMBDA x : LogMinutes(x, asOf), S) =
           Total([x \in S |-> LogMinutes(x, asOf)], S)
<1> DEFINE f == [x \in S |-> LogMinutes(x, asOf)]
           v(x) == LogMinutes(x, asOf)
           F(h) == [T \in SUBSET S |-> IF T = {} THEN 0
                      ELSE v(CHOOSE x \in T : TRUE) + h[T \ {CHOOSE x \in T : TRUE}]]
           k == CHOOSE h : h = F(h)
<1>1. \A x \in S : f[x] \in Int /\ v(x) = f[x]
  OBVIOUS
<1>2. MapThenSumSet(LAMBDA x : LogMinutes(x, asOf), S) = k[S]
  BY DEF MapThenSumSet, MapThenFoldSet
<1> HIDE DEF f, v
<1>3. PICK g \in [SUBSET S -> Int] : AddsUp(g, f, S)
  BY <1>1, AddsUpSome
<1>4. \A T \in SUBSET S : T # {} => v(CHOOSE x \in T : TRUE) = f[CHOOSE x \in T : TRUE]
  BY <1>1
<1>5. g = F(g)
  BY <1>3, <1>4 DEF AddsUp
<1>6. k = F(k)
  <2> HIDE DEF F
  <2> QED BY <1>5
<1> HIDE DEF k
<1>7. AddsUp(k, f, S)
  BY <1>4, <1>6 DEF AddsUp
<1>8. Total(f, S) = k[S]
  BY <1>1, <1>7, TotalSums
<1> QED BY <1>2, <1>8 DEF f

LEMMA UnitsFinite == IsFiniteSet(Units) /\ Quantity \in Nat
<1> DEFINE U == {UnitOf[o] : o \in Ops}
<1>1. IsFiniteSet(U)
  BY ForecastAssumption, FiniteImage
<1>2. IsFiniteSet(U) /\ Cardinality(U) \in Nat
  BY <1>1, FS_CardinalityType
<1> QED BY <1>2 DEF Units, Quantity

LEMMA FirstsAre ==
  ASSUME RowFacts, NEW p
  PROVE  \A r : r \in Firsts(p) <=> \E o \in Ops : ProcessOf[o] = p /\ r = <<o, 1>>
<1>1. ASSUME NEW o \in Ops
      PROVE  \A n : n \in DOMAIN attempts[o] /\ attempts[o][n].role = "NONE" <=> n = 1
  <2>1. DOMAIN attempts[o] = 1 .. Len(attempts[o]) /\ Len(attempts[o]) \in Nat \ {0}
    BY RowNumbers DEF RowFacts
  <2>2. 1 \in DOMAIN attempts[o]
    BY <2>1
  <2> QED BY <2>2 DEF RowFacts, FirstsPlain
<1>2. \A r : r \in Firsts(p) <=>
               \E o \in Ops : ProcessOf[o] = p /\ \E n \in DOMAIN attempts[o] :
                 attempts[o][n].role = "NONE" /\ r = <<o, n>>
  BY DEF Firsts
<1> QED BY <1>1, <1>2

LEMMA FirstsFew ==
  ASSUME OneStepEach, RowFacts, NEW p
  PROVE  IsFiniteSet(Firsts(p)) /\ Cardinality(Firsts(p)) \in Nat
         /\ Cardinality(Firsts(p)) <= Quantity
<1> DEFINE S == Firsts(p)
           h == [r \in S |-> UnitOf[r[1]]]
<1>1. \A r \in S : r[1] \in Ops /\ ProcessOf[r[1]] = p /\ r = <<r[1], 1>>
  BY FirstsAre
<1> HIDE DEF S
<1>2. h \in [S -> Units]
  BY <1>1 DEF Units
<1>3. ASSUME NEW r \in S, NEW q \in S, h[r] = h[q] PROVE r = q
  <2>1. StepOf[r[1]] = StepOf[q[1]] /\ UnitOf[r[1]] = UnitOf[q[1]]
    BY <1>1, <1>3 DEF OneStepEach
  <2>2. r[1] = q[1]
    BY <1>1, <2>1, ProjectionAssumption
  <2> QED BY <1>1, <2>2
<1>4. h \in Injection(S, Units)
  BY <1>2, <1>3 DEF Injection, IsInjective
<1>5. IsFiniteSet(S) /\ Cardinality(S) <= Cardinality(Units)
  BY <1>4, UnitsFinite, FS_Injection
<1>6. Cardinality(S) \in Nat
  BY <1>5, FS_CardinalityType
<1> QED BY <1>5, <1>6 DEF Quantity, S

LEMMA FirstsLogged ==
  ASSUME RowFacts, NEW asOf \in AsOfs, NEW p, NEW r \in Firsts(p)
  PROVE  Effective(r, asOf) = LogMinutes(r, asOf) /\ Effective(r, asOf) \in Nat
<1>1. PICK o \in Ops : r = <<o, 1>>
  BY FirstsAre
<1>2. DOMAIN attempts[o] = 1 .. Len(attempts[o]) /\ Len(attempts[o]) \in Nat \ {0}
  BY RowNumbers DEF RowFacts
<1>3. 1 \in DOMAIN attempts[o]
  BY <1>2
<1> QED BY <1>1, <1>3, EffectiveIsLogged DEF RowFacts

FirstMinutes(p, asOf) == [r \in Firsts(p) |-> Effective(r, asOf)]

LEMMA WorkOfFirsts ==
  ASSUME OneStepEach, RowFacts, NEW asOf \in AsOfs, NEW p, NEW S \in SUBSET Firsts(p)
  PROVE  /\ IsFiniteSet(S) /\ Work(S, asOf) = Total(FirstMinutes(p, asOf), S)
         /\ Work(S, asOf) \in Nat /\ Cardinality(S) \in Nat /\ Cardinality(S) <= Quantity
<1> DEFINE f == FirstMinutes(p, asOf)
           e == [r \in S |-> Effective(r, asOf)]
<1>1. IsFiniteSet(S) /\ Cardinality(S) <= Cardinality(Firsts(p))
  BY FirstsFew, FS_Subset
<1>2. Cardinality(S) \in Nat /\ Cardinality(S) <= Quantity
  <2>1. Cardinality(S) \in Nat
    BY <1>1, FS_CardinalityType
  <2> QED BY <1>1, <2>1, FirstsFew, UnitsFinite
<1>3. \A r \in S : Effective(r, asOf) \in Nat
  BY FirstsLogged
<1>4. Work(S, asOf) = Total(e, S)
  BY <1>1, <1>3, WorkIsTotal
<1>5. \A r \in S : e[r] \in Nat /\ e[r] = f[r]
  BY <1>3 DEF FirstMinutes
<1> HIDE DEF e, f
<1>6. Total(e, S) = Total(f, S) /\ Total(e, S) \in Nat
  BY <1>1, <1>5, TotalSame, TotalNat
<1> QED BY <1>1, <1>2, <1>4, <1>6 DEF f

(* A pace is a multiple of any number of shares; of the samples it is the mean. *)
LEMMA PaceIsWhole ==
  ASSUME OneStepEach, RowFacts, NEW asOf \in AsOfs, NEW p \in Processes,
         NEW n \in 1 .. Quantity
  PROVE  /\ \E z \in Nat : PaceOf(p, asOf) = n * z
         /\ PaceOf(p, asOf) \in Nat \ {0}
         /\ Cardinality(Samples(p, asOf)) >= PaceMinSamples =>
              PaceOf(p, asOf) * Cardinality(Samples(p, asOf)) = Grain * Work(Samples(p, asOf), asOf)
<1> DEFINE S == Samples(p, asOf)
           m == Cardinality(S)
           w == Work(S, asOf)
<1>1. S \in SUBSET Firsts(p) /\ \A r \in S : Effective(r, asOf) > 0
  BY DEF Samples
<1>2. IsFiniteSet(S) /\ w \in Nat /\ m \in Nat /\ m <= Quantity
      /\ w = Total(FirstMinutes(p, asOf), S)
  BY <1>1, WorkOfFirsts
<1>3. Quantity \in Nat /\ PaceMinSamples \in Nat \ {0} /\ Standard[p] \in Nat \ {0} /\ n \in Nat \ {0}
      /\ Grain \in Nat \ {0}
  BY UnitsFinite, ForecastAssumption
<1>4. PaceOf(p, asOf) = IF m < PaceMinSamples THEN Grain * Standard[p] ELSE (Grain * w) \div m
  BY DEF PaceOf
<1>5. CASE m < PaceMinSamples
  <2>1. 1 \in 1 .. Quantity
    BY <1>3
  <2>2. PICK k \in Nat \ {0} : Grain = 1 * (n * k)
    BY <1>3, <2>1, FineGrain
  <2> DEFINE s == Standard[p]
  <2>3. s \in Nat \ {0} /\ PaceOf(p, asOf) = Grain * s
    BY <1>3, <1>4, <1>5
  <2> HIDE DEF s, m
  <2>4. Grain * s = n * (k * s) /\ k * s \in Nat
    BY <1>3, <2>2, <2>3
  <2>5. Grain * s \in Nat \ {0}
    BY <1>3, <2>3
  <2>6. ~ (m >= PaceMinSamples)
    BY <1>2, <1>3, <1>5
  <2>7. \E z \in Nat : PaceOf(p, asOf) = n * z
    BY <2>3, <2>4
  <2>8. PaceOf(p, asOf) \in Nat \ {0}
    BY <2>3, <2>5
  <2> QED BY <2>6, <2>7, <2>8 DEF m
<1>6. CASE ~ m < PaceMinSamples
  <2>1. m \in 1 .. Quantity /\ m \in Nat \ {0}
    BY <1>2, <1>3, <1>6
  <2>2. PICK k \in Nat \ {0} : Grain = m * (n * k)
    BY <1>3, <2>1, FineGrain
  <2>7. w # 0
    <3> DEFINE f == FirstMinutes(p, asOf)
    <3>1. \A r \in S : f[r] \in Nat /\ f[r] >= 1
      BY <1>1, FirstsLogged DEF FirstMinutes
    <3>2. PICK r \in S : TRUE
      <4>1. S # {}
        BY <2>1, FS_EmptySet
      <4> QED BY <4>1
    <3> HIDE DEF f, S
    <3>3. Total(f, S) = f[r] + Total(f, S \ {r})
      BY <1>2, <3>1, <3>2, TotalSplit
    <3>4. Total(f, S \ {r}) \in Nat
      <4>1. IsFiniteSet(S \ {r})
        BY <1>2, FS_RemoveElement
      <4> QED BY <3>1, <4>1, TotalNat
    <3> QED BY <1>2, <3>1, <3>2, <3>3, <3>4 DEF f
  <2> HIDE DEF m, w
  <2>3. Grain * w = m * ((n * k) * w) /\ (n * k) * w \in Int
    BY <1>2, <1>3, <2>1, <2>2
  <2>4. (m * ((n * k) * w)) \div m = (n * k) * w
    BY <2>1, <2>3, Exactly
  <2>5. PaceOf(p, asOf) = (n * k) * w
    BY <1>4, <1>6, <2>3, <2>4
  <2>6. (n * k) * w = n * (k * w) /\ k * w \in Nat
    BY <1>2, <1>3, <2>2
  <2>8. (n * k) * w \in Nat \ {0}
    BY <1>2, <1>3, <2>2, <2>7
  <2>9. ((n * k) * w) * m = m * ((n * k) * w)
    BY <2>1, <2>3
  <2> QED BY <2>3, <2>5, <2>6, <2>8, <2>9 DEF m, w
<1> QED BY <1>5, <1>6

(* The share of an open first attempt                                       *)

LEMMA BundleIs ==
  ASSUME NEW asOf \in AsOfs
  PROVE  /\ \A p \in Processes : Bundle(asOf).pace[p] = Pace(p, asOf)
         /\ \A r \in Open : ProcessOf[r[1]] \in Processes
         /\ Bundle(asOf).waiting = {r \in Open : Waits(Open, r, Pace(ProcessOf[r[1]], asOf), asOf)}
         /\ Bundle(asOf).readiness = "READY" =>
              \A r \in Open : Bundle(asOf).items[r] = Minutes(Open, r, Pace(ProcessOf[r[1]], asOf))
<1>1. \A r \in Open : ProcessOf[r[1]] \in Processes
  BY OpenIsCurrent DEF Processes
<1> DEFINE pace == [p \in Processes |-> Pace(p, asOf)]
           waiting == {r \in Open : Waits(Open, r, pace[ProcessOf[r[1]]], asOf)}
           ready == Bundle(asOf).readiness
<1>2. /\ Bundle(asOf).pace = pace
      /\ Bundle(asOf).waiting = waiting
      /\ Bundle(asOf).items = [r \in IF ready = "READY" THEN Open ELSE {} |->
                                 Minutes(Open, r, pace[ProcessOf[r[1]]])]
  BY DEF Bundle, BundleOf, PacesAt, Open
<1>3. \A p \in Processes : pace[p] = Pace(p, asOf)
  OBVIOUS
<1> HIDE DEF pace, ready
<1> QED BY <1>1, <1>2, <1>3 DEF ready

(* The open first attempts of a process.                                     *)
OpenFirsts(p) == Firsts(p) \cap Open

LEMMA PlainFirst ==
  ASSUME RowFacts, NEW r \in Open
  PROVE  ~ IsRework(r) <=> r \in Firsts(ProcessOf[r[1]])
<1>1. r[1] \in Ops /\ r = <<r[1], r[2]>> /\ r[2] \in DOMAIN attempts[r[1]]
  <2>1. r = <<r[1], Current(r[1])>> /\ r[1] \in Ops /\ r[2] \in DOMAIN attempts[r[1]]
    BY OpenIsCurrent
  <2> QED BY <2>1
<1>2. Row(r).role = "NONE" <=> r[2] = 1
  BY <1>1 DEF RowFacts, FirstsPlain, Row
<1>3. r \in Firsts(ProcessOf[r[1]]) <=> r[2] = 1
  <2>1. ASSUME r[2] = 1 PROVE r \in Firsts(ProcessOf[r[1]])
    <3>1. r = <<r[1], 1>>
      BY <1>1, <2>1
    <3> QED BY <1>1, <3>1, FirstsAre
  <2>2. ASSUME r \in Firsts(ProcessOf[r[1]]) PROVE r[2] = 1
    <3>1. PICK o \in Ops : r = <<o, 1>>
      BY <2>2, FirstsAre
    <3> QED BY <3>1
  <2> QED BY <2>1, <2>2
<1> QED BY <1>2, <1>3 DEF IsRework

LEMMA AlikeAreFirsts ==
  ASSUME OneStepEach, RowFacts, NEW p, NEW r \in OpenFirsts(p)
  PROVE  /\ Alike(Open, r) = OpenFirsts(p) /\ ProcessOf[r[1]] = p /\ p \in Processes
         /\ ~ IsRework(r)
<1>1. \A q \in Firsts(p) : q[1] \in Ops /\ ProcessOf[q[1]] = p
  BY FirstsAre
<1>2. \A q \in Open : q[1] \in Ops
  BY OpenIsCurrent
<1>3. ProcessOf[r[1]] = p /\ r[1] \in Ops /\ r \in Open
  BY <1>1 DEF OpenFirsts
<1>4. ASSUME NEW q \in Alike(Open, r) PROVE q \in OpenFirsts(p)
  <2>1. q \in Open /\ ~ IsRework(q) /\ ProcessOf[q[1]] = p
    BY <1>3 DEF Alike
  <2> QED BY <2>1, PlainFirst DEF OpenFirsts
<1>5. ASSUME NEW q \in OpenFirsts(p) PROVE q \in Alike(Open, r) /\ ~ IsRework(q)
  <2>1. q \in Open /\ q \in Firsts(p) /\ ProcessOf[q[1]] = p /\ q[1] \in Ops
    BY <1>1 DEF OpenFirsts
  <2>2. ~ IsRework(q)
    BY <2>1, PlainFirst
  <2>3. StepOf[q[1]] = StepOf[r[1]]
    BY <1>3, <2>1 DEF OneStepEach
  <2> QED BY <1>3, <2>1, <2>2, <2>3 DEF Alike
<1> QED BY <1>3, <1>4, <1>5 DEF Processes

LEMMA SharesAreWhole ==
  ASSUME OneStepEach, RowFacts, NEW asOf \in AsOfs, NEW p, NEW r \in OpenFirsts(p)
  PROVE  LET n == Cardinality(OpenFirsts(p))
             share == Share(Open, r, Pace(p, asOf))
             balance == PaceOf(p, asOf) * Quantity - Grain * Work(Firsts(p), asOf)
         IN /\ n \in Nat \ {0} /\ share \in Nat /\ balance \in Int
            /\ share = 0 => balance <= 0
            /\ balance > 0 => n * share = balance
            /\ balance <= 0 => share = 0
<1> DEFINE n == Cardinality(OpenFirsts(p))
           share == Share(Open, r, Pace(p, asOf))
           w == Work(Firsts(p), asOf)
           balance == PaceOf(p, asOf) * Quantity - Grain * w
           remaining == Pace(p, asOf).remaining
<1>1. /\ IsFiniteSet(OpenFirsts(p)) /\ n \in Nat /\ n <= Quantity
      /\ OpenFirsts(p) # {} /\ w \in Nat
  BY WorkOfFirsts DEF OpenFirsts
<1>2. n \in Nat \ {0} /\ n \in 1 .. Quantity /\ Quantity \in Nat /\ Grain \in Nat
  <2>1. n # 0
    BY <1>1, FS_EmptySet
  <2> HIDE DEF n
  <2> QED BY <1>1, <2>1, UnitsFinite, ForecastAssumption
<1>3. share = remaining \div n
  BY AlikeAreFirsts DEF Share
<1>4. p \in Processes
  BY AlikeAreFirsts
<1>5. remaining = IF balance > 0 THEN balance ELSE 0
  BY DEF Pace, Budget
<1>6. PICK z \in Nat : PaceOf(p, asOf) = n * z
  BY <1>2, <1>4, PaceIsWhole
<1>7. PICK k \in Nat \ {0} : Grain = n * k
  <2>1. 1 \in 1 .. Quantity
    BY <1>2
  <2>2. PICK k \in Nat \ {0} : Grain = 1 * (n * k)
    BY <1>2, <2>1, FineGrain
  <2> HIDE DEF n
  <2>3. Grain = n * k
    BY <1>2, <2>2
  <2> QED BY <2>3
<1> HIDE DEF n, w
<1> DEFINE y == z * Quantity - k * w
<1>8. balance = n * y /\ y \in Int
  <2>1. (n * z) * Quantity = n * (z * Quantity) /\ (n * k) * w = n * (k * w)
    BY <1>1, <1>2, <1>6, <1>7
  <2>2. z * Quantity \in Int /\ k * w \in Int
    BY <1>1, <1>2
  <2>3. n * (z * Quantity - k * w) = n * (z * Quantity) - n * (k * w)
    BY <1>2, <2>2
  <2> QED BY <1>6, <1>7, <2>1, <2>2, <2>3
<1> HIDE DEF y, balance, remaining, share
<1>9. CASE balance > 0
  <2>1. share = y
    BY <1>2, <1>3, <1>5, <1>8, <1>9, Exactly
  <2>2. y > 0 /\ n * share = balance
    BY <1>2, <1>8, <1>9, <2>1
  <2> QED BY <1>2, <1>8, <1>9, <2>1, <2>2 DEF n, share, balance, w
<1>10. CASE ~ balance > 0
  <2>1. share = 0
    BY <1>2, <1>3, <1>5, <1>10
  <2>2. balance \in Int
    BY <1>2, <1>8
  <2> QED BY <1>2, <1>10, <2>1, <2>2 DEF n, share, balance, w
<1> QED BY <1>9, <1>10

LEMMA WorkIsConserved ==
  ASSUME OneStepEach
  PROVE  RowFacts => WorkConserved
<1> SUFFICES ASSUME RowFacts, NEW asOf \in AsOfs, Bundle(asOf).readiness = "READY",
                    NEW p \in Processes, OpenFirsts(p) # {},
                    \A r \in OpenFirsts(p) : State(r) # "HOLD"
             PROVE  MapThenSumSet(LAMBDA r : Bundle(asOf).items[r], OpenFirsts(p))
                      + Grain * MapThenSumSet(LAMBDA r : LogMinutes(r, asOf), Firsts(p))
                    = Bundle(asOf).pace[p].pace * Quantity
  BY BundleParts DEF WorkConserved, OpenFirsts
<1> DEFINE S == OpenFirsts(p)
           n == Cardinality(S)
           w == Work(Firsts(p), asOf)
           items == Bundle(asOf).items
           balance == PaceOf(p, asOf) * Quantity - Grain * w
<1>1. PICK r \in S : TRUE
  OBVIOUS
<1>2. Bundle(asOf).waiting = {} /\ Bundle(asOf).pace[p].pace = PaceOf(p, asOf)
  <2>1. Bundle(asOf).pace[p] = Pace(p, asOf) /\ Bundle(asOf).waiting = {}
    BY BundleParts, BundleIs
  <2>2. Pace(p, asOf).pace = PaceOf(p, asOf)
    BY DEF Pace
  <2> QED BY <2>1, <2>2
<1>3. ASSUME NEW q \in S
      PROVE  items[q] = Share(Open, q, Pace(p, asOf)) /\ Share(Open, q, Pace(p, asOf)) > 0
  <2>1. q \in Open /\ ~ IsRework(q) /\ ProcessOf[q[1]] = p /\ State(q) # "HOLD"
    BY AlikeAreFirsts DEF OpenFirsts
  <2>2. items[q] = Minutes(Open, q, Pace(p, asOf)) /\ ~ Waits(Open, q, Pace(p, asOf), asOf)
    BY <1>2, <2>1, BundleIs
  <2>3. NormalMinutes(Open, q, Pace(p, asOf)) = Share(Open, q, Pace(p, asOf))
    BY <2>1 DEF NormalMinutes
  <2>4. items[q] = Share(Open, q, Pace(p, asOf)) /\ ~ Share(Open, q, Pace(p, asOf)) <= 0
    BY <2>1, <2>2, <2>3 DEF Minutes, Waits
  <2>5. Share(Open, q, Pace(p, asOf)) \in Nat
    BY SharesAreWhole
  <2> DEFINE share == Share(Open, q, Pace(p, asOf))
  <2> HIDE DEF share
  <2> QED BY <2>4, <2>5 DEF share
<1> DEFINE c == Share(Open, r, Pace(p, asOf))
<1>4. \A q \in S : items[q] = c
  <2>1. \A q \in S : Alike(Open, q) = S
    BY AlikeAreFirsts
  <2> QED BY <1>3, <2>1 DEF Share
<1>5. n \in Nat \ {0} /\ c \in Nat /\ balance \in Int /\ n * c = balance
  <2>1. /\ n \in Nat \ {0} /\ c \in Nat /\ balance \in Int
        /\ balance > 0 => n * c = balance
        /\ balance <= 0 => c = 0
    BY SharesAreWhole
  <2>2. c > 0
    BY <1>3
  <2> HIDE DEF n, c, balance
  <2> QED BY <2>1, <2>2
<1>6. IsFiniteSet(S) /\ IsFiniteSet(Firsts(p))
  BY WorkOfFirsts DEF OpenFirsts
<1>7. MapThenSumSet(LAMBDA q : items[q], S) = c * n
  <2>1. Total(items, S) = c * n
    <3> HIDE DEF items, S, c
    <3> QED BY <1>4, <1>5, <1>6, TotalConstant DEF n
  <2> QED BY <2>1 DEF Total
<1>8. MapThenSumSet(LAMBDA q : LogMinutes(q, asOf), Firsts(p)) = w
  <2> DEFINE F == Firsts(p)
             e == [q \in F |-> LogMinutes(q, asOf)]
             f == FirstMinutes(p, asOf)
  <2>1. \A q \in F : LogMinutes(q, asOf) \in Int /\ e[q] \in Int /\ e[q] = f[q]
    BY FirstsLogged DEF FirstMinutes
  <2>2. w = Total(f, F)
    BY WorkOfFirsts
  <2>3. MapThenSumSet(LAMBDA q : LogMinutes(q, asOf), F) = Total(e, F)
    BY <1>6, <2>1, LogIsTotal
  <2> HIDE DEF e, f
  <2>4. Total(e, F) = Total(f, F)
    BY <1>6, <2>1, TotalSame
  <2> QED BY <2>2, <2>3, <2>4
<1>9. c * n + Grain * w = PaceOf(p, asOf) * Quantity
  <2> DEFINE a == PaceOf(p, asOf) * Quantity
             b == Grain * w
  <2>1. a \in Int /\ b \in Int
    <3>1. w \in Nat /\ Quantity \in Nat /\ Grain \in Nat
      BY WorkOfFirsts, UnitsFinite, ForecastAssumption
    <3>2. PaceOf(p, asOf) \in Nat
      <4>1. n \in 1 .. Quantity
        <5>1. n \in Nat /\ n <= Quantity
          BY WorkOfFirsts DEF OpenFirsts
        <5> QED BY <1>5, <3>1, <5>1
      <4> QED BY <4>1, PaceIsWhole
    <3> HIDE DEF w
    <3> QED BY <3>1, <3>2
  <2>2. n * c = a - b
    BY <1>5
  <2>3. c * n = n * c
    BY <1>5
  <2> HIDE DEF a, b
  <2>4. c * n + b = a
    BY <2>1, <2>2, <2>3
  <2> QED BY <2>4 DEF a, b
<1> QED BY <1>2, <1>7, <1>8, <1>9

LEMMA NotDone ==
  ASSUME RowFacts, NEW p, NEW q \in Firsts(p)
  PROVE  Row(q).endedAt = NoTime <=> Unfinished(q)
<1>1. PICK o \in Ops : q = <<o, 1>>
  BY FirstsAre
<1>2. Len(attempts[o]) \in Nat \ {0} /\ DOMAIN attempts[o] = 1 .. Len(attempts[o])
  BY RowNumbers DEF RowFacts
<1>3. 1 \in DOMAIN attempts[o]
  BY <1>2
<1>4. attempts[o][1].endedAt = NoTime <=> StateOf(o, 1) # "COMPLETED"
  BY <1>3 DEF RowFacts, EndedWhenDone, Times, NoTime
<1>5. Row(q) = attempts[o][1] /\ (Unfinished(q) <=> 1 = Current(o) /\ operation[o].state # "COMPLETED")
  BY <1>1 DEF Row, Unfinished, IsCurrent
<1> QED BY <1>4, <1>5 DEF StateOf

(* With the samples at the pace on average and the rest below it, the budget    *)
(* is not used up.                                                          *)
LEMMA BudgetLeft ==
  ASSUME OneStepEach, RowFacts, NEW asOf \in AsOfs, NEW p \in Processes,
         NEW r \in Firsts(p), Unfinished(r),
         Cardinality(Samples(p, asOf)) >= PaceMinSamples,
         \A q \in Firsts(p) : Unfinished(q) => Grain * Effective(q, asOf) < PaceOf(p, asOf)
  PROVE  PaceOf(p, asOf) * Quantity - Grain * Work(Firsts(p), asOf) > 0
<1> DEFINE S == Samples(p, asOf)
           F == Firsts(p)
           R == F \ S
           f == FirstMinutes(p, asOf)
           w == Work(F, asOf)
           pace == PaceOf(p, asOf)
           s == Cardinality(S)
           t == Cardinality(R)
           x == Total(f, S)
           y == Total(f, R)
<1>1. S \in SUBSET F /\ R \in SUBSET F /\ F \in SUBSET F
  BY DEF Samples
<1>2. /\ IsFiniteSet(F) /\ IsFiniteSet(S) /\ IsFiniteSet(R) /\ Cardinality(F) <= Quantity
      /\ s \in Nat /\ t \in Nat /\ x \in Nat /\ y \in Nat /\ w = Total(f, F) /\ w \in Nat
      /\ Work(S, asOf) = x /\ Cardinality(F) \in Nat
  BY <1>1, WorkOfFirsts
<1>3. Quantity \in Nat /\ Grain \in Nat
  BY UnitsFinite, ForecastAssumption
<1>4. 1 \in 1 .. Quantity
  <2>1. Cardinality(F) # 0
    BY <1>2, FS_EmptySet
  <2> HIDE DEF F
  <2> QED BY <1>2, <1>3, <2>1
<1>5. pace \in Nat \ {0} /\ pace * s = Grain * x
  BY <1>2, <1>4, PaceIsWhole
<1>6. \A q \in F : f[q] = Effective(q, asOf) /\ f[q] \in Nat
  BY FirstsLogged DEF FirstMinutes
<1>7. \A q \in F : q \in S <=> ~ Unfinished(q) /\ f[q] > 0
  <2>1. \A q \in F : q \in S <=> Row(q).endedAt # NoTime /\ f[q] > 0
    BY <1>6 DEF Samples
  <2> QED BY <2>1, NotDone
<1>8. r \in R
  BY <1>7
<1>9. \A q \in R : f[q] \in Int /\ Grain * f[q] <= pace - 1
  <2>1. ASSUME NEW q \in R PROVE f[q] \in Int /\ Grain * f[q] <= pace - 1
    <3>1. q \in F /\ f[q] \in Nat
      BY <1>6
    <3>2. CASE Unfinished(q)
      <4>1. Grain * f[q] < pace
        BY <1>6, <3>1, <3>2
      <4> DEFINE g == Grain * f[q]
      <4>2. g \in Nat
        BY <1>3, <3>1
      <4> HIDE DEF g
      <4> QED BY <1>5, <3>1, <4>1, <4>2 DEF g
    <3>3. CASE ~ Unfinished(q)
      <4>1. f[q] = 0
        BY <1>7, <3>1, <3>3
      <4> QED BY <1>3, <1>5, <4>1
    <3> QED BY <3>2, <3>3
  <2> QED BY <2>1
<1>10. w = x + y
  <2>1. \A q \in F : f[q] \in Int
    BY <1>6
  <2> HIDE DEF f, F, S
  <2> QED BY <1>1, <1>2, <2>1, TotalParts
<1>11. t # 0
  <2> HIDE DEF R
  <2> QED BY <1>2, <1>8, FS_EmptySet
<1>12. s + t = Cardinality(F)
  <2>1. S \cup R = F /\ S \cap R = {}
    BY <1>1
  <2>2. Cardinality(S \cup R) = Cardinality(S) + Cardinality(R) - Cardinality(S \cap R)
    BY <1>2, FS_Union
  <2>3. Cardinality(S \cap R) = 0
    BY <2>1, FS_EmptySet
  <2> HIDE DEF R, S, F
  <2>4. Cardinality(F) = Cardinality(S) + Cardinality(R) - 0
    BY <2>1, <2>2, <2>3
  <2> QED BY <1>2, <2>4
<1>13. Grain * y <= (pace - 1) * t
  <2> HIDE DEF f, R, pace
  <2> DEFINE c == pace - 1
  <2>1. c \in Int /\ \A q \in R : f[q] \in Int /\ Grain * f[q] <= c
    BY <1>5, <1>9
  <2> HIDE DEF c
  <2>2. Grain * Total(f, R) <= c * Cardinality(R)
    BY <1>2, <1>3, <2>1, TotalAtMost
  <2> QED BY <2>2 DEF c
<1> HIDE DEF s, t, x, y, w, pace, F
<1>14. Grain * w = Grain * x + Grain * y
  BY <1>2, <1>3, <1>10
<1>15. (pace - 1) * t = pace * t - t
  BY <1>2, <1>5
<1>16. pace * (s + t) = pace * s + pace * t /\ pace * (s + t) <= pace * Quantity
  BY <1>2, <1>3, <1>5, <1>12
<1> DEFINE a == Grain * x
           b == Grain * y
           c == pace * t
           d == pace * Quantity
<1>17. a \in Int /\ b \in Int /\ c \in Int /\ d \in Int
  BY <1>2, <1>3, <1>5
<1>18. Grain * w = a + b /\ b <= c - t /\ a + c <= d
  BY <1>5, <1>13, <1>14, <1>15, <1>16
<1> HIDE DEF a, b, c, d
<1>19. d - Grain * w > 0
  BY <1>2, <1>11, <1>17, <1>18
<1> QED BY <1>19 DEF d, pace, w, F

LEMMA WaitHasCause ==
  ASSUME OneStepEach
  PROVE  RowFacts => WaitsForCause
<1> SUFFICES ASSUME RowFacts, NEW asOf \in AsOfs, NEW r \in Bundle(asOf).waiting
             PROVE  LET p == ProcessOf[r[1]]
                    IN \/ Cardinality(Samples(p, asOf)) < PaceMinSamples
                       \/ \E q \in Firsts(p) :
                            Unfinished(q) /\ Grain * LogMinutes(q, asOf) >= Bundle(asOf).pace[p].pace
  BY DEF WaitsForCause
<1> DEFINE p == ProcessOf[r[1]]
           pace == PaceOf(p, asOf)
<1>1. r \in Open /\ Waits(Open, r, Pace(p, asOf), asOf) /\ p \in Processes
  BY BundleIs
<1>2. r \in OpenFirsts(p) /\ r \in Firsts(p) /\ Unfinished(r)
  <2>1. ~ IsRework(r)
    BY <1>1 DEF Waits
  <2>2. Unfinished(r)
    <3>1. r = <<r[1], Current(r[1])>> /\ operation[r[1]].state # "COMPLETED"
      BY <1>1, OpenIsCurrent
    <3> QED BY <3>1 DEF Unfinished, IsCurrent
  <2> QED BY <1>1, <2>1, <2>2, PlainFirst DEF OpenFirsts
<1>3. Bundle(asOf).pace[p].pace = pace
  <2>1. Bundle(asOf).pace[p] = Pace(p, asOf)
    BY <1>1, BundleIs
  <2>2. Pace(p, asOf).pace = PaceOf(p, asOf)
    BY DEF Pace
  <2> QED BY <2>1, <2>2
<1>4. Pace(p, asOf).pace = pace
  BY DEF Pace
<1>5. \A q \in Firsts(p) : LogMinutes(q, asOf) = Effective(q, asOf) /\ Effective(q, asOf) \in Nat
  BY FirstsLogged
<1>6. /\ Cardinality(Samples(p, asOf)) \in Nat /\ PaceMinSamples \in Nat /\ Grain \in Nat \ {0}
      /\ Standard[p] \in Nat \ {0} /\ Quantity \in Nat
  <2>1. Samples(p, asOf) \in SUBSET Firsts(p)
    BY DEF Samples
  <2> QED BY <1>1, <2>1, WorkOfFirsts, ForecastAssumption, UnitsFinite
<1>7. pace \in Nat
  <2>1. Cardinality(OpenFirsts(p)) \in Nat \ {0} /\ Cardinality(OpenFirsts(p)) <= Quantity
    <3>1. OpenFirsts(p) \in SUBSET Firsts(p) /\ OpenFirsts(p) # {}
      BY <1>2 DEF OpenFirsts
    <3>2. IsFiniteSet(OpenFirsts(p)) /\ Cardinality(OpenFirsts(p)) \in Nat
          /\ Cardinality(OpenFirsts(p)) <= Quantity
      BY <3>1, WorkOfFirsts
    <3>3. Cardinality(OpenFirsts(p)) # 0
      BY <3>1, <3>2, FS_EmptySet
    <3> QED BY <3>2, <3>3
  <2>2. Cardinality(OpenFirsts(p)) \in 1 .. Quantity
    <3> DEFINE n == Cardinality(OpenFirsts(p))
    <3>1. n \in Nat \ {0} /\ n <= Quantity
      BY <2>1
    <3> HIDE DEF n
    <3>2. n \in 1 .. Quantity
      BY <1>6, <3>1
    <3> QED BY <3>2 DEF n
  <2> QED BY <1>1, <2>2, PaceIsWhole
<1>8. SUFFICES ASSUME Cardinality(Samples(p, asOf)) >= PaceMinSamples,
                      \A q \in Firsts(p) : Unfinished(q) => Grain * Effective(q, asOf) < pace
               PROVE  FALSE
  <2>1. ASSUME NEW q \in Firsts(p), Unfinished(q), ~ Grain * Effective(q, asOf) < pace
        PROVE  Grain * LogMinutes(q, asOf) >= pace
    <3> DEFINE g == Grain * Effective(q, asOf)
    <3>1. g \in Nat
      BY <1>5, <1>6
    <3>2. ~ g < pace /\ Grain * LogMinutes(q, asOf) = g
      BY <1>5, <2>1
    <3> HIDE DEF g, pace
    <3> QED BY <1>7, <3>1, <3>2
  <2>2. ~ Cardinality(Samples(p, asOf)) >= PaceMinSamples =>
          Cardinality(Samples(p, asOf)) < PaceMinSamples
    <3> DEFINE n == Cardinality(Samples(p, asOf))
    <3>1. n \in Nat
      BY <1>6
    <3> HIDE DEF n
    <3>2. ~ n >= PaceMinSamples => n < PaceMinSamples
      BY <1>6, <3>1
    <3> QED BY <3>2 DEF n
  <2> HIDE DEF pace
  <2> QED BY <1>3, <2>1, <2>2 DEF p
<1>9. ~ Exceeds(r, Pace(p, asOf), asOf)
  <2> DEFINE g == Grain * Effective(r, asOf)
  <2>1. g \in Nat /\ g < pace
    BY <1>2, <1>5, <1>6, <1>8
  <2> HIDE DEF g, pace
  <2>2. ~ g > pace
    BY <1>7, <2>1
  <2>3. Active(r, asOf) = Effective(r, asOf)
    BY SomeInstant DEF Active, NoTime
  <2> QED BY <1>4, <2>2, <2>3 DEF Exceeds, g
<1>10. NormalMinutes(Open, r, Pace(p, asOf)) <= 0
  BY <1>1, <1>9 DEF Waits
<1>11. CASE State(r) = "HOLD"
  <2>1. NormalMinutes(Open, r, Pace(p, asOf)) = Grain * Standard[p]
    BY <1>11 DEF NormalMinutes
  <2>2. Grain * Standard[p] > 0
    BY <1>6
  <2>3. Grain * Standard[p] \in Nat
    BY <1>6
  <2> HIDE DEF p
  <2> QED BY <1>10, <2>1, <2>2, <2>3
<1>12. CASE State(r) # "HOLD"
  <2> DEFINE share == Share(Open, r, Pace(p, asOf))
             balance == PaceOf(p, asOf) * Quantity - Grain * Work(Firsts(p), asOf)
  <2>1. NormalMinutes(Open, r, Pace(p, asOf)) = share
    BY <1>12 DEF NormalMinutes
  <2>2. share \in Nat /\ balance \in Int /\ (share = 0 => balance <= 0)
    BY <1>2, SharesAreWhole
  <2>3. balance > 0
    BY <1>1, <1>2, <1>8, BudgetLeft
  <2> HIDE DEF share, balance
  <2> QED BY <1>10, <2>1, <2>2, <2>3
<1> QED BY <1>11, <1>12

(* Rolling the remaining work over the unfinished units neither loses nor       *)
(* invents work, for any number of units (pace_workload.py,                  *)
(* pace_scheduler_adapter.py).                                              *)
THEOREM WorkStaysConserved == ASSUME OneStepEach PROVE ShopSpec => []WorkConserved
BY ShopInvariant, ShopRows, WorkIsConserved, PTL

(* A forecast does not wait for a unit of a process that has its samples        *)
(* unless some unfinished unit has used up its pace (estimate_lot_process_work,*)
(* pace_scheduler_adapter.py).                                              *)
THEOREM WaitingHasCause == ASSUME OneStepEach PROVE ShopSpec => []WaitsForCause
BY ShopInvariant, ShopRows, WaitHasCause, PTL

-----------------------------------------------------------------------------
(* Sequences                                                                *)

LEMMA SeqOfOne ==
  ASSUME NEW x
  PROVE  SetToSeq({x}) = <<x>>
<1>1. Cardinality({x}) = 1 /\ 1 .. 1 = {1}
  BY FS_Singleton
<1>2. \A f \in [1 .. 1 -> {x}] : IsInjective(f) /\ f = <<x>>
  <2>1. ASSUME NEW f \in [1 .. 1 -> {x}] PROVE IsInjective(f) /\ f = <<x>>
    <3>1. DOMAIN f = {1} /\ f[1] = x
      BY <1>1
    <3>2. IsInjective(f)
      BY <3>1 DEF IsInjective
    <3>3. f \in Seq({x}) /\ Len(f) = 1
      OBVIOUS
    <3> QED BY <3>1, <3>2, <3>3
  <2> QED BY <2>1
<1>3. \E f \in [1 .. 1 -> {x}] : IsInjective(f)
  <2>1. [i \in 1 .. 1 |-> x] \in [1 .. 1 -> {x}]
    OBVIOUS
  <2> QED BY <1>2, <2>1
<1> QED BY <1>1, <1>2, <1>3 DEF SetToSeq

LEMMA SeqOfNone == SetToSeq({}) = <<>>
<1>1. Cardinality({}) = 0 /\ 1 .. 0 = {}
  BY FS_EmptySet
<1>2. \A f \in [1 .. 0 -> {}] : IsInjective(f) /\ f = <<>>
  <2>1. ASSUME NEW f \in [1 .. 0 -> {}] PROVE IsInjective(f) /\ f = <<>>
    <3>1. DOMAIN f = {}
      BY <1>1
    <3>2. IsInjective(f)
      BY <3>1 DEF IsInjective
    <3>3. f \in Seq({}) /\ Len(f) = 0
      OBVIOUS
    <3> QED BY <3>2, <3>3
  <2> QED BY <2>1
<1>3. \E f \in [1 .. 0 -> {}] : IsInjective(f)
  <2>1. [i \in 1 .. 0 |-> {}] \in [1 .. 0 -> {}]
    BY <1>1
  <2> QED BY <1>2, <2>1
<1> QED BY <1>1, <1>2, <1>3 DEF SetToSeq

LEMMA SeqOfSet ==
  ASSUME NEW S, IsFiniteSet(S)
  PROVE  SetToSeq(S) \in Seq(S)
<1> DEFINE n == Cardinality(S)
<1>1. n \in Nat /\ ExistsBijection(1 .. n, S)
  BY FS_CardinalityType
<1>2. PICK f \in Bijection(1 .. n, S) : TRUE
  BY <1>1 DEF ExistsBijection
<1>3. f \in [1 .. n -> S] /\ IsInjective(f)
  BY <1>2 DEF Bijection, Injection, IsInjective
<1>4. SetToSeq(S) \in [1 .. n -> S]
  BY <1>3 DEF SetToSeq
<1> HIDE DEF n
<1> QED BY <1>1, <1>4

(* new is order with group put behind source.                                *)
Spliced(new, order, source, group) ==
  \E k \in 1 .. Len(order) :
    /\ order[k] = source
    /\ \A i \in 1 .. k : new[i] = order[i]
    /\ \A i \in 1 .. Len(group) : new[k + i] = group[i]
    /\ \A i \in k + 1 .. Len(order) : new[Len(group) + i] = order[i]

LEMMA InsertAfterIs ==
  ASSUME NEW X, NEW order \in Seq(X), NEW group \in Seq(X), NEW source,
         source \in ToSet(order)
  PROVE  /\ InsertAfter(order, source, group) \in Seq(X)
         /\ Len(InsertAfter(order, source, group)) = Len(order) + Len(group)
         /\ Spliced(InsertAfter(order, source, group), order, source, group)
<1> DEFINE L == Len(order)
           G == Len(group)
           k == CHOOSE k \in DOMAIN order : order[k] = source
<1>1. k \in DOMAIN order /\ order[k] = source
  BY DEF ToSet
<1>2. k \in 1 .. L /\ L \in Nat /\ G \in Nat
  BY <1>1
<1>3. InsertAfter(order, source, group) = SubSeq(order, 1, k) \o group \o SubSeq(order, k + 1, L)
  BY DEF InsertAfter
<1> HIDE DEF k
<1> DEFINE a == SubSeq(order, 1, k)
           b == SubSeq(order, k + 1, L)
<1>4. /\ a \in Seq(X) /\ Len(a) = k /\ \A i \in 1 .. k : a[i] = order[i]
      /\ b \in Seq(X) /\ Len(b) = L - k /\ \A i \in 1 .. L - k : b[i] = order[k + i]
  BY <1>2
<1> HIDE DEF a, b
<1> DEFINE c == a \o group
<1>5. /\ c \in Seq(X) /\ Len(c) = k + G
      /\ \A i \in 1 .. k : c[i] = order[i]
      /\ \A i \in 1 .. G : c[k + i] = group[i]
  <2>1. /\ c \in Seq(X) /\ Len(c) = k + G
        /\ \A i \in 1 .. k + G : c[i] = IF i <= k THEN a[i] ELSE group[i - k]
    BY <1>2, <1>4, ConcatProperties
  <2>2. \A i \in 1 .. k : i \in 1 .. k + G /\ i <= k
    BY <1>2
  <2>3. \A i \in 1 .. G : k + i \in 1 .. k + G /\ ~ k + i <= k /\ (k + i) - k = i
    BY <1>2
  <2> HIDE DEF c
  <2>4. \A i \in 1 .. k : c[i] = order[i]
    BY <1>4, <2>1, <2>2
  <2>5. \A i \in 1 .. G : c[k + i] = group[i]
    BY <2>1, <2>3
  <2> QED BY <2>1, <2>4, <2>5
<1> HIDE DEF c
<1> DEFINE new == c \o b
<1>6. /\ new \in Seq(X) /\ Len(new) = L + G
      /\ \A i \in 1 .. k + G : new[i] = c[i]
      /\ \A i \in 1 .. L - k : new[(k + G) + i] = b[i]
  <2> DEFINE m == k + G
  <2>1. m \in Nat /\ Len(c) = m /\ Len(b) = L - k /\ L - k \in Nat /\ m + (L - k) = L + G
    BY <1>2, <1>4, <1>5
  <2>2. /\ new \in Seq(X) /\ Len(new) = m + (L - k)
        /\ \A i \in 1 .. m + (L - k) : new[i] = IF i <= m THEN c[i] ELSE b[i - m]
    <3>1. c \in Seq(X) /\ b \in Seq(X)
      BY <1>4, <1>5
    <3>2. /\ new \in Seq(X) /\ Len(new) = Len(c) + Len(b)
          /\ \A i \in 1 .. Len(c) + Len(b) : new[i] = IF i <= Len(c) THEN c[i] ELSE b[i - Len(c)]
      BY <3>1, ConcatProperties
    <3> HIDE DEF m, new
    <3> QED BY <2>1, <3>2
  <2> HIDE DEF m, new
  <2>3. \A i \in 1 .. m : i \in 1 .. m + (L - k) /\ i <= m
    BY <2>1
  <2>4. \A i \in 1 .. L - k : m + i \in 1 .. m + (L - k) /\ ~ m + i <= m /\ (m + i) - m = i
    BY <2>1
  <2>5. \A i \in 1 .. m : new[i] = c[i]
    BY <2>2, <2>3
  <2>6. \A i \in 1 .. L - k : new[m + i] = b[i]
    BY <2>2, <2>4
  <2> QED BY <2>1, <2>2, <2>5, <2>6 DEF m
<1>7. InsertAfter(order, source, group) = new
  BY <1>3 DEF new, c, a, b
<1> HIDE DEF new
<1>8. \A i \in 1 .. k : new[i] = order[i]
  BY <1>2, <1>5, <1>6
<1>9. \A i \in 1 .. G : new[k + i] = group[i]
  BY <1>2, <1>5, <1>6
<1>10. \A i \in k + 1 .. L : new[G + i] = order[i]
  <2>1. ASSUME NEW i \in k + 1 .. L PROVE new[G + i] = order[i]
    <3>1. i - k \in 1 .. L - k /\ G + i = (k + G) + (i - k) /\ k + (i - k) = i
      BY <1>2
    <3>2. new[(k + G) + (i - k)] = b[i - k] /\ b[i - k] = order[k + (i - k)]
      BY <1>4, <1>6, <3>1
    <3> QED BY <3>1, <3>2
  <2> QED BY <2>1
<1>11. Spliced(new, order, source, group)
  BY <1>1, <1>2, <1>8, <1>9, <1>10 DEF Spliced
<1> QED BY <1>6, <1>7, <1>11

(* s lists its elements in the order that B relates them in.                 *)
Ascending(s, B) == \A i, j \in DOMAIN s : i < j => <<s[i], s[j]>> \in B

LEMMA AscendsOnce ==
  ASSUME NEW X, NEW s \in Seq(X), NEW B, Ascending(s, B), \A x \in X : <<x, x>> \notin B
  PROVE  /\ \A i, j \in DOMAIN s : s[i] = s[j] => i = j
         /\ IsFiniteSet(ToSet(s)) /\ Len(s) = Cardinality(ToSet(s))
<1> DEFINE I == 1 .. Len(s)
           S == ToSet(s)
           g == [i \in I |-> s[i]]
<1>1. Len(s) \in Nat /\ DOMAIN s = I /\ \A i \in I : s[i] \in X
  OBVIOUS
<1>2. \A i, j \in I : s[i] = s[j] => i = j
  <2>1. ASSUME NEW i \in I, NEW j \in I, s[i] = s[j] PROVE i = j
    <3>1. ~ i < j /\ ~ j < i
      BY <1>1, <2>1 DEF Ascending
    <3> QED BY <1>1, <3>1
  <2> QED BY <2>1
<1>3. S = {s[i] : i \in I}
  BY <1>1 DEF ToSet
<1>4. IsFiniteSet(I) /\ Cardinality(I) = Len(s)
  <2>1. Len(s) \in Int /\ 1 \in Int
    BY <1>1
  <2>2. IsFiniteSet(I) /\ Cardinality(I) = IF 1 > Len(s) THEN 0 ELSE Len(s) - 1 + 1
    BY <2>1, FS_Interval
  <2> QED BY <1>1, <2>2
<1> HIDE DEF I, S
<1>5. g \in [I -> S] /\ (\A x \in S : \E i \in I : g[i] = x) /\ \A i, j \in I : g[i] = g[j] => i = j
  BY <1>2, <1>3
<1> HIDE DEF g
<1>6. g \in Bijection(I, S)
  BY <1>5 DEF Bijection, Injection, Surjection, IsInjective
<1>7. IsFiniteSet(S) /\ Cardinality(S) = Cardinality(I)
  BY <1>4, <1>6, FS_Bijection DEF ExistsBijection
<1> QED BY <1>1, <1>2, <1>4, <1>7 DEF S

LEMMA InsertAscends ==
  ASSUME NEW X, NEW order \in Seq(X), NEW group \in Seq(X), NEW source,
         source \in ToSet(order), NEW B, Ascending(order, B), Ascending(group, B),
         \A x, y, z \in X : <<x, y>> \in B /\ <<y, z>> \in B => <<x, z>> \in B,
         \A x \in ToSet(group) : <<source, x>> \in B,
         \A x \in ToSet(group), z \in ToSet(order) : <<source, z>> \in B => <<x, z>> \in B
  PROVE  LET new == InsertAfter(order, source, group)
         IN /\ new \in Seq(X)
            /\ ToSet(new) = ToSet(order) \cup ToSet(group)
            /\ Ascending(new, B)
<1> DEFINE new == InsertAfter(order, source, group)
           L == Len(order)
           G == Len(group)
<1>1. L \in Nat /\ G \in Nat /\ DOMAIN order = 1 .. L /\ DOMAIN group = 1 .. G
  OBVIOUS
<1>2. new \in Seq(X) /\ Len(new) = L + G /\ Spliced(new, order, source, group)
  BY InsertAfterIs
<1> HIDE DEF new
<1>3. PICK k \in 1 .. L :
        /\ order[k] = source
        /\ \A i \in 1 .. k : new[i] = order[i]
        /\ \A i \in 1 .. G : new[k + i] = group[i]
        /\ \A i \in k + 1 .. L : new[G + i] = order[i]
  BY <1>2 DEF Spliced
<1>4. /\ \A i \in 1 .. L : order[i] \in X /\ order[i] \in ToSet(order)
      /\ \A i \in 1 .. G : group[i] \in X /\ group[i] \in ToSet(group)
      /\ \A x \in ToSet(order) : \E i \in 1 .. L : x = order[i]
      /\ \A x \in ToSet(group) : \E i \in 1 .. G : x = group[i]
  BY <1>1 DEF ToSet
<1>5. DOMAIN new = 1 .. L + G /\ \A x : x \in ToSet(new) <=> \E i \in 1 .. L + G : x = new[i]
  <2>1. DOMAIN new = 1 .. L + G
    BY <1>2
  <2> QED BY <2>1 DEF ToSet
<1> HIDE DEF new, L, G
(* Where the places of the new order come from.                              *)
<1>6. \A i \in 1 .. L + G :
        \/ i \in 1 .. k /\ new[i] = order[i]
        \/ i - k \in 1 .. G /\ new[i] = group[i - k]
        \/ i - G \in k + 1 .. L /\ new[i] = order[i - G]
  <2>1. ASSUME NEW i \in 1 .. L + G
        PROVE  \/ i \in 1 .. k
               \/ i - k \in 1 .. G /\ k + (i - k) = i
               \/ i - G \in k + 1 .. L /\ G + (i - G) = i
    BY <1>1
  <2> QED BY <1>3, <2>1
<1>7. ToSet(new) = ToSet(order) \cup ToSet(group)
  <2>1. ASSUME NEW x \in ToSet(new) PROVE x \in ToSet(order) \cup ToSet(group)
    <3>1. PICK i \in 1 .. L + G : x = new[i]
      BY <1>5, <2>1
    <3>2. 1 .. k \subseteq 1 .. L /\ k + 1 .. L \subseteq 1 .. L
      BY <1>1
    <3> QED BY <1>4, <1>6, <3>1, <3>2
  <2>2. ASSUME NEW i \in 1 .. L PROVE order[i] \in ToSet(new)
    <3>1. i \in 1 .. k \/ i \in k + 1 .. L
      BY <1>1
    <3>2. i \in 1 .. k => i \in 1 .. L + G
      BY <1>1
    <3>3. i \in k + 1 .. L => G + i \in 1 .. L + G
      BY <1>1
    <3> QED BY <1>3, <1>5, <3>1, <3>2, <3>3
  <2>3. ASSUME NEW i \in 1 .. G PROVE group[i] \in ToSet(new)
    <3>1. k + i \in 1 .. L + G
      BY <1>1
    <3> QED BY <1>3, <1>5, <3>1
  <2> QED BY <1>4, <2>1, <2>2, <2>3
<1>8. \A i \in 1 .. k : order[i] = source \/ <<order[i], source>> \in B
  <2>1. ASSUME NEW i \in 1 .. k PROVE order[i] = source \/ <<order[i], source>> \in B
    <3>1. i \in 1 .. L /\ (i = k \/ i < k)
      BY <1>1
    <3> QED BY <1>1, <1>3, <3>1 DEF Ascending
  <2> QED BY <2>1
<1>9. \A i \in k + 1 .. L : <<source, order[i]>> \in B
  <2>1. \A i \in k + 1 .. L : i \in 1 .. L /\ k < i
    BY <1>1
  <2> QED BY <1>1, <1>3, <2>1 DEF Ascending
<1>10. source \in X /\ 1 .. k \subseteq 1 .. L /\ k + 1 .. L \subseteq 1 .. L
  BY <1>1, <1>3, <1>4
<1>11. Ascending(new, B)
  <2> SUFFICES ASSUME NEW i \in 1 .. L + G, NEW j \in 1 .. L + G, i < j
               PROVE  <<new[i], new[j]>> \in B
    BY <1>5 DEF Ascending
  <2>1. i \in Int /\ j \in Int /\ k \in Int
    BY <1>1
  <2>2. CASE i \in 1 .. k /\ new[i] = order[i]
    <3>1. CASE j \in 1 .. k /\ new[j] = order[j]
      <4>1. i \in DOMAIN order /\ j \in DOMAIN order
        BY <1>1, <1>10, <2>2, <3>1
      <4> QED BY <2>2, <3>1, <4>1 DEF Ascending
    <3>2. CASE j - k \in 1 .. G /\ new[j] = group[j - k]
      <4>1. <<source, new[j]>> \in B /\ new[j] \in X /\ new[i] \in X
        BY <1>4, <1>10, <2>2, <3>2
      <4>2. new[i] = source \/ <<new[i], source>> \in B
        BY <1>8, <2>2
      <4> QED BY <1>10, <4>1, <4>2
    <3>3. CASE j - G \in k + 1 .. L /\ new[j] = order[j - G]
      <4>1. <<source, new[j]>> \in B /\ new[j] \in X /\ new[i] \in X
        BY <1>4, <1>9, <1>10, <2>2, <3>3
      <4>2. new[i] = source \/ <<new[i], source>> \in B
        BY <1>8, <2>2
      <4> QED BY <1>10, <4>1, <4>2
    <3> QED BY <1>6, <3>1, <3>2, <3>3
  <2>3. CASE i - k \in 1 .. G /\ new[i] = group[i - k]
    <3>1. ~ j \in 1 .. k
      BY <1>1, <2>1, <2>3
    <3>2. CASE j - k \in 1 .. G /\ new[j] = group[j - k]
      <4>1. i - k < j - k /\ i - k \in DOMAIN group /\ j - k \in DOMAIN group
        BY <1>1, <2>1, <2>3, <3>2
      <4> QED BY <2>3, <3>2, <4>1 DEF Ascending
    <3>3. CASE j - G \in k + 1 .. L /\ new[j] = order[j - G]
      <4>1. new[i] \in ToSet(group) /\ new[j] \in ToSet(order) /\ <<source, new[j]>> \in B
        BY <1>4, <1>9, <1>10, <2>3, <3>3
      <4> QED BY <4>1
    <3> QED BY <1>6, <3>1, <3>2, <3>3
  <2>4. CASE i - G \in k + 1 .. L /\ new[i] = order[i - G]
    <3>1. ~ j \in 1 .. k /\ ~ j - k \in 1 .. G
      BY <1>1, <2>1, <2>4
    <3>2. CASE j - G \in k + 1 .. L /\ new[j] = order[j - G]
      <4>1. i - G < j - G /\ i - G \in 1 .. L /\ j - G \in 1 .. L
        BY <1>1, <2>1, <2>4, <3>2
      <4> QED BY <1>1, <2>4, <3>2, <4>1 DEF Ascending
    <3> QED BY <1>6, <3>1, <3>2
  <2> QED BY <1>6, <2>2, <2>3, <2>4
<1> QED BY <1>2, <1>7, <1>11 DEF new

-----------------------------------------------------------------------------
(* The order of the steps                                                   *)

(* Rework is done where the test f stands, each round behind the one before.   *)
Stage(f, r) == IF r[2] = 1 THEN StepOf[r[1]] ELSE StepOf[f]
Place(f, r) == IF r[2] = 1 THEN 0 ELSE IF r[1] = f THEN 2 * r[2] ELSE 2 * r[2] - 1

Places == Ops \X (Nat \ {0})
Ahead(f) ==
  {p \in Places \X Places :
     \/ Stage(f, p[1]) < Stage(f, p[2])
     \/ Stage(f, p[1]) = Stage(f, p[2]) /\ Place(f, p[1]) < Place(f, p[2])}

LEMMA AheadMeans ==
  ASSUME NEW f \in Ops, NEW r \in Places, NEW q \in Places
  PROVE  /\ Stage(f, r) \in Nat /\ Place(f, r) \in Nat
         /\ <<r, q>> \in Ahead(f) <=>
              \/ Stage(f, r) < Stage(f, q)
              \/ Stage(f, r) = Stage(f, q) /\ Place(f, r) < Place(f, q)
<1>1. r[1] \in Ops /\ r[2] \in Nat \ {0}
  BY DEF Places
<1>2. Stage(f, r) \in Nat
  BY <1>1, ProjectionAssumption DEF Stage
<1>3. 2 * r[2] \in Nat /\ 2 * r[2] - 1 \in Nat
  BY <1>1
<1>4. Place(f, r) \in Nat
  BY <1>3 DEF Place
<1> QED BY <1>2, <1>4 DEF Ahead

LEMMA AheadIsOrder ==
  ASSUME NEW f \in Ops
  PROVE  /\ \A x \in Places : <<x, x>> \notin Ahead(f)
         /\ \A x, y, z \in Places :
              <<x, y>> \in Ahead(f) /\ <<y, z>> \in Ahead(f) => <<x, z>> \in Ahead(f)
<1>1. ASSUME NEW x \in Places PROVE <<x, x>> \notin Ahead(f)
  <2>1. Stage(f, x) \in Nat /\ Place(f, x) \in Nat
    BY AheadMeans
  <2>2. ~ Stage(f, x) < Stage(f, x) /\ ~ Place(f, x) < Place(f, x)
    BY <2>1
  <2> QED BY <2>2, AheadMeans
<1>2. ASSUME NEW x \in Places, NEW y \in Places, NEW z \in Places,
             <<x, y>> \in Ahead(f), <<y, z>> \in Ahead(f)
      PROVE  <<x, z>> \in Ahead(f)
  <2>1. /\ Stage(f, x) \in Nat /\ Stage(f, y) \in Nat /\ Stage(f, z) \in Nat
        /\ Place(f, x) \in Nat /\ Place(f, y) \in Nat /\ Place(f, z) \in Nat
    BY AheadMeans
  <2>2. \/ Stage(f, x) < Stage(f, y)
        \/ Stage(f, x) = Stage(f, y) /\ Place(f, x) < Place(f, y)
    BY <1>2, AheadMeans
  <2>3. \/ Stage(f, y) < Stage(f, z)
        \/ Stage(f, y) = Stage(f, z) /\ Place(f, y) < Place(f, z)
    BY <1>2, AheadMeans
  <2>4. Stage(f, x) < Stage(f, z) \/ (Stage(f, x) = Stage(f, z) /\ Place(f, x) < Place(f, z))
    <3> DEFINE s1 == Stage(f, x)
               s2 == Stage(f, y)
               s3 == Stage(f, z)
               p1 == Place(f, x)
               p2 == Place(f, y)
               p3 == Place(f, z)
    <3>1. s1 \in Nat /\ s2 \in Nat /\ s3 \in Nat /\ p1 \in Nat /\ p2 \in Nat /\ p3 \in Nat
      BY <2>1
    <3>2. (s1 < s2 \/ (s1 = s2 /\ p1 < p2)) /\ (s2 < s3 \/ (s2 = s3 /\ p2 < p3))
      BY <2>2, <2>3
    <3> HIDE DEF s1, s2, s3, p1, p2, p3
    <3>3. s1 < s3 \/ (s1 = s3 /\ p1 < p3)
      BY <3>1, <3>2
    <3> QED BY <3>3 DEF s1, s3, p1, p3
  <2> QED BY <2>4, AheadMeans
<1> QED BY <1>1, <1>2

(* Counting the steps up to one numbers them without a gap.                  *)
Rank(S, o) == Cardinality({p \in S : StepOf[p] <= StepOf[o]})

LEMMA Ranks ==
  ASSUME NEW S \in SUBSET Ops, \A o, p \in S : StepOf[o] = StepOf[p] => o = p
  PROVE  /\ Cardinality(S) \in Nat
         /\ \A o \in S : Rank(S, o) \in 1 .. Cardinality(S)
         /\ \A o, p \in S : StepOf[o] < StepOf[p] <=> Rank(S, o) < Rank(S, p)
         /\ \A k \in 1 .. Cardinality(S) : \E o \in S : Rank(S, o) = k
<1> DEFINE K == Cardinality(S)
           rank == [o \in S |-> Rank(S, o)]
<1>1. IsFiniteSet(S)
  BY ForecastAssumption, FS_Subset
<1>2. K \in Nat
  BY <1>1, FS_CardinalityType
<1>3. \A o \in S : StepOf[o] \in Nat
  BY ProjectionAssumption
<1>4. ASSUME NEW o \in S PROVE Rank(S, o) \in 1 .. K
  <2> DEFINE T == {p \in S : StepOf[p] <= StepOf[o]}
  <2>1. o \in T /\ T \in SUBSET S
    BY <1>3
  <2> HIDE DEF T
  <2>2. IsFiniteSet(T) /\ Cardinality(T) <= K
    BY <1>1, <2>1, FS_Subset
  <2>3. Cardinality(T) \in Nat
    BY <2>2, FS_CardinalityType
  <2>4. Cardinality(T) # 0
    BY <2>1, <2>2, FS_EmptySet
  <2>5. Cardinality(T) \in 1 .. K
    BY <1>2, <2>2, <2>3, <2>4
  <2> QED BY <2>5 DEF Rank, T
<1>5. ASSUME NEW o \in S, NEW p \in S, StepOf[o] < StepOf[p] PROVE Rank(S, o) < Rank(S, p)
  <2> DEFINE T == {q \in S : StepOf[q] <= StepOf[o]}
             U == {q \in S : StepOf[q] <= StepOf[p]}
  <2>1. T \in SUBSET U /\ p \in U /\ p \notin T /\ U \in SUBSET S
    BY <1>3, <1>5
  <2>2. Rank(S, o) = Cardinality(T) /\ Rank(S, p) = Cardinality(U)
    BY DEF Rank
  <2> HIDE DEF T, U
  <2>3. IsFiniteSet(U)
    BY <1>1, <2>1, FS_Subset
  <2>4. IsFiniteSet(T) /\ Cardinality(T) <= Cardinality(U) /\ Cardinality(T) # Cardinality(U)
    BY <2>1, <2>3, FS_Subset
  <2>5. Cardinality(T) \in Nat /\ Cardinality(U) \in Nat
    BY <2>3, <2>4, FS_CardinalityType
  <2> QED BY <2>2, <2>4, <2>5
<1>6. ASSUME NEW o \in S, NEW p \in S, Rank(S, o) < Rank(S, p) PROVE StepOf[o] < StepOf[p]
  <2>1. Rank(S, o) \in Nat /\ Rank(S, p) \in Nat
    BY <1>4
  <2>2. StepOf[o] # StepOf[p]
    <3>1. o # p
      BY <1>6, <2>1
    <3> QED BY <3>1
  <2>3. ~ StepOf[p] < StepOf[o]
    <3>1. ~ Rank(S, p) < Rank(S, o)
      BY <1>6, <2>1
    <3> QED BY <1>5, <3>1
  <2>4. StepOf[o] \in Nat /\ StepOf[p] \in Nat
    BY <1>3
  <2> QED BY <2>2, <2>3, <2>4
<1>7. ASSUME NEW o \in S, NEW p \in S, Rank(S, o) = Rank(S, p) PROVE o = p
  <2>1. Rank(S, o) \in Nat /\ Rank(S, p) \in Nat
    BY <1>4
  <2>2. ~ Rank(S, o) < Rank(S, p) /\ ~ Rank(S, p) < Rank(S, o)
    BY <1>7, <2>1
  <2>3. ~ StepOf[o] < StepOf[p] /\ ~ StepOf[p] < StepOf[o]
    BY <1>5, <2>2
  <2>4. StepOf[o] \in Nat /\ StepOf[p] \in Nat
    BY <1>3
  <2>5. StepOf[o] = StepOf[p]
    BY <2>3, <2>4
  <2> QED BY <2>5
<1> DEFINE I == 1 .. K
<1>8. IsFiniteSet(I) /\ Cardinality(I) = K
  <2>1. K \in Int /\ 1 \in Int
    BY <1>2
  <2> HIDE DEF K
  <2>2. IsFiniteSet(1 .. K) /\ Cardinality(1 .. K) = IF 1 > K THEN 0 ELSE K - 1 + 1
    BY <2>1, FS_Interval
  <2> QED BY <1>2, <2>2
<1> HIDE DEF K, I
<1>9. /\ rank \in [S -> I] /\ \A o \in S : rank[o] = Rank(S, o)
      /\ \A o, p \in S : rank[o] = rank[p] => o = p
  BY <1>4, <1>7 DEF I
<1> HIDE DEF rank
<1>10. rank \in Injection(S, I)
  BY <1>9 DEF Injection, IsInjective
<1>11. rank \in Surjection(S, I)
  BY <1>8, <1>10, FS_Injection DEF K
<1>12. \A k \in I : \E o \in S : Rank(S, o) = k
  BY <1>9, <1>11 DEF Surjection
<1> QED BY <1>2, <1>4, <1>5, <1>6, <1>12 DEF K, I

LEMMA BaseAscends ==
  ASSUME IInv, NEW u, NEW f \in Ops
  PROVE  /\ BaseOrder(u) \in Seq(Records(u))
         /\ ToSet(BaseOrder(u)) = {<<o, 1>> : o \in OpsOf(u)}
         /\ Ascending(BaseOrder(u), Ahead(f))
<1> DEFINE S == OpsOf(u)
           K == Cardinality(S)
           at(k) == FirstBy(S, k)
           base == BaseOrder(u)
<1>1. S \in SUBSET Ops /\ \A o, p \in S : StepOf[o] = StepOf[p] => o = p
  BY ProjectionAssumption DEF OpsOf
<1>2. base = [k \in 1 .. K |-> <<at(k), 1>>]
  BY DEF BaseOrder
<1> HIDE DEF S, base
<1>3. /\ K \in Nat
      /\ \A o \in S : Rank(S, o) \in 1 .. K
      /\ \A o, p \in S : StepOf[o] < StepOf[p] <=> Rank(S, o) < Rank(S, p)
      /\ \A k \in 1 .. K : \E o \in S : Rank(S, o) = k
  BY <1>1, Ranks
<1>4. \A k \in 1 .. K : at(k) \in S /\ Rank(S, at(k)) = k
  BY <1>3 DEF FirstBy, Rank
<1> HIDE DEF at, K
<1>5. \A o \in S : at(Rank(S, o)) = o
  <2>1. ASSUME NEW o \in S PROVE at(Rank(S, o)) = o
    <3> DEFINE p == at(Rank(S, o))
    <3>1. p \in S /\ Rank(S, p) = Rank(S, o) /\ Rank(S, o) \in Nat
      BY <1>3, <1>4
    <3> HIDE DEF p
    <3>2. ~ Rank(S, p) < Rank(S, o) /\ ~ Rank(S, o) < Rank(S, p)
      BY <3>1
    <3>3. ~ StepOf[p] < StepOf[o] /\ ~ StepOf[o] < StepOf[p]
      BY <1>3, <3>1, <3>2
    <3>4. StepOf[p] \in Nat /\ StepOf[o] \in Nat
      BY <1>1, <3>1, ProjectionAssumption
    <3>5. StepOf[p] = StepOf[o]
      BY <3>3, <3>4
    <3> QED BY <1>1, <3>1, <3>5 DEF p
  <2> QED BY <2>1
<1>6. \A o \in S : <<o, 1>> \in Records(u) /\ <<o, 1>> \in Places
  <2>1. ASSUME NEW o \in S PROVE <<o, 1>> \in Records(u) /\ <<o, 1>> \in Places
    <3>1. o \in Ops /\ Len(attempts[o]) \in Nat \ {0}
      BY <1>1, RowNumbers
    <3>2. 1 \in 1 .. Len(attempts[o])
      BY <3>1
    <3>3. <<o, 1>> \in Records(u)
      BY <3>2, RecordsAre DEF S
    <3> QED BY <3>1, <3>3 DEF Places
  <2> QED BY <2>1
<1>7. base \in Seq(Records(u)) /\ DOMAIN base = 1 .. K /\ \A k \in 1 .. K : base[k] = <<at(k), 1>>
  <2>1. \A k \in 1 .. K : <<at(k), 1>> \in Records(u)
    BY <1>4, <1>6
  <2> QED BY <1>2, <1>3, <2>1
<1>8. ToSet(base) = {<<o, 1>> : o \in S}
  <2>1. ASSUME NEW x \in ToSet(base) PROVE x \in {<<o, 1>> : o \in S}
    <3>1. PICK k \in 1 .. K : x = base[k]
      BY <1>7, <2>1 DEF ToSet
    <3> QED BY <1>4, <1>7, <3>1
  <2>2. ASSUME NEW o \in S PROVE <<o, 1>> \in ToSet(base)
    <3>1. Rank(S, o) \in 1 .. K /\ base[Rank(S, o)] = <<o, 1>>
      BY <1>3, <1>5, <1>7
    <3> QED BY <1>7, <3>1 DEF ToSet
  <2> QED BY <2>1, <2>2
<1>9. Ascending(base, Ahead(f))
  <2> SUFFICES ASSUME NEW i \in 1 .. K, NEW j \in 1 .. K, i < j
               PROVE  <<base[i], base[j]>> \in Ahead(f)
    BY <1>7 DEF Ascending
  <2>1. at(i) \in S /\ at(j) \in S /\ Rank(S, at(i)) = i /\ Rank(S, at(j)) = j
    BY <1>4
  <2>2. StepOf[at(i)] < StepOf[at(j)]
    BY <1>3, <2>1
  <2>3. Stage(f, <<at(i), 1>>) < Stage(f, <<at(j), 1>>)
    BY <2>2 DEF Stage
  <2>4. <<at(i), 1>> \in Places /\ <<at(j), 1>> \in Places
    BY <1>6, <2>1
  <2> QED BY <1>7, <2>3, <2>4, AheadMeans
<1> QED BY <1>7, <1>8, <1>9 DEF base, S

(* The tuning and the test of a round, the tuning first.                     *)
RoundOf(f, t, n) ==
  {<<t, n>>} \cup (IF n <= Len(attempts[f]) THEN {<<f, n>>} ELSE {})

LEMMA RoundPlaces ==
  ASSUME LoopInv, RoundInv, NEW f \in Ops, NEW t \in Ops, Pair(f, t),
         NEW n \in 2 .. Len(attempts[t])
  PROVE  /\ n \in Nat /\ n # 1 /\ t # f
         /\ <<t, n>> \in Places /\ <<f, n>> \in Places
         /\ Stage(f, <<t, n>>) = StepOf[f] /\ Stage(f, <<f, n>>) = StepOf[f]
         /\ Place(f, <<t, n>>) = 2 * n - 1 /\ Place(f, <<f, n>>) = 2 * n
         /\ RoundOf(f, t, n) \subseteq Records(UnitOf[f])
         /\ RoundOf(f, t, n) \subseteq Places
<1>1. Len(attempts[t]) \in Nat /\ Len(attempts[f]) \in Nat /\ n \in Nat /\ n >= 2
  BY PairRounds
<1>2. t # f /\ f \in OpsOf(UnitOf[f]) /\ t \in OpsOf(UnitOf[f])
  BY OfPair, Zenon
<1>3. <<t, n>> \in Records(UnitOf[f])
  <2>1. n \in 1 .. Len(attempts[t])
    BY <1>1
  <2> QED BY <1>2, <2>1, RecordsAre DEF LoopInv
<1>4. n <= Len(attempts[f]) => <<f, n>> \in Records(UnitOf[f])
  <2>1. n <= Len(attempts[f]) => n \in 1 .. Len(attempts[f])
    BY <1>1
  <2> QED BY <1>2, <2>1, RecordsAre DEF LoopInv
<1>5. n # 1 /\ <<t, n>> \in Places /\ <<f, n>> \in Places
  BY <1>1 DEF Places
<1> QED BY <1>1, <1>2, <1>3, <1>4, <1>5 DEF RoundOf, Stage, Place

LEMMA GroupIs ==
  ASSUME LoopInv, RoundInv, NEW f \in Ops, NEW t \in Ops, Pair(f, t),
         NEW n \in 2 .. Len(attempts[t])
  PROVE  /\ InRoleOrder(UnitOf[f], attempts[t][n].event) \in Seq(Records(UnitOf[f]))
         /\ InRoleOrder(UnitOf[f], attempts[t][n].event) \in Seq(Places)
         /\ ToSet(InRoleOrder(UnitOf[f], attempts[t][n].event)) = RoundOf(f, t, n)
         /\ Ascending(InRoleOrder(UnitOf[f], attempts[t][n].event), Ahead(f))
<1> DEFINE id == attempts[t][n].event
           u == UnitOf[f]
           F == Len(attempts[f])
           group == InRoleOrder(u, id)
           tuning == <<t, n>>
           test == <<f, n>>
<1>0. F \in Nat
  BY PairRounds
<1>1. F \in Nat /\ n \in Nat /\ n >= 2 /\ t # f
  <2>1. Len(attempts[t]) \in Nat
    BY PairRounds
  <2>2. t # f
    BY OfPair
  <2> QED BY <1>0, <2>1, <2>2
<1>2. \A r : r \in Group(u, id) <=> r = tuning \/ (n <= F /\ r = test)
  BY CauseOfRound
<1>3. Row(tuning).role = "TUNING_REWORK"
  BY PairRounds DEF Rounds, Row
<1>4. n <= F => Row(test).role = "FINAL_TEST_RETEST"
  <2> SUFFICES ASSUME n <= F PROVE Row(test).role = "FINAL_TEST_RETEST"
    OBVIOUS
  <2>1. n \in 2 .. F
    BY <1>1
  <2> QED BY <2>1, PairRounds DEF Rounds, Row
<1>5. tuning # test
  BY <1>1
<1>6. RoundOf(f, t, n) = {tuning} \cup (IF n <= F THEN {test} ELSE {})
  BY DEF RoundOf
<1>7. /\ RoundOf(f, t, n) \subseteq Records(u) /\ RoundOf(f, t, n) \subseteq Places
      /\ tuning \in Places /\ test \in Places
      /\ Stage(f, tuning) = StepOf[f] /\ Stage(f, test) = StepOf[f]
      /\ Place(f, tuning) = 2 * n - 1 /\ Place(f, test) = 2 * n
  BY RoundPlaces
<1>8. <<tuning, test>> \in Ahead(f)
  <2>1. 2 * n - 1 < 2 * n
    BY <1>1
  <2>2. Place(f, tuning) < Place(f, test)
    BY <1>7, <2>1
  <2> QED BY <1>7, <2>2, AheadMeans
<1> HIDE DEF id, u, F, tuning, test
<1>9. InRole(u, id, "TUNING_REWORK") = <<tuning>>
  <2>1. {r \in Group(u, id) : Row(r).role = "TUNING_REWORK"} = {tuning}
    BY <1>2, <1>3, <1>4
  <2> QED BY <2>1, SeqOfOne DEF InRole
<1>10. CASE n <= F
  <2>1. {r \in Group(u, id) : Row(r).role = "FINAL_TEST_RETEST"} = {test}
    BY <1>2, <1>3, <1>4, <1>10
  <2>2. InRole(u, id, "FINAL_TEST_RETEST") = <<test>>
    BY <2>1, SeqOfOne DEF InRole
  <2>3. group = <<tuning>> \o <<test>>
    BY <1>9, <2>2 DEF InRoleOrder
  <2> HIDE DEF group
  <2>4. RoundOf(f, t, n) = {tuning, test}
    BY <1>6, <1>10
  <2>5. ASSUME NEW X, tuning \in X, test \in X
        PROVE  group \in Seq(X) /\ DOMAIN group = {1, 2} /\ group[1] = tuning /\ group[2] = test
    <3>1. <<tuning>> \in Seq(X) /\ <<test>> \in Seq(X)
      BY <2>5
    <3>2. /\ group \in Seq(X) /\ Len(group) = Len(<<tuning>>) + Len(<<test>>)
          /\ \A i \in 1 .. Len(<<tuning>>) + Len(<<test>>) :
               group[i] = IF i <= Len(<<tuning>>) THEN <<tuning>>[i]
                          ELSE <<test>>[i - Len(<<tuning>>)]
      BY <2>3, <3>1, ConcatProperties
    <3>3. Len(group) = 2 /\ 1 .. 2 = {1, 2}
      BY <3>2
    <3>4. DOMAIN group = {1, 2}
      BY <3>2, <3>3
    <3>5. group[1] = tuning /\ group[2] = test
      BY <3>2
    <3> QED BY <3>2, <3>4, <3>5
  <2>6. DOMAIN group = {1, 2} /\ group[1] = tuning /\ group[2] = test
    BY <1>7, <2>5
  <2>7. ToSet(group) = {tuning, test}
    BY <2>6 DEF ToSet
  <2>8. group \in Seq(Records(u)) /\ group \in Seq(Places)
    BY <1>7, <2>4, <2>5
  <2>9. Ascending(group, Ahead(f))
    BY <1>8, <2>6 DEF Ascending
  <2> QED BY <2>4, <2>7, <2>8, <2>9 DEF group, u, id
<1>11. CASE ~ n <= F
  <2>1. {r \in Group(u, id) : Row(r).role = "FINAL_TEST_RETEST"} = {}
    BY <1>2, <1>3, <1>11
  <2>2. InRole(u, id, "FINAL_TEST_RETEST") = <<>>
    BY <2>1, SeqOfNone DEF InRole
  <2>3. group = <<tuning>> \o <<>>
    BY <1>9, <2>2 DEF InRoleOrder
  <2>4. group = <<tuning>>
    BY <2>3
  <2> HIDE DEF group
  <2>5. DOMAIN group = {1} /\ group[1] = tuning
    BY <2>4
  <2>6. RoundOf(f, t, n) = {tuning}
    BY <1>6, <1>11
  <2>7. ToSet(group) = {tuning}
    BY <2>5 DEF ToSet
  <2>8. group \in Seq(Records(u)) /\ group \in Seq(Places)
    BY <1>7, <2>4, <2>6
  <2>9. Ascending(group, Ahead(f))
    BY <2>5 DEF Ascending
  <2> QED BY <2>6, <2>7, <2>8, <2>9 DEF group, u, id
<1> QED BY <1>10, <1>11

-----------------------------------------------------------------------------
(* The loop that inserts the groups                                         *)

(* Of any causes one is the earliest.                                       *)
LEMMA EarliestIs ==
  ASSUME IInv, Numbered, NEW S \in SUBSET Indices, S # {}
  PROVE  Earliest(S) \in S
<1> DEFINE A == {events[i].at : i \in S}
<1>0. /\ \A i \in Indices : events[i].at \in Nat
      /\ Indices \in SUBSET Nat
  <2>1. events \in Seq(EventRows)
    BY DEF IInv, TypeOK
  <2>2. \A i \in Indices : events[i] \in EventRows
    BY <2>1 DEF Indices
  <2> QED BY <2>1, <2>2 DEF EventRows, Times, Indices
<1>1. A \in SUBSET Nat /\ A # {}
  BY <1>0
<1> HIDE DEF A
<1>2. PICK a \in A : \A y \in A : a <= y
  BY <1>1, LeastNatural
<1> DEFINE B == {i \in S : events[i].at = a}
<1>3. B \in SUBSET Nat /\ B # {}
  BY <1>0, <1>2 DEF A
<1> HIDE DEF B
<1>4. PICK b \in B : \A y \in B : b <= y
  BY <1>3, LeastNatural
<1>5. b \in S /\ events[b].at = a
  BY <1>4 DEF B
<1>6. ASSUME NEW i \in S \ {b} PROVE Earlier(b, i)
  <2>1. EventOf(b) = events[b] /\ EventOf(i) = events[i]
    BY <1>5, EventNamed
  <2>2. events[i].at \in A /\ a <= events[i].at /\ a \in Nat /\ events[i].at \in Nat
    BY <1>1, <1>2 DEF A
  <2>3. i \in Nat /\ b \in Nat
    BY <1>0, <1>5
  <2>4. events[i].at = a => b <= i
    BY <1>4 DEF B
  <2>5. a < events[i].at \/ (a = events[i].at /\ b < i)
    BY <2>2, <2>3, <2>4
  <2> QED BY <1>5, <2>1, <2>5 DEF Earlier
<1> QED BY <1>5, <1>6 DEF Earliest

LEMMA CausesAre ==
  ASSUME LoopInv, RoundInv, NEW u
  PROVE  /\ Causes(u) \subseteq Indices /\ IsFiniteSet(Causes(u))
         /\ \A id \in Causes(u) : InRoleOrder(u, id) \in Seq(Records(u))
<1>1. ASSUME NEW id \in Causes(u)
      PROVE  id \in Indices /\ InRoleOrder(u, id) \in Seq(Records(u))
  <2>1. PICK f \in Ops, t \in Ops : Pair(f, t) /\ UnitOf[f] = u
    BY NoCauses DEF LoopInv
  <2>2. PICK n \in 2 .. Len(attempts[t]) : id = attempts[t][n].event
    BY <2>1, RoundOfCause
  <2>3. id \in Indices
    BY <2>1, <2>2, PairRounds DEF Rounds
  <2>4. InRoleOrder(u, id) \in Seq(Records(u))
    BY <2>1, <2>2, GroupIs
  <2> QED BY <2>3, <2>4
<1>2. IsFiniteSet(Indices)
  <2>1. events \in Seq(EventRows)
    BY DEF LoopInv, IInv, TypeOK
  <2>2. Len(events) \in Int /\ 1 \in Int
    BY <2>1
  <2> QED BY <2>2, FS_Interval DEF Indices
<1>3. Causes(u) \in SUBSET Indices
  BY <1>1
<1>4. IsFiniteSet(Causes(u))
  BY <1>2, <1>3, FS_Subset
<1> QED BY <1>1, <1>4

OrderStates(u) == Seq(Records(u)) \X SUBSET Causes(u)

LEMMA InsertStays ==
  ASSUME LoopInv, RoundInv, NEW u, NEW w \in OrderStates(u), Placed(w) # {}
  PROVE  /\ Earliest(Placed(w)) \in Placed(w)
         /\ Insert(u, w) \in OrderStates(u)
         /\ Cardinality(w[2]) \in Nat /\ Cardinality(Insert(u, w)[2]) \in Nat
         /\ Cardinality(Insert(u, w)[2]) < Cardinality(w[2])
<1> DEFINE id == Earliest(Placed(w))
<1>1. w[1] \in Seq(Records(u)) /\ w[2] \in SUBSET Causes(u)
  BY DEF OrderStates
<1>2. Placed(w) \in SUBSET Indices
  BY <1>1, CausesAre DEF Placed
<1>3. id \in Placed(w)
  <2>1. IInv /\ Numbered
    BY DEF LoopInv, RoundInv
  <2> QED BY <1>2, <2>1, EarliestIs
<1>4. id \in w[2] /\ SourceOf(id) \in ToSet(w[1]) /\ InRoleOrder(u, id) \in Seq(Records(u))
  BY <1>1, <1>3, CausesAre DEF Placed
<1>5. Insert(u, w) = <<InsertAfter(w[1], SourceOf(id), InRoleOrder(u, id)), w[2] \ {id}>>
  BY DEF Insert
<1> HIDE DEF id
<1>6. InsertAfter(w[1], SourceOf(id), InRoleOrder(u, id)) \in Seq(Records(u))
  BY <1>1, <1>4, InsertAfterIs
<1>7. Insert(u, w) \in OrderStates(u) /\ Insert(u, w)[2] = w[2] \ {id}
  BY <1>1, <1>5, <1>6 DEF OrderStates
<1> DEFINE P == w[2]
<1>8. IsFiniteSet(P)
  BY <1>1, CausesAre, FS_Subset
<1>9. id \in P
  BY <1>4
<1> HIDE DEF P
<1>10. Cardinality(P) \in Nat
  BY <1>8, FS_CardinalityType
<1>11. IsFiniteSet(P \ {id}) /\ Cardinality(P \ {id}) = Cardinality(P) - 1
  BY <1>8, <1>9, FS_RemoveElement
<1>12. Cardinality(P \ {id}) \in Nat
  BY <1>11, FS_CardinalityType
<1>13. Cardinality(P \ {id}) < Cardinality(P)
  BY <1>10, <1>11
<1> QED BY <1>3, <1>7, <1>10, <1>12, <1>13 DEF P, id

(* The loop of _insert_rework_groups, from any order and any causes pending.   *)
Inserts(g, u) ==
  g = [w \in OrderStates(u) |->
         IF w[2] = {} THEN w[1] ELSE IF Placed(w) = {} THEN Unresolvable ELSE g[Insert(u, w)]]

LEMMA InsertsExists ==
  ASSUME LoopInv, RoundInv, NEW u
  PROVE  \E g : Inserts(g, u)
<1> DEFINE S == OrderStates(u)
           V == Seq(Records(u))
           D == {w \in S : w[2] = {} \/ Placed(w) = {}}
           r == [w \in S |-> IF w[2] = {} THEN w[1] ELSE Unresolvable]
           c == [w \in S |-> [v \in V |-> v]]
           next == [w \in S |-> Insert(u, w)]
           measure == [w \in S |-> Cardinality(w[2])]
<1>1. \A w \in S : w[1] \in V /\ w[2] \in SUBSET Causes(u)
  BY DEF OrderStates
<1>2. \A w \in S : Cardinality(w[2]) \in Nat
  BY <1>1, CausesAre, FS_Subset, FS_CardinalityType
<1>3. \A w \in S \ D : Placed(w) # {}
  OBVIOUS
<1>4. \A w \in S \ D : next[w] \in S /\ measure[next[w]] < measure[w]
  <2>1. ASSUME NEW w \in S \ D PROVE next[w] \in S /\ measure[next[w]] < measure[w]
    <3>1. w \in S /\ Placed(w) # {}
      BY <1>3
    <3>2. Insert(u, w) \in S /\ Cardinality(Insert(u, w)[2]) < Cardinality(w[2])
      BY <3>1, InsertStays
    <3> HIDE DEF S, D
    <3> QED BY <3>1, <3>2
  <2> QED BY <2>1
<1>5. Descends(S, D, next, measure)
  <2>1. measure \in [S -> Nat]
    BY <1>2
  <2> HIDE DEF S, D, next, measure
  <2> QED BY <1>4, <2>1 DEF Descends
<1>6. Unresolvable \in V
  BY DEF Unresolvable
<1>7. (\A w \in S \cap D : r[w] \in V) /\ (\A w \in S \ D : c[w] \in [V -> V])
  <2> HIDE DEF V, S, D
  <2> QED BY <1>1, <1>6
<1>8. PICK g : Unwinds(g, S, D, V, r, c, next)
  <2> HIDE DEF S, D, V, r, c, next, measure
  <2> QED BY <1>5, <1>6, <1>7, LinearRecursion
<1>9. g \in [S -> V]
  BY <1>8 DEF Unwinds
<1>10. ASSUME NEW w \in S
       PROVE  g[w] = IF w[2] = {} THEN w[1]
                     ELSE IF Placed(w) = {} THEN Unresolvable ELSE g[Insert(u, w)]
  <2>1. g[w] = IF w \in D THEN r[w] ELSE c[w][g[next[w]]]
    BY <1>8 DEF Unwinds
  <2>2. CASE w \in D
    <3>1. (w[2] = {} \/ Placed(w) = {}) /\ g[w] = IF w[2] = {} THEN w[1] ELSE Unresolvable
      BY <2>1, <2>2
    <3> QED BY <3>1
  <2>3. CASE w \notin D
    <3>1. w[2] # {} /\ Placed(w) # {}
      BY <2>3
    <3>2. Insert(u, w) \in S /\ next[w] = Insert(u, w)
      BY <3>1, InsertStays
    <3>3. g[Insert(u, w)] \in V
      BY <1>9, <3>2
    <3>4. c[w][g[Insert(u, w)]] = g[Insert(u, w)]
      <4> HIDE DEF V, S
      <4> QED BY <3>3
    <3>5. g[w] = g[Insert(u, w)]
      <4> HIDE DEF c, D, next
      <4> QED BY <2>1, <2>3, <3>2, <3>4
    <3> QED BY <3>1, <3>5
  <2> QED BY <2>2, <2>3
<1>11. g = [w \in S |-> IF w[2] = {} THEN w[1]
                         ELSE IF Placed(w) = {} THEN Unresolvable ELSE g[Insert(u, w)]]
  <2> HIDE DEF S, D, V, r, c, next, measure
  <2> QED BY <1>9, <1>10
<1> QED BY <1>11 DEF Inserts

LEMMA OrderUnwinds ==
  ASSUME LoopInv, RoundInv, NEW u
  PROVE  \E g : Inserts(g, u) /\ Order(u) = g[<<BaseOrder(u), Causes(u)>>]
<1> DEFINE k == CHOOSE g : Inserts(g, u)
<1>1. Inserts(k, u)
  BY InsertsExists
<1>2. Order(u) = k[<<BaseOrder(u), Causes(u)>>]
  BY DEF Order, Inserts, OrderStates
<1> QED BY <1>1, <1>2

Begun(u) == {<<o, 1>> : o \in OpsOf(u)}
Done(f, t, j) == Begun(UnitOf[f]) \cup UNION {RoundOf(f, t, n) : n \in 2 .. j}

(* The rounds up to j have their place, the later ones are pending.            *)
UpTo(f, t, j, w) ==
  /\ w \in OrderStates(UnitOf[f])
  /\ ToSet(w[1]) = Done(f, t, j)
  /\ Ascending(w[1], Ahead(f))
  /\ w[2] = {attempts[t][n].event : n \in j + 1 .. Len(attempts[t])}

LEMMA RecordsArePlaces ==
  ASSUME IInv, NEW u
  PROVE  /\ Records(u) \subseteq Places /\ Seq(Records(u)) \subseteq Seq(Places)
         /\ Begun(u) \subseteq Records(u)
<1>1. ASSUME NEW r \in Records(u) PROVE r \in Places
  <2>1. PICK o \in OpsOf(u) : \E n \in 1 .. Len(attempts[o]) : r = <<o, n>>
    BY RecordsAre
  <2>2. PICK n \in 1 .. Len(attempts[o]) : r = <<o, n>>
    BY <2>1
  <2>3. o \in Ops
    BY DEF OpsOf
  <2>4. Len(attempts[o]) \in Nat
    BY <2>3, RowNumbers
  <2>5. n \in Nat \ {0}
    BY <2>4
  <2> QED BY <2>2, <2>3, <2>5 DEF Places
<1>2. ASSUME NEW s \in Seq(Records(u)) PROVE s \in Seq(Places)
  BY <1>1, <1>2
<1>3. ASSUME NEW o \in OpsOf(u) PROVE <<o, 1>> \in Records(u)
  <2>1. Len(attempts[o]) \in Nat \ {0}
    BY RowNumbers DEF OpsOf
  <2>2. 1 \in 1 .. Len(attempts[o])
    BY <2>1
  <2> QED BY <2>2, RecordsAre
<1> QED BY <1>1, <1>2, <1>3 DEF Begun

LEMMA RecordsOfRounds ==
  ASSUME LoopInv, RoundInv, NEW f \in Ops, NEW t \in Ops, Pair(f, t)
  PROVE  Records(UnitOf[f]) = Done(f, t, Len(attempts[t]))
<1> DEFINE u == UnitOf[f]
           F == Len(attempts[f])
           T == Len(attempts[t])
<1>0. IInv
  BY DEF LoopInv
<1>1. F \in Nat /\ T \in {F, F + 1}
  BY PairRounds DEF InStep
<1>2. ASSUME NEW r \in Records(u) PROVE r \in Done(f, t, T)
  <2>1. CASE r[2] = 1
    <3>1. PICK o \in OpsOf(u) : \E n \in 1 .. Len(attempts[o]) : r = <<o, n>>
      BY <1>0, RecordsAre
    <3>2. r = <<o, 1>>
      BY <2>1, <3>1
    <3> QED BY <3>2 DEF Done, Begun
  <2>2. CASE r[2] # 1
    <3>1. r \in Repairs(u)
      BY <2>2 DEF Repairs
    <3>2. \/ \E n \in 2 .. F : r = <<f, n>>
          \/ \E n \in 2 .. T : r = <<t, n>>
      BY <1>0, <3>1, RepairsOfPair
    <3>3. ASSUME NEW n \in 2 .. F, r = <<f, n>> PROVE n \in 2 .. T /\ r \in RoundOf(f, t, n)
      <4>1. n \in 2 .. T /\ n <= F
        BY <1>1
      <4> QED BY <3>3, <4>1 DEF RoundOf
    <3>4. ASSUME NEW n \in 2 .. T, r = <<t, n>> PROVE r \in RoundOf(f, t, n)
      BY <3>4 DEF RoundOf
    <3> HIDE DEF F, T
    <3>5. \E n \in 2 .. T : r \in RoundOf(f, t, n)
      BY <3>2, <3>3, <3>4
    <3> QED BY <3>5 DEF Done
  <2> QED BY <2>1, <2>2
<1>3. ASSUME NEW r \in Done(f, t, T) PROVE r \in Records(u)
  <2>1. CASE r \in Begun(u)
    BY <1>0, <2>1, RecordsArePlaces
  <2>2. CASE \E n \in 2 .. T : r \in RoundOf(f, t, n)
    BY <2>2, RoundPlaces
  <2> QED BY <2>1, <2>2 DEF Done
<1> QED BY <1>2, <1>3

(* The next round is the only one whose failed test has its place.            *)
LEMMA NextPlaced ==
  ASSUME LoopInv, RoundInv, NEW f \in Ops, NEW t \in Ops, Pair(f, t),
         NEW j \in Nat, 1 <= j, j < Len(attempts[t]), NEW w, UpTo(f, t, j, w)
  PROVE  /\ Placed(w) = {attempts[t][j + 1].event}
         /\ SourceOf(attempts[t][j + 1].event) = <<f, j>>
         /\ <<f, j>> \in ToSet(w[1])
<1> DEFINE F == Len(attempts[f])
           T == Len(attempts[t])
           id(n) == attempts[t][n].event
<1>1. F \in Nat /\ T \in {F, F + 1}
  BY PairRounds DEF InStep
<1>2. j <= F /\ T \in Nat /\ j + 1 \in 2 .. T /\ j + 1 \in j + 1 .. T /\ (j + 1) - 1 = j
  BY <1>1
<1>3. \A n \in 2 .. T : SourceOf(id(n)) = <<f, n - 1>>
  BY CauseOfRound
<1>4. ToSet(w[1]) = Done(f, t, j) /\ w[2] = {id(n) : n \in j + 1 .. T}
  BY DEF UpTo
<1>5. f # t /\ f \in OpsOf(UnitOf[f])
  BY OfPair, Zenon
<1>6. <<f, j>> \in Done(f, t, j)
  <2>1. CASE j = 1
    BY <1>5, <2>1 DEF Done, Begun
  <2>2. CASE j # 1
    <3>1. j \in 2 .. j
      BY <2>2
    <3>2. <<f, j>> \in RoundOf(f, t, j)
      BY <1>2 DEF RoundOf
    <3> QED BY <3>1, <3>2 DEF Done
  <2> QED BY <2>1, <2>2
<1>7. ASSUME NEW k \in Nat, <<f, k>> \in Done(f, t, j) PROVE k <= j
  <2>1. CASE <<f, k>> \in Begun(UnitOf[f])
    BY <2>1 DEF Begun
  <2>2. CASE \E n \in 2 .. j : <<f, k>> \in RoundOf(f, t, n)
    <3>1. PICK n \in 2 .. j : <<f, k>> \in RoundOf(f, t, n)
      BY <2>2
    <3>2. k = n
      BY <1>5, <3>1 DEF RoundOf
    <3> QED BY <3>2
  <2> QED BY <1>7, <2>1, <2>2 DEF Done
<1> HIDE DEF F, T, id
<1>8. \A n \in j + 1 .. T : n \in 2 .. T /\ n - 1 \in Nat /\ (n - 1 <= j => n = j + 1)
  BY <1>2
<1>9. ASSUME NEW x \in Placed(w) PROVE x = id(j + 1)
  <2>1. x \in w[2] /\ SourceOf(x) \in Done(f, t, j)
    BY <1>4 DEF Placed
  <2>2. PICK n \in j + 1 .. T : x = id(n)
    BY <1>4, <2>1
  <2>3. SourceOf(x) = <<f, n - 1>> /\ n - 1 \in Nat
    BY <1>3, <1>8, <2>2
  <2>4. n = j + 1
    BY <1>7, <1>8, <2>1, <2>3
  <2> QED BY <2>2, <2>4
<1>10. SourceOf(id(j + 1)) = <<f, j>>
  BY <1>2, <1>3
<1>11. id(j + 1) \in Placed(w)
  BY <1>2, <1>4, <1>6, <1>10 DEF Placed
<1> QED BY <1>4, <1>6, <1>9, <1>10, <1>11 DEF id

LEMMA NextRound ==
  ASSUME LoopInv, RoundInv, NEW f \in Ops, NEW t \in Ops, Pair(f, t),
         NEW j \in Nat, 1 <= j, j < Len(attempts[t]), NEW w, UpTo(f, t, j, w)
  PROVE  Placed(w) # {} /\ w[2] # {} /\ UpTo(f, t, j + 1, Insert(UnitOf[f], w))
<1> DEFINE u == UnitOf[f]
           F == Len(attempts[f])
           T == Len(attempts[t])
           n == j + 1
           id == attempts[t][n].event
           source == <<f, j>>
           order == w[1]
           group == InRoleOrder(u, id)
           B == Ahead(f)
<1>1. F \in Nat /\ T \in {F, F + 1}
  BY PairRounds DEF InStep
<1>2. j <= F /\ T \in Nat /\ n \in 2 .. T /\ n \in Nat
  BY <1>1
<1>3. Placed(w) = {id} /\ SourceOf(id) = source /\ source \in ToSet(order)
  BY NextPlaced
<1>4. /\ w \in OrderStates(u) /\ ToSet(order) = Done(f, t, j) /\ Ascending(order, B)
      /\ w[2] = {attempts[t][m].event : m \in n .. T}
  BY DEF UpTo
<1>5. order \in Seq(Records(u)) /\ order \in Seq(Places)
  BY <1>4, RecordsArePlaces DEF OrderStates, LoopInv
<1>6. group \in Seq(Places) /\ ToSet(group) = RoundOf(f, t, n) /\ Ascending(group, B)
  BY <1>2, GroupIs
<1>7. /\ \A m \in 2 .. T : RoundOf(f, t, m) \subseteq Places
      /\ \A m \in 2 .. T : \A x \in RoundOf(f, t, m) :
           Stage(f, x) = StepOf[f] /\ Place(f, x) \in {2 * m - 1, 2 * m}
  <2>1. ASSUME NEW m \in 2 .. T, NEW x \in RoundOf(f, t, m)
        PROVE  /\ x \in Places /\ Stage(f, x) = StepOf[f] /\ Place(f, x) \in {2 * m - 1, 2 * m}
    <3>1. x = <<t, m>> \/ x = <<f, m>>
      BY DEF RoundOf
    <3>2. /\ <<t, m>> \in Places /\ <<f, m>> \in Places
          /\ Stage(f, <<t, m>>) = StepOf[f] /\ Stage(f, <<f, m>>) = StepOf[f]
          /\ Place(f, <<t, m>>) = 2 * m - 1 /\ Place(f, <<f, m>>) = 2 * m
      BY RoundPlaces
    <3> QED BY <3>1, <3>2
  <2> QED BY <2>1
<1>8. source \in Places /\ Stage(f, source) = StepOf[f] /\ Place(f, source) = IF j = 1 THEN 0 ELSE 2 * j
  BY <1>2 DEF Places, Stage, Place
<1>9. \A z \in Begun(u) : z \in Places /\ Place(f, z) = 0
  <2>1. \A o \in OpsOf(u) : <<o, 1>> \in Places /\ Place(f, <<o, 1>>) = 0
    BY DEF Places, Place, OpsOf
  <2> QED BY <2>1 DEF Begun
<1>10. ASSUME NEW x \in ToSet(group) PROVE <<source, x>> \in B
  <2>1. x \in Places /\ Stage(f, x) = StepOf[f] /\ Place(f, x) \in {2 * n - 1, 2 * n}
    BY <1>2, <1>6, <1>7
  <2>2. Place(f, source) < Place(f, x)
    BY <1>8, <2>1
  <2> QED BY <1>8, <2>1, <2>2, AheadMeans
<1>11. ASSUME NEW x \in ToSet(group), NEW z \in ToSet(order), <<source, z>> \in B
       PROVE  <<x, z>> \in B
  <2>1. x \in Places /\ Stage(f, x) = StepOf[f]
    BY <1>2, <1>6, <1>7
  <2>2. CASE z \in Begun(u)
    <3>1. z \in Places /\ Place(f, z) = 0 /\ Place(f, source) \in Nat
      BY <1>8, <1>9, <2>2
    <3>2. ~ Place(f, source) < Place(f, z)
      BY <3>1
    <3>3. Stage(f, source) < Stage(f, z)
      BY <1>8, <1>11, <3>1, <3>2, AheadMeans
    <3> QED BY <1>8, <2>1, <3>1, <3>3, AheadMeans
  <2>3. CASE \E m \in 2 .. j : z \in RoundOf(f, t, m)
    <3>1. PICK m \in 2 .. j : z \in RoundOf(f, t, m)
      BY <2>3
    <3>2. m \in 2 .. T /\ j # 1
      BY <1>2
    <3>3. z \in Places /\ Stage(f, z) = StepOf[f] /\ Place(f, z) \in {2 * m - 1, 2 * m}
      BY <1>7, <3>1, <3>2
    <3>4. ~ Place(f, source) < Place(f, z)
      BY <1>8, <3>2, <3>3
    <3>5. Stage(f, source) \in Nat /\ Stage(f, source) = Stage(f, z)
      BY <1>8, <3>3, ProjectionAssumption
    <3>6. ~ Stage(f, source) < Stage(f, z)
      BY <3>5
    <3> QED BY <1>8, <1>11, <3>3, <3>4, <3>6, AheadMeans
  <2> QED BY <1>4, <2>2, <2>3 DEF Done
<1>12. \A x, y, z \in Places : <<x, y>> \in B /\ <<y, z>> \in B => <<x, z>> \in B
  BY AheadIsOrder
<1> DEFINE new == InsertAfter(order, source, group)
<1>13. ToSet(new) = ToSet(order) \cup ToSet(group) /\ Ascending(new, B)
  <2> HIDE DEF order, source, group, B
  <2> QED BY <1>3, <1>4, <1>5, <1>6, <1>10, <1>11, <1>12, InsertAscends
<1>14. Insert(u, w) = <<new, w[2] \ {id}>>
  <2>1. Earliest({id}) = id
    <3> HIDE DEF id
    <3> QED BY DEF Earliest
  <2> QED BY <1>3, <2>1 DEF Insert
<1>15. ToSet(new) = Done(f, t, n)
  <2>1. \A x : x \in ToSet(new) <=> x \in Done(f, t, j) \/ x \in RoundOf(f, t, n)
    BY <1>4, <1>6, <1>13
  <2>2. \A m : m \in 2 .. n <=> m \in 2 .. j \/ m = n
    BY <1>2
  <2>3. \A x : x \in Done(f, t, n) <=> x \in Done(f, t, j) \/ x \in RoundOf(f, t, n)
    <3> HIDE DEF n
    <3> QED BY <2>2 DEF Done
  <2> QED BY <2>1, <2>3
<1>16. w[2] \ {id} = {attempts[t][m].event : m \in n + 1 .. T}
  <2>1. \A m \in 2 .. T : attempts[t][m].event = id => m = n
    BY <1>2, CauseOfRound
  <2>2. \A m : m \in n .. T <=> m = n \/ m \in n + 1 .. T
    BY <1>2
  <2>3. \A m \in n + 1 .. T : m \in 2 .. T /\ m # n
    BY <1>2
  <2> HIDE DEF T
  <2> QED BY <1>4, <2>1, <2>2, <2>3
<1>17. Insert(u, w) \in OrderStates(u)
  BY <1>3, <1>4, InsertStays
<1>18. w[2] # {}
  <2>1. n \in n .. T
    BY <1>2
  <2>2. id \in w[2]
    BY <1>4, <2>1
  <2> QED BY <2>2
<1>19. Insert(u, w)[1] = new /\ Insert(u, w)[2] = w[2] \ {id} /\ Placed(w) # {}
  <2> HIDE DEF new, id
  <2> QED BY <1>3, <1>14
<1>20. UpTo(f, t, n, Insert(u, w))
  <2> HIDE DEF new, id, n, B
  <2>1. ToSet(Insert(u, w)[1]) = Done(f, t, n) /\ Ascending(Insert(u, w)[1], Ahead(f))
    BY <1>13, <1>15, <1>19 DEF B
  <2> QED BY <1>16, <1>17, <1>19, <2>1 DEF UpTo
<1> QED BY <1>18, <1>19, <1>20

(* With rework, the loop gives every attempt its place.                      *)
LEMMA OrderOfRework ==
  ASSUME LoopInv, RoundInv, NEW f \in Ops, NEW t \in Ops, Pair(f, t)
  PROVE  /\ Order(UnitOf[f]) \in Seq(Places) /\ ToSet(Order(UnitOf[f])) = Records(UnitOf[f])
         /\ Ascending(Order(UnitOf[f]), Ahead(f))
<1> DEFINE u == UnitOf[f]
           T == Len(attempts[t])
           start == <<BaseOrder(u), Causes(u)>>
<1>0. IInv /\ T \in Nat \ {0}
  BY PairRounds DEF LoopInv
<1>1. PICK g : Inserts(g, u) /\ Order(u) = g[start]
  BY OrderUnwinds
<1>2. \A w \in OrderStates(u) :
        g[w] = IF w[2] = {} THEN w[1] ELSE IF Placed(w) = {} THEN Unresolvable ELSE g[Insert(u, w)]
  BY <1>1 DEF Inserts
<1> DEFINE Result(s) == s \in Seq(Places) /\ ToSet(s) = Done(f, t, T) /\ Ascending(s, Ahead(f))
           Good == {m \in Nat : \A w : m < T /\ UpTo(f, t, T - m, w) => Result(g[w])}
<1>3. 0 \in Good
  <2> SUFFICES ASSUME NEW w, UpTo(f, t, T - 0, w) PROVE Result(g[w])
    OBVIOUS
  <2>1. T - 0 = T /\ T + 1 .. T = {}
    BY <1>0
  <2>2. /\ w \in OrderStates(u) /\ ToSet(w[1]) = Done(f, t, T) /\ Ascending(w[1], Ahead(f))
        /\ w[2] = {}
    BY <2>1 DEF UpTo
  <2>3. g[w] = w[1]
    BY <1>2, <2>2
  <2>4. w[1] \in Seq(Places)
    BY <1>0, <2>2, RecordsArePlaces DEF OrderStates
  <2> QED BY <2>2, <2>3, <2>4
<1>4. ASSUME NEW m \in Nat, m \in Good PROVE m + 1 \in Good
  <2> SUFFICES ASSUME NEW w, m + 1 < T, UpTo(f, t, T - (m + 1), w) PROVE Result(g[w])
    OBVIOUS
  <2> DEFINE j == T - (m + 1)
  <2>1. j \in Nat /\ 1 <= j /\ j < T /\ j + 1 = T - m /\ m < T
    BY <1>0
  <2> HIDE DEF j
  <2>2. UpTo(f, t, j, w)
    BY DEF j
  <2>3. Placed(w) # {} /\ w[2] # {} /\ UpTo(f, t, j + 1, Insert(u, w))
    BY <2>1, <2>2, NextRound
  <2>4. w \in OrderStates(u)
    BY <2>2 DEF UpTo
  <2>5. g[w] = g[Insert(u, w)]
    BY <1>2, <2>3, <2>4
  <2>6. Result(g[Insert(u, w)])
    <3> HIDE DEF Result
    <3> QED BY <1>4, <2>1, <2>3
  <2> QED BY <2>5, <2>6
<1>5. \A m \in Nat : m \in Good
  <2> HIDE DEF Good
  <2> QED BY <1>3, <1>4, InductionOnNat
<1>6. UpTo(f, t, 1, start)
  <2>1. /\ BaseOrder(u) \in Seq(Records(u)) /\ ToSet(BaseOrder(u)) = Begun(u)
        /\ Ascending(BaseOrder(u), Ahead(f))
    BY <1>0, BaseAscends DEF Begun
  <2>2. Done(f, t, 1) = Begun(u)
    <3>1. 2 .. 1 = {}
      OBVIOUS
    <3> QED BY <3>1 DEF Done
  <2>3. Causes(u) = {attempts[t][n].event : n \in 2 .. T}
    <3>1. \A n \in 2 .. T : attempts[t][n].event \in Causes(u)
      BY CauseOfRound
    <3>2. \A id \in Causes(u) : \E n \in 2 .. T : id = attempts[t][n].event
      BY RoundOfCause
    <3> QED BY <3>1, <3>2
  <2>4. 1 + 1 .. T = 2 .. T
    OBVIOUS
  <2>5. start \in OrderStates(u)
    BY <2>1 DEF OrderStates
  <2> HIDE DEF u, T
  <2> QED BY <2>1, <2>2, <2>3, <2>4, <2>5 DEF UpTo, u, T
<1>7. Result(g[start])
  <2>1. T - 1 \in Nat /\ T - (T - 1) = 1 /\ T - 1 < T
    BY <1>0
  <2> HIDE DEF Result, start
  <2> QED BY <1>5, <1>6, <2>1
<1>8. Records(u) = Done(f, t, T)
  BY RecordsOfRounds
<1> QED BY <1>1, <1>7, <1>8

LEMMA OrderWithout ==
  ASSUME LoopInv, RoundInv, NEW u, Repairs(u) = {}, NEW f \in Ops
  PROVE  /\ Order(u) \in Seq(Places) /\ ToSet(Order(u)) = Records(u)
         /\ Ascending(Order(u), Ahead(f))
<1> DEFINE start == <<BaseOrder(u), Causes(u)>>
<1>0. IInv
  BY DEF LoopInv
<1>1. PICK g : Inserts(g, u) /\ Order(u) = g[start]
  BY OrderUnwinds
<1>2. /\ BaseOrder(u) \in Seq(Records(u)) /\ ToSet(BaseOrder(u)) = Begun(u)
      /\ Ascending(BaseOrder(u), Ahead(f))
  BY <1>0, BaseAscends DEF Begun
<1>3. Causes(u) = {}
  BY DEF Causes
<1>4. start \in OrderStates(u) /\ start[1] = BaseOrder(u) /\ start[2] = {}
  BY <1>2, <1>3 DEF OrderStates
<1> HIDE DEF start
<1>5. Order(u) = BaseOrder(u)
  BY <1>1, <1>4 DEF Inserts
<1>6. ASSUME NEW r \in Records(u) PROVE r \in Begun(u)
  <2>1. r[2] = 1
    BY DEF Repairs
  <2>2. PICK o \in OpsOf(u) : \E n \in 1 .. Len(attempts[o]) : r = <<o, n>>
    BY <1>0, RecordsAre
  <2>3. r = <<o, 1>>
    BY <2>1, <2>2
  <2> QED BY <2>3 DEF Begun
<1>7. Begun(u) = Records(u) /\ BaseOrder(u) \in Seq(Places)
  BY <1>0, <1>2, <1>6, RecordsArePlaces
<1> QED BY <1>2, <1>5, <1>7

(* The order of every unit.                                                 *)
LEMMA OrderIs ==
  ASSUME LoopInv, RoundInv, NEW u \in Units
  PROVE  \E f \in Ops :
           /\ Order(u) \in Seq(Places) /\ ToSet(Order(u)) = Records(u)
           /\ Ascending(Order(u), Ahead(f))
           /\ Repairs(u) # {} => UnitOf[f] = u /\ \E t \in Ops : Pair(f, t)
<1>1. CASE Repairs(u) = {}
  <2>1. PICK f \in Ops : UnitOf[f] = u
    BY DEF Units
  <2> QED BY <1>1, <2>1, OrderWithout
<1>2. CASE Repairs(u) # {}
  <2>1. PICK id \in Causes(u) : TRUE
    BY <1>2 DEF Causes
  <2>2. PICK f \in Ops, t \in Ops : Pair(f, t) /\ UnitOf[f] = u
    BY NoCauses DEF LoopInv
  <2> QED BY <2>2, OrderOfRework
<1> QED BY <1>1, <1>2

LEMMA AheadIsBefore ==
  ASSUME NEW f \in Ops, NEW s \in Seq(Places), Ascending(s, Ahead(f)),
         NEW i \in DOMAIN s, NEW j \in DOMAIN s, <<s[i], s[j]>> \in Ahead(f)
  PROVE  i < j
<1>1. i \in Nat /\ j \in Nat /\ s[i] \in Places /\ s[j] \in Places
  OBVIOUS
<1>2. i # j
  BY <1>1, AheadIsOrder
<1>3. ~ j < i
  <2> SUFFICES ASSUME j < i PROVE FALSE
    OBVIOUS
  <2>1. <<s[j], s[i]>> \in Ahead(f)
    BY DEF Ascending
  <2>2. <<s[i], s[i]>> \in Ahead(f)
    BY <1>1, <2>1, AheadIsOrder
  <2> QED BY <1>1, <2>2, AheadIsOrder
<1> QED BY <1>1, <1>2, <1>3

(* Later attempts of an operation stand behind earlier ones.                  *)
LEMMA AttemptsInOrder ==
  ASSUME TunedThenTested, LoopInv, RoundInv, NEW f \in Ops, NEW t \in Ops, Pair(f, t),
         NEW o \in OpsOf(UnitOf[f]), NEW m \in 1 .. Len(attempts[o]),
         NEW n \in 1 .. Len(attempts[o]), m < n
  PROVE  <<<<o, m>>, <<o, n>>>> \in Ahead(f)
<1> DEFINE N == Len(attempts[o])
<1>1. o \in Ops /\ IInv
  BY DEF OpsOf, LoopInv
<1>2. N \in Nat
  BY <1>1, RowNumbers
<1>3. m \in Nat \ {0} /\ n \in Nat \ {0} /\ n # 1 /\ N > 1
  BY <1>2
<1>4. o \in {f, t}
  BY <1>1, <1>3, OnlyTheyRepeat
<1>5. <<o, m>> \in Places /\ <<o, n>> \in Places
  BY <1>1, <1>3 DEF Places
<1>6. Stage(f, <<o, n>>) = StepOf[f] /\ Place(f, <<o, n>>) = IF o = f THEN 2 * n ELSE 2 * n - 1
  BY <1>3 DEF Stage, Place
<1>7. CASE m = 1
  <2>1. Stage(f, <<o, m>>) = StepOf[o] /\ Place(f, <<o, m>>) = 0
    BY <1>7 DEF Stage, Place
  <2>2. StepOf[o] < StepOf[f] \/ o = f
    BY <1>4, OfPair DEF TunedThenTested
  <2>3. 0 < Place(f, <<o, n>>)
    BY <1>3, <1>6
  <2>4. \/ Stage(f, <<o, m>>) < Stage(f, <<o, n>>)
        \/ Stage(f, <<o, m>>) = Stage(f, <<o, n>>) /\ Place(f, <<o, m>>) < Place(f, <<o, n>>)
    BY <1>6, <2>1, <2>2, <2>3
  <2> QED BY <1>5, <2>4, AheadMeans
<1>8. CASE m # 1
  <2>1. Stage(f, <<o, m>>) = StepOf[f] /\ Place(f, <<o, m>>) = IF o = f THEN 2 * m ELSE 2 * m - 1
    BY <1>8 DEF Stage, Place
  <2>2. Place(f, <<o, m>>) < Place(f, <<o, n>>)
    BY <1>3, <1>6, <2>1
  <2> QED BY <1>5, <1>6, <2>1, <2>2, AheadMeans
<1> QED BY <1>7, <1>8

LEMMA UnitTraced ==
  ASSUME LoopInv, RoundInv, NEW u PROVE Traced(u)
<1>1. IInv /\ Numbered
  BY DEF LoopInv, RoundInv
<1> SUFFICES ASSUME Repairs(u) # {} PROVE Traced(u)
  BY DEF Traced
<1>2. PICK id \in Causes(u) : TRUE
  BY DEF Causes
<1>3. PICK f \in Ops, t \in Ops : Pair(f, t) /\ UnitOf[f] = u
  BY <1>1, <1>2, NoCauses
<1> DEFINE F == Len(attempts[f])
           T == Len(attempts[t])
<1>4. F \in Nat /\ T \in {F, F + 1} /\ Rounds(f, t) /\ f # t /\ f \in OpsOf(u)
  <2>1. f # t /\ f \in OpsOf(u)
    BY <1>3, OfPair
  <2> QED BY <1>3, <2>1, PairRounds DEF InStep
<1>5. \A r \in Repairs(u) : \E n \in 2 .. T : r = <<t, n>> \/ (n <= F /\ r = <<f, n>>)
  <2>1. ASSUME NEW r \in Repairs(u)
        PROVE  \E n \in 2 .. T : r = <<t, n>> \/ (n <= F /\ r = <<f, n>>)
    <3>1. \/ \E n \in 2 .. F : r = <<f, n>>
          \/ \E n \in 2 .. T : r = <<t, n>>
      BY <1>1, <1>3, RepairsOfPair
    <3>2. \A n \in 2 .. F : n \in 2 .. T /\ n <= F
      BY <1>4
    <3> QED BY <3>1, <3>2
  <2> QED BY <2>1
<1>6. ASSUME NEW n \in 2 .. T, NEW r, r = <<t, n>> \/ (n <= F /\ r = <<f, n>>)
      PROVE  /\ Row(r).role = IF r[1] = t THEN "TUNING_REWORK" ELSE "FINAL_TEST_RETEST"
             /\ Row(r).source = f /\ Row(r).event = attempts[t][n].event
  <2>1. CASE r = <<t, n>>
    BY <1>4, <2>1 DEF Rounds, Row
  <2>2. CASE n <= F /\ r = <<f, n>>
    <3>1. n \in 2 .. F
      BY <1>4, <2>2
    <3> QED BY <1>4, <2>2, <3>1 DEF Rounds, Row
  <2> QED BY <1>6, <2>1, <2>2
<1>7. ASSUME NEW n \in 2 .. T
      PROVE  LET id2 == attempts[t][n].event
             IN /\ id2 \in Indices /\ Recorded(id2) /\ EventOf(id2).op = f
                /\ SourceOf(id2) \in Records(u)
                /\ \A m \in 2 .. T : attempts[t][m].event = id2 => m = n
  <2> DEFINE e == attempts[t][n].event
  <2>1. /\ e \in Indices /\ SourceOf(e) = <<f, n - 1>> /\ n - 1 \in 1 .. F
        /\ \A m \in 2 .. T : attempts[t][m].event = e => m = n
    BY <1>3, CauseOfRound
  <2>2. events[e].op = f
    BY <1>4 DEF Rounds
  <2> HIDE DEF e, F
  <2>3. EventOf(e) = events[e] /\ Recorded(e)
    BY <1>1, <2>1, EventNamed
  <2>4. SourceOf(e) \in Records(u)
    BY <1>1, <1>4, <2>1, RecordsAre DEF F
  <2> QED BY <2>1, <2>2, <2>3, <2>4 DEF e
<1> HIDE DEF F, T
<1>8. ASSUME NEW r \in Repairs(u)
      PROVE  /\ Row(r).role # "NONE" /\ Row(r).source # None
             /\ Recorded(Row(r).event)
             /\ SourceOf(Row(r).event) \in Records(u)
             /\ Row(r).source = EventOf(Row(r).event).op
  <2>1. PICK n \in 2 .. T : r = <<t, n>> \/ (n <= F /\ r = <<f, n>>)
    BY <1>5
  <2>2. f # None
    BY AtomicAssumption
  <2> QED BY <1>6, <1>7, <2>1, <2>2
<1>9. ASSUME NEW r \in Repairs(u), NEW q \in Repairs(u),
             Row(r).event = Row(q).event, Row(r).role = Row(q).role
      PROVE  r = q
  <2>1. PICK n \in 2 .. T : r = <<t, n>> \/ (n <= F /\ r = <<f, n>>)
    BY <1>5
  <2>2. PICK m \in 2 .. T : q = <<t, m>> \/ (m <= F /\ q = <<f, m>>)
    BY <1>5
  <2>3. Row(r).event = attempts[t][n].event /\ Row(q).event = attempts[t][m].event
    BY <1>6, <2>1, <2>2
  <2>4. m = n
    BY <1>7, <1>9, <2>3
  <2>5. (r[1] = t) = (q[1] = t)
    BY <1>6, <1>9, <2>1, <2>2
  <2> QED BY <1>4, <2>1, <2>2, <2>4, <2>5
<1> QED BY <1>8, <1>9 DEF Traced

LEMMA CausedIs ==
  ASSUME ShopInv, RoundInv, NEW f \in Ops, NEW t \in Ops, Pair(f, t),
         NEW q \in Records(UnitOf[f]), NEW r \in Records(UnitOf[f]), Caused(q, r)
  PROVE  \E n \in 2 .. Len(attempts[t]) : q = <<f, n - 1>> /\ r \in RoundOf(f, t, n)
<1> DEFINE u == UnitOf[f]
           F == Len(attempts[f])
           T == Len(attempts[t])
<1>1. LoopInv /\ IInv /\ FirstsPlain /\ Numbered
  BY DEF ShopInv, LoopInv, RowFacts, RoundInv
<1>2. PICK i \in EventsOf(q[1], q[2]) : events[i].type = "FAIL" /\ events[i].id = Row(r).event
  BY DEF Caused
<1>3. i \in Indices /\ events[i].op = q[1] /\ events[i].attempt = q[2] /\ i \in Nat
  BY <1>2 DEF EventsOf, Indices
<1>4. Row(r).event = i
  BY <1>1, <1>2, <1>3 DEF Numbered
<1>5. r[2] # 1
  <2> SUFFICES ASSUME r[2] = 1 PROVE FALSE
    OBVIOUS
  <2>1. PICK o \in OpsOf(u) : \E n \in 1 .. Len(attempts[o]) : r = <<o, n>>
    BY <1>1, RecordsAre
  <2>2. o \in Ops /\ r = <<o, 1>> /\ 1 \in 1 .. Len(attempts[o])
    BY <2>1 DEF OpsOf
  <2>3. attempts[o][1].event = None
    BY <1>1, <2>2, RowNumbers DEF FirstsPlain
  <2>4. Row(r).event = None
    BY <2>2, <2>3 DEF Row
  <2> QED BY <1>3, <1>4, <2>4, AtomicAssumption
<1>6. r \in Repairs(u)
  BY <1>5 DEF Repairs
<1>7. F \in Nat /\ T \in {F, F + 1} /\ Rounds(f, t)
  BY <1>1, PairRounds DEF InStep
<1>8. \E n \in 2 .. T : r \in RoundOf(f, t, n) /\ Row(r).event = attempts[t][n].event
  <2>1. CASE \E n \in 2 .. F : r = <<f, n>>
    <3>1. PICK n \in 2 .. F : r = <<f, n>>
      BY <2>1
    <3>2. n \in 2 .. T /\ n <= F
      BY <1>7
    <3>3. Row(r).event = attempts[t][n].event
      BY <1>7, <3>1 DEF Rounds, Row
    <3> QED BY <3>1, <3>2, <3>3 DEF RoundOf
  <2>2. CASE \E n \in 2 .. T : r = <<t, n>>
    BY <2>2 DEF RoundOf, Row
  <2> QED BY <1>1, <1>6, <2>1, <2>2, RepairsOfPair
<1>9. PICK n \in 2 .. T : r \in RoundOf(f, t, n) /\ Row(r).event = attempts[t][n].event
  BY <1>8
<1>10. events[i].op = f /\ events[i].attempt = n - 1
  BY <1>4, <1>7, <1>9 DEF Rounds
<1>11. q = <<q[1], q[2]>>
  BY <1>1, RecordsAre
<1> QED BY <1>3, <1>9, <1>10, <1>11

(* An order that lists a unit's attempts as Ahead relates them is complete.     *)
LEMMA UnitComplete ==
  ASSUME TunedThenTested, LoopInv, RoundInv, NEW u \in Units
  PROVE  LET order == Order(u)
         IN /\ ToSet(order) = Records(u) /\ Len(order) = Cardinality(Records(u))
            /\ \A i, j \in DOMAIN order :
                 order[i][1] = order[j][1] /\ order[i][2] < order[j][2] => i < j
<1> DEFINE order == Order(u)
<1>1. PICK f \in Ops : /\ order \in Seq(Places) /\ ToSet(order) = Records(u)
                       /\ Ascending(order, Ahead(f))
                       /\ Repairs(u) # {} => UnitOf[f] = u /\ \E t \in Ops : Pair(f, t)
  BY OrderIs
<1> HIDE DEF order
<1>2. Len(order) = Cardinality(ToSet(order))
  BY <1>1, AheadIsOrder, AscendsOnce
<1>3. ASSUME NEW i \in DOMAIN order, NEW j \in DOMAIN order,
             order[i][1] = order[j][1], order[i][2] < order[j][2]
      PROVE  i < j
  <2>1. order[i] \in Records(u) /\ order[j] \in Records(u)
    BY <1>1 DEF ToSet
  <2>2. IInv
    BY DEF LoopInv
  <2>3. PICK o \in OpsOf(u) : \E m \in 1 .. Len(attempts[o]) : order[i] = <<o, m>>
    BY <2>1, <2>2, RecordsAre
  <2>4. PICK m \in 1 .. Len(attempts[o]) : order[i] = <<o, m>>
    BY <2>3
  <2>5. PICK p \in OpsOf(u) : \E n \in 1 .. Len(attempts[p]) : order[j] = <<p, n>>
    BY <2>1, <2>2, RecordsAre
  <2>6. PICK n \in 1 .. Len(attempts[p]) : order[j] = <<p, n>>
    BY <2>5
  <2>7. p = o /\ m < n
    BY <1>3, <2>4, <2>6
  <2>8. n # 1
    <3>1. Len(attempts[o]) \in Nat
      BY <2>2, RowNumbers DEF OpsOf
    <3> QED BY <2>7, <3>1
  <2>9. order[j] \in Repairs(u)
    BY <2>1, <2>6, <2>8 DEF Repairs
  <2>10. PICK t \in Ops : UnitOf[f] = u /\ Pair(f, t)
    BY <1>1, <2>9
  <2>11. <<order[i], order[j]>> \in Ahead(f)
    BY <2>4, <2>6, <2>7, <2>10, AttemptsInOrder
  <2> QED BY <1>1, <2>11, AheadIsBefore
<1> QED BY <1>1, <1>2, <1>3 DEF order

LEMMA RepairsPlaced ==
  ASSUME ShopInv, RoundInv, NEW u \in Units, Repairs(u) # {}
  PROVE  LET order == Order(u)
         IN \A i, j \in DOMAIN order : \A f \in Records(u) :
              Caused(f, order[i]) =>
                /\ order[j] = f => j < i
                /\ Caused(f, order[j]) /\ Row(order[j]).role = "TUNING_REWORK" => j <= i
                /\ order[j][2] = 1 /\ StepOf[order[j][1]] > StepOf[f[1]] => i < j
<1> DEFINE order == Order(u)
<1>0. LoopInv
  BY DEF ShopInv
<1>1. PICK f \in Ops : /\ order \in Seq(Places) /\ ToSet(order) = Records(u)
                       /\ Ascending(order, Ahead(f))
                       /\ Repairs(u) # {} => UnitOf[f] = u /\ \E t \in Ops : Pair(f, t)
  BY <1>0, OrderIs
<1>2. PICK t \in Ops : UnitOf[f] = u /\ Pair(f, t)
  BY <1>1
<1> HIDE DEF order
<1> SUFFICES ASSUME NEW i \in DOMAIN order, NEW j \in DOMAIN order, NEW q \in Records(u),
                    Caused(q, order[i])
             PROVE  /\ order[j] = q => j < i
                    /\ Caused(q, order[j]) /\ Row(order[j]).role = "TUNING_REWORK" => j <= i
                    /\ order[j][2] = 1 /\ StepOf[order[j][1]] > StepOf[q[1]] => i < j
  BY DEF order
<1>3. /\ order[i] \in Records(u) /\ order[j] \in Records(u)
      /\ order[i] \in Places /\ order[j] \in Places /\ i \in Nat /\ j \in Nat
  BY <1>1 DEF ToSet
<1>4. PICK n \in 2 .. Len(attempts[t]) : q = <<f, n - 1>> /\ order[i] \in RoundOf(f, t, n)
  BY <1>2, <1>3, CausedIs
<1>5. /\ n \in Nat /\ n >= 2 /\ t # f /\ n - 1 \in Nat \ {0}
      /\ <<t, n>> \in Places /\ <<f, n>> \in Places
      /\ Stage(f, <<t, n>>) = StepOf[f] /\ Stage(f, <<f, n>>) = StepOf[f]
      /\ Place(f, <<t, n>>) = 2 * n - 1 /\ Place(f, <<f, n>>) = 2 * n
  <2>1. Len(attempts[t]) \in Nat
    BY <1>0, <1>2, PairRounds
  <2>2. n \in Nat /\ n >= 2 /\ n - 1 \in Nat \ {0}
    BY <2>1
  <2> QED BY <1>0, <1>2, <2>2, RoundPlaces
<1>6. order[i] = <<t, n>> \/ order[i] = <<f, n>>
  BY <1>4 DEF RoundOf
<1>7. ASSUME order[j] = q PROVE j < i
  <2>1. Stage(f, q) = StepOf[f] /\ Place(f, q) \in {0, 2 * (n - 1)} /\ q \in Places
    BY <1>3, <1>4, <1>7 DEF Stage, Place
  <2>2. Place(f, q) < Place(f, order[i]) /\ Stage(f, q) = Stage(f, order[i])
    BY <1>5, <1>6, <2>1
  <2>3. <<order[j], order[i]>> \in Ahead(f)
    BY <1>3, <1>7, <2>2, AheadMeans
  <2> QED BY <1>1, <2>3, AheadIsBefore
<1>8. ASSUME Caused(q, order[j]), Row(order[j]).role = "TUNING_REWORK" PROVE j <= i
  <2>1. PICK m \in 2 .. Len(attempts[t]) : q = <<f, m - 1>> /\ order[j] \in RoundOf(f, t, m)
    BY <1>2, <1>3, <1>8, CausedIs
  <2>2. m = n
    <3>1. Len(attempts[t]) \in Nat /\ m - 1 = n - 1
      BY <1>0, <1>2, <1>4, <2>1, PairRounds
    <3> QED BY <3>1
  <2>3. order[j] = <<t, n>>
    <3> SUFFICES ASSUME n <= Len(attempts[f]), order[j] = <<f, n>> PROVE FALSE
      BY <2>1, <2>2 DEF RoundOf
    <3>1. Len(attempts[f]) \in Nat
      BY <1>0, <1>2, PairRounds
    <3>2. n \in 2 .. Len(attempts[f])
      BY <1>5, <3>1
    <3>3. Row(order[j]).role = "FINAL_TEST_RETEST"
      BY <1>0, <1>2, <3>2, PairRounds DEF Rounds, Row
    <3> QED BY <1>8, <3>3
  <2>4. CASE order[i] = <<t, n>>
    <3>1. DOMAIN order = 1 .. Len(order)
      BY <1>1
    <3>2. i = j
      BY <1>1, <2>3, <2>4, AheadIsOrder, AscendsOnce
    <3> QED BY <1>3, <3>2
  <2>5. CASE order[i] = <<f, n>>
    <3>1. Place(f, order[j]) < Place(f, order[i]) /\ Stage(f, order[j]) = Stage(f, order[i])
      BY <1>5, <2>3, <2>5
    <3>2. <<order[j], order[i]>> \in Ahead(f)
      BY <1>3, <3>1, AheadMeans
    <3>3. j < i
      BY <1>1, <3>2, AheadIsBefore
    <3> QED BY <1>3, <3>3
  <2> QED BY <1>6, <2>4, <2>5
<1>9. ASSUME order[j][2] = 1, StepOf[order[j][1]] > StepOf[q[1]] PROVE i < j
  <2>1. Stage(f, order[j]) = StepOf[order[j][1]] /\ Stage(f, order[i]) = StepOf[f] /\ q[1] = f
    BY <1>4, <1>5, <1>6, <1>9 DEF Stage
  <2>2. Stage(f, order[i]) < Stage(f, order[j])
    <3>1. order[j][1] \in Ops
      BY <1>3 DEF Places
    <3>2. StepOf[order[j][1]] \in Nat /\ StepOf[f] \in Nat
      BY <3>1, ProjectionAssumption
    <3> QED BY <1>9, <2>1, <3>2
  <2>3. <<order[i], order[j]>> \in Ahead(f)
    BY <1>3, <2>2, AheadMeans
  <2> QED BY <1>1, <2>3, AheadIsBefore
<1> QED BY <1>7, <1>8, <1>9

LEMMA RoundsProject ==
  ASSUME TunedThenTested, ShopInv, RoundInv PROVE ProjectionComplete /\ RepairInPlace
<1>1. LoopInv
  BY DEF ShopInv
<1>2. ProjectionComplete
  BY <1>1, UnitComplete, UnitTraced DEF ProjectionComplete
<1>3. RepairInPlace
  BY RepairsPlaced DEF RepairInPlace
<1> QED BY <1>2, <1>3

(* Whatever has been recorded, the execution order of a unit can be computed:    *)
(* every rework is traced to its failure, the loop that inserts the rework       *)
(* groups ends with none left over, and each attempt has one place, those of    *)
(* an operation in the order of their numbers (execution_projection.py).        *)
THEOREM ProjectionEnds == ASSUME TunedThenTested PROVE ShopSpec => []ProjectionComplete
BY RoundsPaired, RoundsProject, PTL

(* In that order a failed test is followed by the tuning and the retest it has   *)
(* caused, before every later step of the routing (_insert_rework_groups).       *)
THEOREM RepairsStayInPlace == ASSUME TunedThenTested PROVE ShopSpec => []RepairInPlace
BY RoundsPaired, RoundsProject, PTL

-----------------------------------------------------------------------------
(* Rework that is completed, and rework that is judged                       *)

(* A rework that is done and ahead of its test has been judged.              *)
JudgedAhead(f, t) ==
  Len(attempts[t]) > Len(attempts[f]) /\ operation[t].state = "COMPLETED" =>
    attempts[t][Len(attempts[t])].result # "NONE"
AheadIsJudged == \A f, t \in Ops : Pair(f, t) => JudgedAhead(f, t)

(* The retest that a failure has caused has been staged.                     *)
RetestStaged(id) ==
  \E f \in Ops : \E m \in DOMAIN attempts[f] :
    attempts[f][m].role = "FINAL_TEST_RETEST" /\ attempts[f][m].event = id

CompletedReworkRetested ==
  \A o \in Ops : \A n \in DOMAIN attempts[o] :
    attempts[o][n].role = "TUNING_REWORK" /\ attempts[o][n].result = "NONE"
      /\ n = Current(o) /\ operation[o].state = "COMPLETED"
        => RetestStaged(attempts[o][n].event)

LEMMA JudgedStep ==
  ASSUME LoopInv, RoundInv, NEW r \in Requests, Accept(r),
         NEW f \in Ops, NEW t \in Ops, Pair(f, t), JudgedAhead(f, t)
  PROVE  JudgedAhead(f, t)'
<1> DEFINE F == Len(attempts[f])
           T == Len(attempts[t])
<1>1. /\ attempts[t] \in Seq(AttemptRows) /\ attempts[t] # <<>> /\ Current(t) = T
      /\ attempts[f] \in Seq(AttemptRows)
  BY DEF LoopInv, IInv, TypeOK, Keyed, Current
<1>2. F \in Nat /\ T \in Nat /\ T >= 1
  BY <1>1
<1>3. /\ Len(attempts'[f]) = IF r.op = t /\ SentOn(r) THEN F + 1 ELSE F
      /\ Len(attempts'[t]) = IF r.op = f /\ SentBack(r) THEN T + 1 ELSE T
  BY AttemptsAfter, SentWithin DEF LoopInv
<1>4. T = F \/ T = F + 1
  BY DEF LoopInv, ReworkLoop, Pair
<1>5. operation[t] \in OperationRows
  BY DEF LoopInv, IInv, TypeOK
<1> HIDE DEF F, T
(* A new rework waits.                                                      *)
<1>6. CASE r.op = f /\ SentBack(r)
  <2>1. SentTo(r, t)
    BY <1>6, SentWithin
  <2>2. operation'[t].state = "WAITING"
    <3>1. operation'[t] = [state |-> "WAITING", current |-> Len(attempts[t]) + 1,
                           eligibleAt |-> r.at]
      BY <2>1, AcceptEffect DEF LoopInv
    <3> QED BY <3>1
  <2> QED BY <2>2 DEF JudgedAhead
(* A completed one has its retest.                                          *)
<1>7. CASE r.op = t /\ SentOn(r)
  <2>1. ~ SentBack(r)
    BY <1>7 DEF SentOn, SentBack, TriggersRework
  <2>2. Len(attempts'[t]) = T /\ Len(attempts'[f]) = F + 1
    BY <1>3, <1>7, <2>1
  <2> QED BY <1>2, <1>4, <2>2 DEF JudgedAhead
<1>8. CASE ~ (r.op = f /\ SentBack(r)) /\ ~ (r.op = t /\ SentOn(r))
  <2>1. Len(attempts'[f]) = F /\ Len(attempts'[t]) = T /\ ~ SentTo(r, t)
    BY <1>3, <1>8, SentWithin
  <2> SUFFICES ASSUME T > F, operation'[t].state = "COMPLETED"
               PROVE  attempts'[t][T].result # "NONE"
    BY <2>1 DEF JudgedAhead
  <2>2. T \in 1 .. Len(attempts[t])
    BY <1>2 DEF T
  <2>3. operation[t].state = "COMPLETED" => attempts[t][T].result # "NONE"
    BY DEF JudgedAhead, F, T
  <2>4. CASE operation[t].state = "COMPLETED"
    <3>1. attempts'[t][T].result = attempts[t][T].result
      BY <2>2, <2>3, <2>4, RowsAfter DEF LoopInv
    <3> QED BY <2>3, <2>4, <3>1
  <2>5. CASE operation[t].state # "COMPLETED"
    <3>1. r.op = t
      BY <2>1, <2>5, AcceptEffect DEF LoopInv
    <3>2. operation'[t] = [operation[t] EXCEPT !.state = After(Snapshot(t), r).state]
      BY <2>1, <3>1, AcceptEffect DEF LoopInv
    <3>3. StateAfter(r) = "COMPLETED"
      BY <1>5, <3>2 DEF After, OperationRows
    <3>4. r.type \in {"COMPLETE", "PASS", "FAIL"}
      BY <3>3 DEF StateAfter, Requests, EventTypes
    (* A COMPLETE would have sent the unit on.                               *)
    <3>5. r.type # "COMPLETE"
      <4>1. T # 1
        <5>1. f # t
          BY SentWithin
        <5>2. F >= 1
          BY DEF LoopInv, IInv, TypeOK, Keyed, F
        <5> QED BY <1>2, <5>2
      <4>2. ProcessOf[t] = "TUNING"
        BY DEF Pair, Running
      <4>3. attempts[t][T].role = "TUNING_REWORK"
        BY <1>1, <2>2, <4>1, <4>2 DEF LoopInv, LoopFacts
      <4> QED BY <1>1, <1>8, <3>1, <4>2, <4>3 DEF SentOn
    <3>6. IsVerdict(r)
      BY <3>4, <3>5 DEF IsVerdict
    <3>7. attempts'[t][T].result = r.type
      BY <1>1, <2>2, <3>1, <3>6, RowsAfter DEF LoopInv
    <3> QED BY <3>4, <3>7
  <2> QED BY <2>4, <2>5
<1> QED BY <1>6, <1>7, <1>8

LEMMA JudgedNext == LoopInv /\ RoundInv /\ AheadIsJudged /\ [Next]_vars => AheadIsJudged'
<1> SUFFICES ASSUME LoopInv, RoundInv, AheadIsJudged, [Next]_vars,
                    NEW f \in Ops, NEW t \in Ops, Pair(f, t)
             PROVE  JudgedAhead(f, t)'
  <2>1. \A f, t \in Ops : Pair(f, t)' <=> Pair(f, t)
    BY DEF Pair, Running
  <2> QED BY <2>1 DEF AheadIsJudged
<1>1. JudgedAhead(f, t)
  BY DEF AheadIsJudged
<1>2. CASE Next
  BY <1>1, <1>2, JudgedStep DEF Next
<1>3. CASE UNCHANGED vars
  BY <1>1, <1>3 DEF JudgedAhead, vars
<1> QED BY <1>2, <1>3

LEMMA UnjudgedHasRetest ==
  ASSUME ShopInv, RoundInv, AheadIsJudged, NEW o \in Ops, NEW n \in DOMAIN attempts[o],
         attempts[o][n].role = "TUNING_REWORK", n = Current(o),
         operation[o].state = "COMPLETED", attempts[o][n].result = "NONE"
  PROVE  RetestStaged(attempts[o][n].event)
<1>1. /\ attempts[o] \in Seq(AttemptRows) /\ n = Len(attempts[o])
      /\ \A q \in Ops : attempts[q] \in Seq(AttemptRows)
  BY DEF ShopInv, LoopInv, IInv, TypeOK, Keyed, Current
<1>2. n \in 2 .. Len(attempts[o])
  <2>1. n # 1
    BY DEF ShopInv, RowFacts, FirstsPlain
  <2>2. n \in 1 .. Len(attempts[o])
    BY RowNumbers DEF ShopInv, LoopInv
  <2>3. Len(attempts[o]) \in Nat
    BY <1>1
  <2> QED BY <2>1, <2>2, <2>3
<1>3. PICK q \in Ops : Pair(o, q) \/ Pair(q, o)
  BY <1>1, <1>2 DEF RoundInv, OnlyPairs
<1>4. ~ Pair(o, q)
  BY <1>2 DEF RoundInv, Rounds
<1>5. Pair(q, o) /\ Rounds(q, o)
  BY <1>3, <1>4 DEF RoundInv
<1>6. Len(attempts[o]) = Len(attempts[q])
  <2>1. ~ (Len(attempts[o]) > Len(attempts[q]))
    BY <1>1, <1>5 DEF AheadIsJudged, JudgedAhead
  <2>2. Len(attempts[o]) \in {Len(attempts[q]), Len(attempts[q]) + 1}
    BY <1>5 DEF ShopInv, LoopInv, ReworkLoop, Pair
  <2> QED BY <1>1, <2>1, <2>2
<1>7. n \in 2 .. Len(attempts[q]) /\ n \in DOMAIN attempts[q]
  BY <1>1, <1>2, <1>6
<1> QED BY <1>5, <1>7 DEF Rounds, RetestStaged

(* CompletedReworksRetested: a rework that was ended by COMPLETE always has its  *)
(* retest staged, in every round: only a tuning that was itself judged, PASS or  *)
(* FAIL, can strand its unit (_stage_rework_after_event stages on COMPLETE).     *)
THEOREM CompletedReworksRetested ==
  ASSUME TunedThenTested
  PROVE  ShopSpec => []CompletedReworkRetested
<1>1. ShopInit => AheadIsJudged
  BY DEF ShopInit, Init, AheadIsJudged, JudgedAhead
<1>2. ShopInv /\ RoundInv /\ AheadIsJudged /\ [ShopNext]_<<vars, external>> => AheadIsJudged'
  <2>1. [ShopNext]_<<vars, external>> => [Next]_vars
    BY DEF ShopNext, vars
  <2> QED BY <2>1, JudgedNext DEF ShopInv
<1>3. ShopInv /\ RoundInv /\ AheadIsJudged => CompletedReworkRetested
  <2> SUFFICES ASSUME ShopInv, RoundInv, AheadIsJudged,
                      NEW o \in Ops, NEW n \in DOMAIN attempts[o],
                      attempts[o][n].role = "TUNING_REWORK", n = Current(o),
                      operation[o].state = "COMPLETED", attempts[o][n].result = "NONE"
               PROVE  RetestStaged(attempts[o][n].event)
    BY DEF CompletedReworkRetested
  <2> QED BY UnjudgedHasRetest
<1> QED BY <1>1, <1>2, <1>3, RoundsPaired, PTL DEF ShopSpec
=============================================================================
