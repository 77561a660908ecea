----------------------------- MODULE SlotProofs ------------------------------
(***************************************************************************)
(* The calendar and the slot search of the scheduler, for every calendar and  *)
(* any resources: what working_segments returns covers just the minutes      *)
(* asked for, can_allocate misses no instant, and the search of              *)
(* find_earliest_feasible_slot ends at the first working instant from which  *)
(* an operation fits.                                                       *)
(***************************************************************************)
EXTENDS Slots, Induction

-----------------------------------------------------------------------------
(* Days and openings                                                        *)

LEMMA Times ==
  ASSUME NEW a \in Nat, NEW b \in Nat, NEW n \in Nat, a < b
  PROVE  a * n + n <= b * n
<1>1. PICK k \in Nat : b = a + 1 + k
  <2>1. b = a + 1 + (b - a - 1) /\ b - a - 1 \in Nat
    OBVIOUS
  <2> QED BY <2>1
<1>2. b * n = a * n + n + k * n /\ k * n \in Nat
  BY <1>1
<1> QED BY <1>2

LEMMA BySeven ==
  ASSUME NEW d \in Nat
  PROVE  \E q \in Nat, m \in 0 .. 6 : d = 7 * q + m
<1> DEFINE q == d \div 7
<1>1. q \in Nat /\ q * 7 <= d /\ d < q * 7 + 7
  OBVIOUS
<1>2. d - 7 * q \in 0 .. 6 /\ d = 7 * q + (d - 7 * q)
  BY <1>1
<1> QED BY <1>1, <1>2

LEMMA HalfOpen ==
  ASSUME NEW a \in Nat, NEW b \in Nat, a <= b
  PROVE  IsFiniteSet(a .. b - 1) /\ Cardinality(a .. b - 1) = b - a
<1>1. a \in Int /\ b - 1 \in Int
  OBVIOUS
<1>2. /\ IsFiniteSet(a .. b - 1)
      /\ Cardinality(a .. b - 1) = IF a > b - 1 THEN 0 ELSE b - 1 - a + 1
  BY <1>1, FS_Interval
<1>3. CASE a > b - 1
  BY <1>2, <1>3
<1>4. CASE a <= b - 1
  <2>1. Cardinality(a .. b - 1) = b - 1 - a + 1
    BY <1>2, <1>4
  <2> QED BY <1>2, <2>1
<1> QED BY <1>3, <1>4

USE CalendarAssumption

(* The day of an instant is the only one it lies in.                        *)
LEMMA DayOf ==
  ASSUME NEW t \in Nat
  PROVE  /\ Day(t) \in Nat
         /\ Day(t) * DayLength <= t
         /\ t < Day(t) * DayLength + DayLength
BY DEF Day

LEMMA DayUnique ==
  ASSUME NEW t \in Nat, NEW d \in Nat, d * DayLength <= t, t < d * DayLength + DayLength
  PROVE  Day(t) = d
<1>1. Day(t) \in Nat /\ Day(t) * DayLength <= t /\ t < Day(t) * DayLength + DayLength
  BY DayOf
<1>2. CASE Day(t) < d
  <2>1. Day(t) * DayLength + DayLength <= d * DayLength
    BY <1>1, <1>2, Times
  <2> QED BY <1>1, <2>1
<1>3. CASE d < Day(t)
  <2>1. d * DayLength + DayLength <= Day(t) * DayLength
    BY <1>1, <1>3, Times
  <2> QED BY <1>1, <2>1
<1> QED BY <1>1, <1>2, <1>3

LEMMA DayMonotone ==
  ASSUME NEW t \in Nat, NEW u \in Nat, t <= u
  PROVE  Day(t) <= Day(u)
<1>1. Day(t) \in Nat /\ Day(t) * DayLength <= t /\ t < Day(t) * DayLength + DayLength
  BY DayOf
<1>2. Day(u) \in Nat /\ Day(u) * DayLength <= u /\ u < Day(u) * DayLength + DayLength
  BY DayOf
<1>3. CASE Day(u) < Day(t)
  <2>1. Day(u) * DayLength + DayLength <= Day(t) * DayLength
    BY <1>1, <1>2, <1>3, Times
  <2> QED BY <1>1, <1>2, <2>1
<1> QED BY <1>1, <1>2, <1>3

LEMMA OpeningWorks ==
  ASSUME NEW d \in Nat
  PROVE  /\ Opening(d) \in Nat /\ Closing(d) \in Nat /\ Opening(d) < Closing(d)
         /\ \A t \in Opening(d) .. Closing(d) : t \in Nat /\ Day(t) = d
<1>1. d * DayLength \in Nat
  OBVIOUS
<1>2. Opening(d) \in Nat /\ Closing(d) \in Nat /\ Opening(d) < Closing(d)
  BY <1>1 DEF Opening, Closing
<1>3. ASSUME NEW t \in Opening(d) .. Closing(d)
      PROVE  t \in Nat /\ Day(t) = d
  <2>1. t \in Nat /\ d * DayLength <= t /\ t < d * DayLength + DayLength
    BY <1>1, <1>2, <1>3 DEF Opening, Closing
  <2> QED BY <2>1, DayUnique
<1> QED BY <1>2, <1>3

(* Within a week there is an active day.                                    *)
LEMMA ActiveDay ==
  ASSUME NEW d \in Nat
  PROVE  \E e \in d + 1 .. d + 7 : Active(e)
<1>1. PICK a \in ActiveWeekdays : a \in 0 .. 6
  OBVIOUS
<1>2. PICK q \in Nat, m \in 0 .. 6 : d = 7 * q + m
  BY BySeven
<1>3. (7 * q + a) % 7 = a /\ (7 * (q + 1) + a) % 7 = a
  BY <1>1, <1>2
<1>4. CASE m < a
  <2>1. 7 * q + a \in d + 1 .. d + 7
    BY <1>1, <1>2, <1>4
  <2> QED BY <1>1, <1>3, <2>1 DEF Active
<1>5. CASE a <= m
  <2>1. 7 * (q + 1) + a \in d + 1 .. d + 7
    BY <1>1, <1>2, <1>5
  <2> QED BY <1>1, <1>3, <2>1 DEF Active
<1> QED BY <1>1, <1>2, <1>4, <1>5

LEMMA WorkingTimes ==
  ASSUME NEW t \in Nat
  PROVE  /\ IsWorkingTime(t) <=> \E d \in Nat : Active(d) /\ t \in Opening(d) .. Closing(d) - 1
         /\ IsWorkingTime(t) => /\ t \in Opening(Day(t)) .. Closing(Day(t)) - 1
                               /\ Active(Day(t)) /\ Day(t) \in Nat
<1>1. ASSUME IsWorkingTime(t)
      PROVE  /\ t \in Opening(Day(t)) .. Closing(Day(t)) - 1
             /\ Active(Day(t)) /\ Day(t) \in Nat
  BY <1>1, DayOf, OpeningWorks DEF IsWorkingTime
<1>2. ASSUME NEW d \in Nat, Active(d), t \in Opening(d) .. Closing(d) - 1
      PROVE  IsWorkingTime(t)
  <2>1. Day(t) = d
    BY <1>2, OpeningWorks
  <2> QED BY <1>2, <2>1, OpeningWorks DEF IsWorkingTime
<1> QED BY <1>1, <1>2

(* The next opening is the first one after t, and no work begins before.     *)
LEMMA NextOpeningFirst ==
  ASSUME NEW t \in Nat
  PROVE  /\ NextOpening(t) \in Nat /\ t < NextOpening(t)
         /\ IsWorkingTime(NextOpening(t))
         /\ Opening(Day(NextOpening(t))) = NextOpening(t)
         /\ \A u \in t .. NextOpening(t) - 1 : IsWorkingTime(u) => Opening(Day(u)) <= t
<1> DEFINE days == {d \in Day(t) .. Day(t) + 7 : Active(d)}
           openings == {Opening(d) : d \in days}
           later == {o \in openings : t < o}
           o == NextOpening(t)
<1>1. Day(t) \in Nat /\ Day(t) * DayLength <= t /\ t < Day(t) * DayLength + DayLength
  BY DayOf
<1>2. later \subseteq Nat
  BY <1>1, OpeningWorks
<1>3. later # {}
  <2>1. PICK e \in Day(t) + 1 .. Day(t) + 7 : Active(e)
    BY <1>1, ActiveDay
  <2>2. e \in Nat /\ Day(t) < e
    BY <1>1, <2>1
  <2>3. Day(t) * DayLength + DayLength <= e * DayLength /\ e * DayLength \in Nat
    BY <1>1, <2>2, Times
  <2>4. t < Opening(e)
    BY <1>1, <2>3 DEF Opening
  <2>5. e \in days
    BY <1>1, <2>1
  <2> QED BY <2>4, <2>5
<1>4. PICK n \in later : \A y \in later : n <= y
  BY <1>2, <1>3, LeastNatural
<1>5. n \in openings /\ t < n /\ \A p \in openings : t < p => n <= p
  BY <1>4
<1>6. o \in openings /\ t < o /\ \A p \in openings : t < p => o <= p
  BY <1>5 DEF NextOpening
<1>7. PICK d \in days : o = Opening(d)
  BY <1>6
<1>8. d \in Nat /\ d <= Day(t) + 7 /\ Active(d)
  BY <1>1, <1>7
<1>9. o \in Nat /\ Day(o) = d /\ IsWorkingTime(o)
  <2>4. Opening(d) \in Nat /\ Closing(d) \in Nat /\ Opening(d) < Closing(d)
    BY <1>8, OpeningWorks
  <2>1. Opening(d) \in Nat /\ Opening(d) \in Opening(d) .. Closing(d) - 1
    BY <2>4
  <2>2. Day(Opening(d)) = d
    <3>1. Opening(d) \in Opening(d) .. Closing(d)
      BY <2>4
    <3> QED BY <1>8, <3>1, OpeningWorks
  <2>3. IsWorkingTime(Opening(d))
    BY <1>8, <2>1, WorkingTimes
  <2> QED BY <1>7, <2>1, <2>2, <2>3
<1>10. ASSUME NEW u \in t .. o - 1, IsWorkingTime(u)
       PROVE  Opening(Day(u)) <= t
  <2>1. u \in Nat /\ t <= u /\ u < o
    BY <1>9
  <2>2. Active(Day(u)) /\ Opening(Day(u)) <= u
    BY <1>10 DEF IsWorkingTime
  <2>3. Day(u) \in Day(t) .. Day(t) + 7
    BY <1>1, <1>8, <1>9, <2>1, DayMonotone, DayOf
  <2>4. Opening(Day(u)) \in openings
    BY <2>2, <2>3
  <2>5. Opening(Day(u)) \in Nat
    BY <2>1, DayOf, OpeningWorks
  <2> HIDE DEF o, openings
  <2> QED BY <1>6, <1>9, <2>1, <2>2, <2>4, <2>5
<1> QED BY <1>6, <1>7, <1>9, <1>10

LEMMA NextWork ==
  ASSUME NEW t \in Nat
  PROVE  /\ NextWorkStart(t) \in Nat /\ t <= NextWorkStart(t)
         /\ IsWorkingTime(NextWorkStart(t))
         /\ \A u \in t .. NextWorkStart(t) - 1 : ~ IsWorkingTime(u)
<1>1. CASE IsWorkingTime(t)
  BY <1>1 DEF NextWorkStart
<1>2. CASE ~ IsWorkingTime(t)
  <2>1. NextWorkStart(t) = NextOpening(t)
    BY <1>2 DEF NextWorkStart
  <2>2. ASSUME NEW u \in t .. NextOpening(t) - 1, IsWorkingTime(u)
        PROVE  FALSE
    <3>1. u \in Nat /\ t <= u
      BY NextOpeningFirst
    <3>2. Opening(Day(u)) <= t /\ u < Closing(Day(u)) /\ Active(Day(u))
      BY <2>2, NextOpeningFirst DEF IsWorkingTime
    <3>3. Day(u) \in Nat /\ t \in Opening(Day(u)) .. Closing(Day(u)) - 1
      BY <3>1, <3>2, DayOf, OpeningWorks
    <3> QED BY <1>2, <3>2, <3>3, WorkingTimes
  <2> QED BY <2>1, <2>2, NextOpeningFirst
<1> QED BY <1>1, <1>2

-----------------------------------------------------------------------------
(* Segments of work                                                         *)

Piece == [start : Nat, end : Nat]
Moments == Nat \X Nat
First(w) == Segment(w[1], w[2])
Rest(w) == w[2] - (First(w).end - First(w).start)
Onward(w) == <<NextWorkStart(First(w).end), Rest(w)>>
(* The function that WorkingSegments is defined by.                          *)
Splits(from) ==
  from = [w \in Moments |->
            <<First(w)>> \o IF Rest(w) = 0 THEN <<>> ELSE from[Onward(w)]]

(* A working instant takes at least an instant off what is left.             *)
LEMMA FirstPiece ==
  ASSUME NEW w \in Moments
  PROVE  /\ First(w) \in Piece /\ First(w).start = w[1] /\ Rest(w) \in Nat
         /\ IsWorkingTime(w[1]) /\ w[2] > 0 =>
              /\ w[1] < First(w).end /\ Rest(w) < w[2]
              /\ First(w).end <= Closing(Day(w[1]))
              /\ \A u \in w[1] .. First(w).end - 1 : IsWorkingTime(u)
              /\ Rest(w) > 0 => ~ IsWorkingTime(First(w).end)
         /\ IsWorkingTime(w[1]) /\ w[2] = 0 => Rest(w) = 0
<1> DEFINE t == w[1]
           left == w[2]
           first == First(w)
           rest == Rest(w)
<1>0. t \in Nat /\ left \in Nat
  BY DEF Moments
<1>1. Day(t) \in Nat /\ Opening(Day(t)) \in Nat /\ Closing(Day(t)) \in Nat
  BY <1>0, DayOf, OpeningWorks
<1>2. /\ first \in Piece /\ first.start = t
      /\ first.end = IF t + left < Closing(Day(t)) THEN t + left ELSE Closing(Day(t))
  BY <1>0, <1>1 DEF First, Segment, Piece
<1>3. first.end \in Nat
  BY <1>2 DEF Piece
<1>4. first.end <= t + left
  BY <1>0, <1>1, <1>2
<1>5. rest \in Nat
  BY <1>0, <1>2, <1>3, <1>4 DEF Rest
<1> HIDE DEF t, left, first
<1>6. ASSUME IsWorkingTime(t), left > 0
      PROVE  /\ t < first.end /\ rest < left
             /\ first.end <= Closing(Day(t))
             /\ \A u \in t .. first.end - 1 : IsWorkingTime(u)
             /\ rest > 0 => ~ IsWorkingTime(first.end)
  <2>1. t < Closing(Day(t)) /\ Active(Day(t)) /\ Opening(Day(t)) <= t
    BY <1>6 DEF IsWorkingTime
  <2>2. t < first.end /\ first.end <= Closing(Day(t))
    BY <1>0, <1>1, <1>2, <1>6, <2>1
  <2>3. rest < left
    BY <1>0, <1>2, <1>3, <2>2 DEF Rest, t, left, first
  <2>4. ASSUME NEW u \in t .. first.end - 1
        PROVE  IsWorkingTime(u)
    <3>1. u \in Nat /\ u \in Opening(Day(t)) .. Closing(Day(t)) - 1
      BY <1>0, <1>1, <1>3, <2>1, <2>2
    <3> QED BY <1>1, <2>1, <3>1, WorkingTimes
  <2>5. ASSUME rest > 0
        PROVE  ~ IsWorkingTime(first.end)
    <3>1. first.end # t + left
      BY <1>0, <1>2, <1>3, <2>5 DEF Rest, t, left, first
    <3>2. first.end = Closing(Day(t))
      BY <1>2, <3>1
    <3>3. Day(first.end) = Day(t)
      BY <1>1, <3>2, OpeningWorks
    <3> QED BY <1>1, <3>2, <3>3 DEF IsWorkingTime
  <2> HIDE DEF rest
  <2> QED BY <2>2, <2>3, <2>4, <2>5
<1>7. ASSUME IsWorkingTime(t), left = 0
      PROVE  rest = 0
  <2>1. t < Closing(Day(t))
    BY <1>7 DEF IsWorkingTime
  <2>2. first.end = t
    BY <1>0, <1>2, <1>7, <2>1
  <2> QED BY <1>0, <1>2, <1>7, <2>2 DEF Rest, t, left, first
<1> QED BY <1>2, <1>5, <1>6, <1>7 DEF t, left, first

(* There is such a function: it ends, for every call after the first has     *)
(* less left to place.                                                      *)
LEMMA SegmentsExist ==
  \E from : /\ from \in [Moments -> Seq(Piece)]
            /\ Splits(from)
<1> DEFINE D == {w \in Moments : Rest(w) = 0}
           V == Seq(Piece)
           r == [w \in Moments |-> <<First(w)>> \o <<>>]
           c == [w \in Moments |-> [s \in V |-> <<First(w)>> \o s]]
           next == [w \in Moments |-> Onward(w)]
           m == [w \in Moments |-> IF IsWorkingTime(w[1]) THEN w[2] ELSE Rest(w) + 1]
<1>1. \A w \in Moments : First(w) \in Piece /\ Rest(w) \in Nat
  BY FirstPiece
<1>2. \A w \in Moments : Onward(w) \in Moments /\ IsWorkingTime(Onward(w)[1]) /\ Onward(w)[2] = Rest(w)
  BY <1>1, NextWork DEF Onward, Moments, Piece
<1>3. \A w \in Moments : m[w] \in Nat
  BY <1>1 DEF Moments
<1>4. ASSUME NEW w \in Moments \ D
      PROVE  next[w] \in Moments /\ m[next[w]] < m[w]
  <2>1. m[next[w]] = Rest(w)
    BY <1>2
  <2>2. Rest(w) > 0
    BY <1>1, <1>4
  <2>3. CASE IsWorkingTime(w[1])
    <3>1. w[2] > 0
      BY <2>2, <2>3, FirstPiece DEF Moments
    <3>2. Rest(w) < w[2]
      BY <2>3, <3>1, FirstPiece
    <3> QED BY <1>2, <2>1, <2>3, <3>2
  <2>4. CASE ~ IsWorkingTime(w[1])
    BY <1>1, <1>2, <2>1, <2>4
  <2> QED BY <2>3, <2>4
<1>5. Descends(Moments, D, next, m)
  <2>1. m \in [Moments -> Nat]
    BY <1>3
  <2> QED BY <1>4, <2>1 DEF Descends
<1>6. \A w \in Moments : <<First(w)>> \in V /\ <<First(w)>> \o <<>> \in V
                        /\ \A s \in V : <<First(w)>> \o s \in V
  BY <1>1
<1>7. <<>> \in V /\ (\A w \in Moments \cap D : r[w] \in V) /\ (\A w \in Moments \ D : c[w] \in [V -> V])
  BY <1>6
<1> HIDE DEF m, V
<1>8. PICK from : Unwinds(from, Moments, D, V, r, c, next)
  <2> HIDE DEF D, r, c, next
  <2> QED BY <1>5, <1>7, LinearRecursion
<1>9. from \in [Moments -> V]
  BY <1>8 DEF Unwinds
<1>10. ASSUME NEW w \in Moments
       PROVE  from[w] = <<First(w)>> \o IF Rest(w) = 0 THEN <<>> ELSE from[Onward(w)]
  <2>1. from[w] = IF w \in D THEN r[w] ELSE c[w][from[next[w]]]
    BY <1>8 DEF Unwinds
  <2>2. CASE w \in D
    BY <2>1, <2>2
  <2>3. CASE w \notin D
    <3>1. from[Onward(w)] \in V
      BY <1>2, <1>9
    <3> QED BY <2>1, <2>3, <3>1
  <2> QED BY <2>2, <2>3
<1>11. Splits(from)
  <2> HIDE DEF D, r, c, next
  <2> QED BY <1>9, <1>10 DEF Splits
<1> QED BY <1>9, <1>11 DEF V

LEMMA SegmentsUnfold ==
  \E from : /\ Splits(from)
            /\ \A t, minutes : WorkingSegments(t, minutes) = from[<<NextWorkStart(t), minutes>>]
<1> DEFINE f == CHOOSE from : Splits(from)
<1>1. Splits(f)
  BY SegmentsExist
<1>2. \A t, minutes : WorkingSegments(t, minutes) = f[<<NextWorkStart(t), minutes>>]
  BY DEF WorkingSegments, Splits, First, Rest, Onward, Moments
<1> QED BY <1>1, <1>2

End(s) == s[Len(s)].end
Within(u, p) == p.start <= u /\ u < p.end

(* The pieces are in order, and hold the working instants from the first to   *)
(* the last: as many as there are minutes.                                  *)
Covers(s, w) ==
  /\ s \in Seq(Piece) /\ s # <<>> /\ s[1].start = w[1]
  /\ \A i \in DOMAIN s : /\ w[1] <= s[i].start /\ s[i].start < s[i].end /\ s[i].end <= End(s)
                        /\ \A u \in Nat : Within(u, s[i]) => IsWorkingTime(u)
  /\ \A i, j \in DOMAIN s : i < j => s[i].end <= s[j].start
  /\ \A u \in Nat : w[1] <= u /\ u < End(s) /\ IsWorkingTime(u) => \E i \in DOMAIN s : Within(u, s[i])
  /\ IsWorkingTime(End(s) - 1)
  /\ Cardinality(Worked(w[1], End(s))) = w[2]

LEMMA CoversLast ==
  ASSUME NEW w \in Moments, IsWorkingTime(w[1]), w[2] > 0, Rest(w) = 0
  PROVE  Covers(<<First(w)>>, w)
<1> DEFINE p == First(w)
           s == <<p>>
<1>1. /\ p \in Piece /\ p.start = w[1] /\ w[1] < p.end
      /\ \A u \in w[1] .. p.end - 1 : IsWorkingTime(u)
  BY FirstPiece
<1>2. w[1] \in Nat /\ w[2] \in Nat /\ p.end \in Nat
  BY <1>1 DEF Moments, Piece
<1>3. p.end - p.start = w[2]
  BY <1>1, <1>2 DEF Rest
<1> HIDE DEF p
<1>4. /\ s \in Seq(Piece) /\ s # <<>> /\ s[1] = p /\ DOMAIN s = {1} /\ End(s) = p.end
  BY <1>1 DEF End
<1>5. \A u \in Nat : Within(u, p) => IsWorkingTime(u)
  BY <1>1, <1>2 DEF Within
<1>6. IsWorkingTime(p.end - 1)
  BY <1>1, <1>2
<1>7. Cardinality(Worked(w[1], p.end)) = w[2]
  <2>1. Worked(w[1], p.end) = w[1] .. p.end - 1
    BY <1>1, <1>2 DEF Worked
  <2>2. Cardinality(w[1] .. p.end - 1) = p.end - w[1]
    BY <1>1, <1>2, HalfOpen
  <2> QED BY <1>1, <1>2, <1>3, <2>1, <2>2
<1>8. Covers(s, w)
  <2> HIDE DEF s
  <2> QED BY <1>1, <1>2, <1>4, <1>5, <1>6, <1>7 DEF Covers, Within
<1> QED BY <1>8 DEF p

LEMMA CoversMore ==
  ASSUME NEW w \in Moments, IsWorkingTime(w[1]), w[2] > 0, Rest(w) > 0,
         NEW s, Covers(s, Onward(w))
  PROVE  Covers(<<First(w)>> \o s, w)
<1> DEFINE p == First(w)
           n == Onward(w)[1]
           t == <<p>> \o s
<1>1. /\ p \in Piece /\ p.start = w[1] /\ w[1] < p.end
      /\ \A u \in w[1] .. p.end - 1 : IsWorkingTime(u)
      /\ ~ IsWorkingTime(p.end) /\ Rest(w) \in Nat
  BY FirstPiece
<1>2. w[1] \in Nat /\ w[2] \in Nat /\ p.start \in Nat /\ p.end \in Nat
  BY <1>1 DEF Moments, Piece
<1>3. p.end - p.start + Rest(w) = w[2] /\ Onward(w)[2] = Rest(w)
  BY <1>1, <1>2 DEF Rest, Onward
<1>4. n = NextWorkStart(p.end)
  BY DEF Onward
<1>5. n \in Nat /\ p.end <= n /\ \A u \in p.end .. n - 1 : ~ IsWorkingTime(u)
  BY <1>2, <1>4, NextWork
<1> HIDE DEF p, n
<1>6. /\ s \in Seq(Piece) /\ s # <<>> /\ s[1].start = n
      /\ \A i \in DOMAIN s : /\ n <= s[i].start /\ s[i].start < s[i].end /\ s[i].end <= End(s)
                            /\ \A u \in Nat : Within(u, s[i]) => IsWorkingTime(u)
      /\ \A i, j \in DOMAIN s : i < j => s[i].end <= s[j].start
      /\ \A u \in Nat : n <= u /\ u < End(s) /\ IsWorkingTime(u) => \E i \in DOMAIN s : Within(u, s[i])
      /\ IsWorkingTime(End(s) - 1)
      /\ Cardinality(Worked(n, End(s))) = Rest(w)
  BY <1>3 DEF Covers, n
<1>7. Len(s) \in Nat /\ Len(s) > 0 /\ DOMAIN s = 1 .. Len(s)
  BY <1>6
<1>8. /\ t \in Seq(Piece) /\ Len(t) = Len(s) + 1 /\ t[1] = p
      /\ DOMAIN t = 1 .. Len(s) + 1
      /\ \A i \in DOMAIN s : t[i + 1] = s[i]
      /\ \A i \in DOMAIN t : i = 1 \/ (i - 1 \in DOMAIN s /\ t[i] = s[i - 1])
  BY <1>1, <1>6, <1>7
<1> HIDE DEF t
<1>9. End(t) = End(s)
  <2>1. Len(s) \in DOMAIN s
    BY <1>7
  <2> QED BY <1>8, <2>1 DEF End
<1>10. \A i \in DOMAIN s : s[i].start \in Nat /\ s[i].end \in Nat
  <2>1. \A i \in 1 .. Len(s) : s[i] \in Piece
    BY <1>6
  <2> QED BY <1>7, <2>1 DEF Piece
<1>11. End(s) \in Nat /\ n < End(s)
  <2>1. Len(s) \in DOMAIN s
    BY <1>7
  <2> QED BY <1>5, <1>6, <1>10, <2>1 DEF End
<1>12. ASSUME NEW i \in DOMAIN t
       PROVE  /\ w[1] <= t[i].start /\ t[i].start < t[i].end /\ t[i].end <= End(t)
              /\ \A u \in Nat : Within(u, t[i]) => IsWorkingTime(u)
  <2>1. CASE i = 1
    BY <1>1, <1>2, <1>5, <1>8, <1>9, <1>11, <2>1 DEF Within
  <2>2. CASE i - 1 \in DOMAIN s /\ t[i] = s[i - 1]
    BY <1>1, <1>2, <1>5, <1>6, <1>9, <1>10, <2>2
  <2> QED BY <1>8, <2>1, <2>2
<1>13. ASSUME NEW i \in DOMAIN t, NEW j \in DOMAIN t, i < j
       PROVE  t[i].end <= t[j].start
  <2>1. i \in Nat /\ j \in Nat /\ j # 1 /\ j - 1 \in DOMAIN s /\ t[j] = s[j - 1]
    BY <1>7, <1>8, <1>13
  <2>2. CASE i = 1
    BY <1>2, <1>5, <1>6, <1>8, <1>10, <2>1, <2>2
  <2>3. CASE i - 1 \in DOMAIN s /\ t[i] = s[i - 1]
    <3>1. i - 1 < j - 1
      BY <1>13, <2>1
    <3> QED BY <1>6, <2>1, <2>3, <3>1
  <2> QED BY <1>8, <2>2, <2>3
<1>14. ASSUME NEW u \in Nat, w[1] <= u, u < End(t), IsWorkingTime(u)
       PROVE  \E i \in DOMAIN t : Within(u, t[i])
  <2>1. CASE u < p.end
    <3>1. 1 \in DOMAIN t /\ Within(u, t[1])
      BY <1>1, <1>7, <1>8, <1>14, <2>1 DEF Within
    <3> QED BY <3>1
  <2>2. CASE p.end <= u
    <3>1. n <= u
      BY <1>2, <1>5, <1>14, <2>2
    <3>2. PICK i \in DOMAIN s : Within(u, s[i])
      BY <1>6, <1>9, <1>14, <3>1
    <3>3. i + 1 \in DOMAIN t /\ t[i + 1] = s[i]
      BY <1>7, <1>8
    <3> QED BY <3>2, <3>3
  <2> QED BY <1>2, <2>1, <2>2
<1>15. Cardinality(Worked(w[1], End(t))) = w[2]
  <2> DEFINE A == w[1] .. p.end - 1
             B == Worked(n, End(s))
  <2>1. Worked(w[1], End(t)) = A \cup B
    <3>1. ASSUME NEW u \in A \cup B
          PROVE  u \in Worked(w[1], End(t))
      BY <1>1, <1>2, <1>5, <1>9, <1>11, <3>1 DEF Worked
    <3>2. ASSUME NEW u \in Worked(w[1], End(t))
          PROVE  u \in A \cup B
      BY <1>1, <1>2, <1>5, <1>9, <1>11, <3>2 DEF Worked
    <3> QED BY <3>1, <3>2
  <2>2. A \cap B = {}
    BY <1>2, <1>5, <1>11 DEF Worked
  <2>3. IsFiniteSet(A) /\ Cardinality(A) = p.end - w[1]
    BY <1>1, <1>2, HalfOpen
  <2>4. IsFiniteSet(B)
    <3>1. IsFiniteSet(n .. End(s) - 1)
      BY <1>5, <1>11, HalfOpen
    <3> QED BY <3>1, FS_Subset DEF Worked
  <2>5. Cardinality(A \cup B) = Cardinality(A) + Cardinality(B) - Cardinality(A \cap B)
    BY <2>3, <2>4, FS_Union
  <2>6. Cardinality(A \cap B) = 0
    BY <2>2, FS_EmptySet
  <2> HIDE DEF A, B
  <2>7. Cardinality(B) = Rest(w)
    BY <1>6 DEF B
  <2> QED BY <1>1, <1>2, <1>3, <2>1, <2>3, <2>5, <2>6, <2>7
<1>16. t # <<>>
  BY <1>7, <1>8
<1>17. Covers(t, w)
  BY <1>1, <1>6, <1>8, <1>9, <1>12, <1>13, <1>14, <1>15, <1>16 DEF Covers
<1> QED BY <1>17 DEF t, p

(* The segments of some work hold just its minutes, from the first working    *)
(* instant on.                                                              *)
LEMMA SegmentsCover ==
  ASSUME NEW t \in Nat, NEW minutes \in Nat \ {0}
  PROVE  Covers(WorkingSegments(t, minutes), <<NextWorkStart(t), minutes>>)
<1>1. PICK from : /\ Splits(from)
                  /\ \A u, m : WorkingSegments(u, m) = from[<<NextWorkStart(u), m>>]
  BY SegmentsUnfold
<1> DEFINE Good == {n \in Nat : \A w \in Moments :
                       IsWorkingTime(w[1]) /\ w[2] > 0 /\ w[2] <= n => Covers(from[w], w)}
<1>2. 0 \in Good
  BY DEF Moments
<1>3. ASSUME NEW n \in Nat, n \in Good
      PROVE  n + 1 \in Good
  <2> SUFFICES ASSUME NEW w \in Moments, IsWorkingTime(w[1]), w[2] > 0, w[2] <= n + 1
               PROVE  Covers(from[w], w)
    OBVIOUS
  <2>1. from[w] = <<First(w)>> \o IF Rest(w) = 0 THEN <<>> ELSE from[Onward(w)]
    BY <1>1 DEF Splits
  <2>2. Rest(w) \in Nat /\ Rest(w) < w[2] /\ First(w) \in Piece
    BY FirstPiece
  <2>3. CASE Rest(w) = 0
    <3>1. from[w] = <<First(w)>>
      BY <2>1, <2>3
    <3> QED BY <2>3, <3>1, CoversLast
  <2>4. CASE Rest(w) > 0
    <3>1. Onward(w) \in Moments /\ IsWorkingTime(Onward(w)[1]) /\ Onward(w)[2] = Rest(w)
      BY <2>2, NextWork DEF Onward, Moments, Piece
    <3>2. Rest(w) <= n
      BY <2>2 DEF Moments
    <3>3. Covers(from[Onward(w)], Onward(w))
      BY <1>3, <2>4, <3>1, <3>2
    <3> QED BY <2>1, <2>2, <2>4, <3>3, CoversMore
  <2> QED BY <2>2, <2>3, <2>4
<1> HIDE DEF Good
<1>4. Nat \subseteq Good
  BY <1>2, <1>3, InductionOnNat
<1> DEFINE w == <<NextWorkStart(t), minutes>>
<1>5. w \in Moments /\ IsWorkingTime(w[1]) /\ w[2] = minutes
  BY NextWork DEF Moments
<1>6. minutes \in Good
  BY <1>4
<1> HIDE DEF w
<1>7. Covers(from[w], w)
  BY <1>5, <1>6 DEF Good
<1> QED BY <1>1, <1>7 DEF w

-----------------------------------------------------------------------------
(* Resources                                                                *)

Booked(allocs) ==
  /\ IsFiniteSet(allocs)
  /\ \A a \in allocs : a.start \in Nat /\ a.end \in Nat /\ a.quantity \in Nat
HeldAt(allocs, t) == {a \in allocs : a.start <= t /\ t < a.end}
OfResource(allocs, r) == {a \in allocs : a.resource = r}

LEMMA QuantityTotal ==
  ASSUME NEW A, Booked(A)
  PROVE  Quantity(A) = Total([a \in A |-> a.quantity], A)
<1> DEFINE f == [a \in A |-> a.quantity]
           h == CHOOSE h : AddsUp(h, f, A)
           k == CHOOSE k : k = [T \in SUBSET A |->
                   IF T = {} THEN 0
                   ELSE (CHOOSE x \in T : TRUE).quantity + k[T \ {CHOOSE x \in T : TRUE}]]
<1>1. IsFiniteSet(A) /\ \A a \in A : f[a] \in Int
  BY DEF Booked
<1>2. PICK g : AddsUp(g, f, A)
  <2> HIDE DEF f
  <2> QED BY <1>1, AddsUpSome
<1>3. \A T \in SUBSET A : T # {} => (CHOOSE x \in T : TRUE).quantity = f[CHOOSE x \in T : TRUE]
  OBVIOUS
<1>4. g = [T \in SUBSET A |->
             IF T = {} THEN 0
             ELSE (CHOOSE x \in T : TRUE).quantity + g[T \ {CHOOSE x \in T : TRUE}]]
  <2> HIDE DEF f
  <2> QED BY <1>2, <1>3 DEF AddsUp
<1>5. k = [T \in SUBSET A |->
             IF T = {} THEN 0
             ELSE (CHOOSE x \in T : TRUE).quantity + k[T \ {CHOOSE x \in T : TRUE}]]
  BY <1>4
<1>6. Quantity(A) = k[A]
  BY DEF Quantity, MapThenSumSet, MapThenFoldSet
<1> HIDE DEF k, f
<1>7. AddsUp(k, f, A)
  BY <1>3, <1>5 DEF AddsUp
<1>8. Total(f, A) = k[A]
  BY <1>1, <1>7, TotalSums
<1> QED BY <1>6, <1>8 DEF f

LEMMA InUseTotal ==
  ASSUME NEW A, Booked(A), NEW t \in Nat
  PROVE  /\ InUse(A, t) = Total([a \in A |-> a.quantity], HeldAt(A, t))
         /\ InUse(A, t) \in Nat
<1> DEFINE H == HeldAt(A, t)
           f == [a \in A |-> a.quantity]
           e == [a \in H |-> a.quantity]
<1>1. H \in SUBSET A /\ Booked(H)
  BY FS_Subset DEF HeldAt, Booked
<1>2. InUse(A, t) = Quantity(H)
  BY DEF InUse, HeldAt
<1> HIDE DEF H
<1>3. Quantity(H) = Total(e, H)
  BY <1>1, QuantityTotal
<1>4. IsFiniteSet(H) /\ \A a \in H : f[a] \in Nat /\ e[a] \in Int /\ e[a] = f[a]
  BY <1>1 DEF Booked
<1> HIDE DEF e, f
<1>5. Total(e, H) = Total(f, H) /\ Total(f, H) \in Nat
  BY <1>4, TotalSame, TotalNat
<1> QED BY <1>2, <1>3, <1>5 DEF H, f

(* More is in use where more is held.                                       *)
LEMMA InUseMore ==
  ASSUME NEW A, Booked(A), NEW B, Booked(B), NEW t \in Nat, NEW u \in Nat,
         HeldAt(A, t) \subseteq HeldAt(B, u)
  PROVE  InUse(A, t) <= InUse(B, u)
<1> DEFINE f == [a \in A |-> a.quantity]
           e == [a \in B |-> a.quantity]
           G == HeldAt(A, t)
           H == HeldAt(B, u)
<1>1. G \in SUBSET A /\ H \in SUBSET B /\ G \in SUBSET H /\ IsFiniteSet(H) /\ IsFiniteSet(G)
  BY FS_Subset DEF HeldAt, Booked
<1>2. InUse(A, t) = Total(f, G) /\ InUse(B, u) = Total(e, H)
  BY InUseTotal
<1>3. \A a \in G : f[a] \in Int /\ f[a] = e[a]
  BY <1>1 DEF Booked
<1>4. \A a \in H : e[a] \in Nat
  BY <1>1 DEF Booked
<1> HIDE DEF e, f, G, H
<1>5. Total(f, G) = Total(e, G) /\ Total(e, G) <= Total(e, H)
  BY <1>1, <1>3, <1>4, TotalSame, TotalSubset
<1> QED BY <1>2, <1>5

LEMMA InUseNone ==
  ASSUME NEW A, Booked(A), NEW t \in Nat, HeldAt(A, t) = {}
  PROVE  InUse(A, t) = 0
BY InUseTotal, TotalEmpty

(* The sweep of can_allocate looks at starts only, and misses nothing.       *)
LEMMA CanAllocateMeans ==
  ASSUME NEW r \in Resources, NEW p \in Piece, p.start < p.end, NEW q \in Nat,
         NEW A, Booked(A)
  PROVE  CanAllocate(r, p, q, A) <=>
           q <= Capacity[r] /\ \A u \in Nat : Within(u, p) => InUse(OfResource(A, r), u) + q <= Capacity[r]
<1> DEFINE C == OfResource(A, r)
           V == {a \in A : a.resource = r /\ Overlap(a, p)}
<1>1. C \in SUBSET A /\ V \in SUBSET C /\ Booked(C) /\ Booked(V)
  BY FS_Subset DEF OfResource, Booked
<1>2. Capacity[r] \in Nat /\ p.start \in Nat /\ p.end \in Nat
  BY CapacityAssumption DEF Piece
<1>3. \A a \in C : a.start \in Nat /\ a.end \in Nat /\ (a \in V <=> a.start < p.end /\ p.start < a.end)
  BY <1>1 DEF Booked, OfResource, Overlap
<1>4. CanAllocate(r, p, q, A) <=>
        q <= Capacity[r] /\ \A a \in V : InUse(V, Later(p.start, a.start)) + q <= Capacity[r]
  BY DEF CanAllocate
<1> HIDE DEF C, V
<1>5. \A u \in Nat : InUse(C, u) \in Nat /\ InUse(V, u) \in Nat
  BY <1>1, InUseTotal
<1>6. ASSUME q <= Capacity[r], \A a \in V : InUse(V, Later(p.start, a.start)) + q <= Capacity[r],
             NEW u \in Nat, Within(u, p)
      PROVE  InUse(C, u) + q <= Capacity[r]
  <2> DEFINE H == HeldAt(C, u)
             S == {a.start : a \in H}
  <2>1. CASE H = {}
    <3>1. InUse(C, u) = 0
      BY <1>1, <2>1, InUseNone
    <3> QED BY <1>2, <1>6, <3>1
  <2>2. CASE H # {}
    <3>1. H \subseteq V /\ \A a \in H : a.start \in Nat /\ a.end \in Nat /\ a.start <= u /\ u < a.end
      BY <1>2, <1>3, <1>6 DEF HeldAt, Within
    <3>2. S \in SUBSET Nat /\ S # {} /\ \A n \in S : n <= u
      BY <2>2, <3>1
    <3>3. PICK m \in S : \A n \in S : n <= m
      <4> HIDE DEF S
      <4> QED BY <3>2, GreatestNatural
    <3>4. PICK a \in H : m = a.start
      BY <3>3
    <3> DEFINE t == Later(p.start, a.start)
    <3>5. t \in Nat /\ t <= u /\ m <= t
      BY <1>2, <1>6, <3>1, <3>2, <3>4 DEF Later, Within
    <3>6. ASSUME NEW b \in H
          PROVE  b \in HeldAt(V, t)
      <4>1. b.start <= m /\ b.start \in Nat /\ b.end \in Nat /\ u < b.end /\ b \in V
        BY <3>1, <3>3, <3>6
      <4>2. b.start <= t /\ t < b.end
        BY <3>2, <3>5, <4>1
      <4> QED BY <4>1, <4>2 DEF HeldAt
    <3>7. HeldAt(C, u) \subseteq HeldAt(V, t)
      BY <3>6
    <3>8. InUse(C, u) <= InUse(V, t)
      BY <1>1, <3>5, <3>7, InUseMore
    <3>9. InUse(V, t) + q <= Capacity[r]
      BY <1>6, <3>1, <3>4
    <3> HIDE DEF t
    <3> QED BY <1>2, <1>5, <3>5, <3>8, <3>9
  <2> QED BY <2>1, <2>2
<1>7. ASSUME \A u \in Nat : Within(u, p) => InUse(C, u) + q <= Capacity[r], NEW a \in V
      PROVE  InUse(V, Later(p.start, a.start)) + q <= Capacity[r]
  <2> DEFINE t == Later(p.start, a.start)
  <2>1. t \in Nat /\ Within(t, p)
    BY <1>1, <1>2, <1>3 DEF Later, Within
  <2>2. HeldAt(V, t) \subseteq HeldAt(C, t)
    BY <1>1 DEF HeldAt
  <2>3. InUse(V, t) <= InUse(C, t) /\ InUse(C, t) + q <= Capacity[r]
    BY <1>1, <1>7, <2>1, <2>2, InUseMore
  <2> HIDE DEF t
  <2>4. InUse(V, t) + q <= Capacity[r]
    BY <1>2, <1>5, <2>1, <2>3
  <2> QED BY <2>4 DEF t
<1> QED BY <1>4, <1>6, <1>7 DEF C

-----------------------------------------------------------------------------
(* The search                                                               *)

IsNeed(need) ==
  /\ DOMAIN need # {} /\ DOMAIN need \subseteq Resources
  /\ \A r \in DOMAIN need : need[r] \in 1 .. Capacity[r]

(* When work of some minutes that begins at t ends.                          *)
EndOfWork(t, minutes) == End(WorkingSegments(t, minutes))
Feasible(t, minutes, need, A) == AllSegmentsFeasible(WorkingSegments(t, minutes), need, A)
(* There is room for it, instant by instant.                                 *)
RoomAt(u, need, A) ==
  \A r \in DOMAIN need : InUse(OfResource(A, r), u) + need[r] <= Capacity[r]

LEMMA WorkFrom ==
  ASSUME NEW t \in Nat, IsWorkingTime(t), NEW minutes \in Nat \ {0}
  PROVE  Covers(WorkingSegments(t, minutes), <<t, minutes>>)
<1>1. NextWorkStart(t) = t
  BY DEF NextWorkStart
<1> QED BY <1>1, SegmentsCover

LEMMA EndAfter ==
  ASSUME NEW t \in Nat, IsWorkingTime(t), NEW minutes \in Nat \ {0}
  PROVE  EndOfWork(t, minutes) \in Nat /\ t < EndOfWork(t, minutes)
<1> DEFINE s == WorkingSegments(t, minutes)
<1>1. Covers(s, <<t, minutes>>)
  BY WorkFrom
<1> HIDE DEF s
<1>2. s \in Seq(Piece) /\ s # <<>> /\ s[1].start = t
  BY <1>1 DEF Covers
<1>3. Len(s) \in Nat /\ Len(s) > 0 /\ DOMAIN s = 1 .. Len(s) /\ \A i \in 1 .. Len(s) : s[i] \in Piece
  BY <1>2
<1>4. 1 \in DOMAIN s /\ Len(s) \in DOMAIN s
  BY <1>3
<1>5. s[1].start < s[1].end /\ s[1].end <= End(s)
  BY <1>1, <1>4 DEF Covers
<1>6. s[1].end \in Nat /\ End(s) \in Nat
  BY <1>3, <1>4 DEF Piece, End
<1> QED BY <1>2, <1>5, <1>6 DEF EndOfWork, s

LEMMA FeasibleMeans ==
  ASSUME NEW t \in Nat, IsWorkingTime(t), NEW minutes \in Nat \ {0},
         NEW need, IsNeed(need), NEW A, Booked(A)
  PROVE  Feasible(t, minutes, need, A) <=>
           \A u \in Nat : t <= u /\ u < EndOfWork(t, minutes) /\ IsWorkingTime(u) => RoomAt(u, need, A)
<1> DEFINE s == WorkingSegments(t, minutes)
<1>1. Covers(s, <<t, minutes>>)
  BY WorkFrom
<1>2. Feasible(t, minutes, need, A) <=>
        \A r \in DOMAIN need : \A i \in DOMAIN s : CanAllocate(r, s[i], need[r], A)
  BY DEF Feasible, AllSegmentsFeasible
<1>3. EndOfWork(t, minutes) = End(s)
  BY DEF EndOfWork
<1> HIDE DEF s
<1>4. s \in Seq(Piece) /\ DOMAIN s = 1 .. Len(s) /\ \A i \in 1 .. Len(s) : s[i] \in Piece
  BY <1>1 DEF Covers
<1>5. \A i \in DOMAIN s : /\ s[i] \in Piece /\ t <= s[i].start /\ s[i].start < s[i].end /\ s[i].end <= End(s)
                        /\ \A u \in Nat : Within(u, s[i]) => IsWorkingTime(u)
  BY <1>1, <1>4 DEF Covers
<1>6. \A u \in Nat : t <= u /\ u < End(s) /\ IsWorkingTime(u) => \E i \in DOMAIN s : Within(u, s[i])
  BY <1>1 DEF Covers
<1>7. ASSUME NEW u \in Nat, NEW i \in DOMAIN s, Within(u, s[i])
      PROVE  t <= u /\ u < End(s) /\ IsWorkingTime(u)
  <2>1. s[i].start \in Nat /\ s[i].end \in Nat /\ End(s) \in Nat
    BY <1>3, <1>5, EndAfter DEF Piece
  <2> QED BY <1>5, <1>7, <2>1 DEF Within
<1>8. \A r \in DOMAIN need : r \in Resources /\ need[r] \in Nat /\ need[r] <= Capacity[r]
  BY CapacityAssumption DEF IsNeed
<1>9. \A r \in DOMAIN need : \A i \in DOMAIN s :
        CanAllocate(r, s[i], need[r], A) <=>
          \A u \in Nat : Within(u, s[i]) => InUse(OfResource(A, r), u) + need[r] <= Capacity[r]
  BY <1>5, <1>8, CanAllocateMeans
<1>10. ASSUME Feasible(t, minutes, need, A), NEW u \in Nat, t <= u, u < End(s), IsWorkingTime(u)
       PROVE  RoomAt(u, need, A)
  <2>1. PICK i \in DOMAIN s : Within(u, s[i])
    BY <1>6, <1>10
  <2> QED BY <1>2, <1>9, <1>10, <2>1 DEF RoomAt
<1>11. ASSUME \A u \in Nat : t <= u /\ u < End(s) /\ IsWorkingTime(u) => RoomAt(u, need, A),
              NEW r \in DOMAIN need, NEW i \in DOMAIN s
       PROVE  CanAllocate(r, s[i], need[r], A)
  BY <1>7, <1>9, <1>11 DEF RoomAt
<1> QED BY <1>2, <1>3, <1>10, <1>11

(* Work that begins later ends later.                                       *)
LEMMA LaterEndsLater ==
  ASSUME NEW t \in Nat, IsWorkingTime(t), NEW v \in Nat, IsWorkingTime(v), t <= v,
         NEW minutes \in Nat \ {0}
  PROVE  EndOfWork(t, minutes) <= EndOfWork(v, minutes)
<1> DEFINE d == EndOfWork(t, minutes)
           e == EndOfWork(v, minutes)
<1>1. d \in Nat /\ e \in Nat /\ t < d /\ v < e
  BY EndAfter
<1>2. /\ Cardinality(Worked(t, d)) = minutes /\ IsWorkingTime(d - 1)
      /\ Cardinality(Worked(v, e)) = minutes
  BY WorkFrom DEF Covers, EndOfWork
<1> SUFFICES d <= e
  OBVIOUS
<1> HIDE DEF d, e
<1> SUFFICES ASSUME e < d PROVE FALSE
  BY <1>1
<1>3. IsFiniteSet(Worked(t, d))
  <2>1. IsFiniteSet(t .. d - 1)
    BY <1>1, HalfOpen
  <2> QED BY <2>1, FS_Subset DEF Worked
<1>4. Worked(v, e) \in SUBSET Worked(t, d)
  BY <1>1 DEF Worked
<1>5. d - 1 \in Worked(t, d) /\ d - 1 \notin Worked(v, e)
  BY <1>1, <1>2 DEF Worked
<1> QED BY <1>2, <1>3, <1>4, <1>5, FS_Subset

LEMMA WorkedFinite ==
  ASSUME NEW t \in Nat, NEW e \in Nat, t <= e
  PROVE  IsFiniteSet(Worked(t, e))
<1>1. IsFiniteSet(t .. e - 1)
  BY HalfOpen
<1> QED BY <1>1, FS_Subset DEF Worked

LEMMA WorkedMore ==
  ASSUME NEW t \in Nat, NEW d \in Nat, NEW e \in Nat, t < d, d < e, IsWorkingTime(e - 1)
  PROVE  Cardinality(Worked(t, d)) # Cardinality(Worked(t, e))
<1>1. IsFiniteSet(Worked(t, e))
  BY WorkedFinite
<1>2. Worked(t, d) \in SUBSET Worked(t, e)
  BY DEF Worked
<1>3. e - 1 \in Worked(t, e) /\ e - 1 \notin Worked(t, d)
  BY DEF Worked
<1> QED BY <1>1, <1>2, <1>3, FS_Subset

(* The search looks for what Fits describes, one instant at a time.          *)
THEOREM FitsMeans ==
  ASSUME NEW t \in Nat, NEW minutes \in Nat \ {0},
         NEW need, IsNeed(need), NEW A, Booked(A), NEW e \in Nat, t < e
  PROVE  Fits(t, e, minutes, need, A) <=>
           IsWorkingTime(t) /\ e = EndOfWork(t, minutes) /\ Feasible(t, minutes, need, A)
<1> SUFFICES ASSUME IsWorkingTime(t)
             PROVE  Fits(t, e, minutes, need, A) <=>
                      e = EndOfWork(t, minutes) /\ Feasible(t, minutes, need, A)
  BY DEF Fits
<1> DEFINE d == EndOfWork(t, minutes)
<1>1. d \in Nat /\ t < d
  BY EndAfter
<1>2. Cardinality(Worked(t, d)) = minutes /\ IsWorkingTime(d - 1)
  BY WorkFrom DEF Covers, EndOfWork
<1>3. Feasible(t, minutes, need, A) <=>
        \A u \in Nat : t <= u /\ u < d /\ IsWorkingTime(u) => RoomAt(u, need, A)
  BY FeasibleMeans
<1>4. \A u : u \in Worked(t, d) <=> u \in Nat /\ t <= u /\ u < d /\ IsWorkingTime(u)
  BY <1>1 DEF Worked
<1>5. Feasible(t, minutes, need, A) <=> \A u \in Worked(t, d) : RoomAt(u, need, A)
  BY <1>3, <1>4
<1> HIDE DEF d
<1>6. ASSUME Fits(t, e, minutes, need, A)
      PROVE  e = d
  <2>1. IsWorkingTime(e - 1) /\ Cardinality(Worked(t, e)) = minutes
    BY <1>6 DEF Fits
  <2>2. ~ (d < e) /\ ~ (e < d)
    BY <1>1, <1>2, <2>1, WorkedMore
  <2> QED BY <1>1, <2>2
<1>7. Fits(t, d, minutes, need, A) <=> \A u \in Worked(t, d) : RoomAt(u, need, A)
  BY <1>2 DEF Fits, RoomAt, OfResource
<1> QED BY <1>5, <1>6, <1>7 DEF d

(* Where more is taken, less fits.                                          *)
LEMMA FeasibleFewer ==
  ASSUME NEW t \in Nat, IsWorkingTime(t), NEW minutes \in Nat \ {0},
         NEW need, IsNeed(need), NEW A, NEW B, Booked(B), A \subseteq B,
         Feasible(t, minutes, need, B)
  PROVE  Feasible(t, minutes, need, A)
<1>1. Booked(A)
  BY FS_Subset DEF Booked
<1>2. ASSUME NEW u \in Nat, RoomAt(u, need, B)
      PROVE  RoomAt(u, need, A)
  <2> SUFFICES ASSUME NEW r \in DOMAIN need
               PROVE  InUse(OfResource(A, r), u) + need[r] <= Capacity[r]
    BY DEF RoomAt
  <2>1. Booked(OfResource(A, r)) /\ Booked(OfResource(B, r))
    BY <1>1, FS_Subset DEF Booked, OfResource
  <2>2. HeldAt(OfResource(A, r), u) \subseteq HeldAt(OfResource(B, r), u)
    BY DEF HeldAt, OfResource
  <2>3. InUse(OfResource(A, r), u) <= InUse(OfResource(B, r), u)
    BY <2>1, <2>2, InUseMore
  <2>4. InUse(OfResource(A, r), u) \in Nat /\ InUse(OfResource(B, r), u) \in Nat
    BY <2>1, InUseTotal
  <2>5. r \in Resources /\ need[r] \in 1 .. Capacity[r]
    BY DEF IsNeed
  <2>6. InUse(OfResource(B, r), u) + need[r] <= Capacity[r]
    BY <1>2 DEF RoomAt
  <2>7. need[r] \in Nat /\ Capacity[r] \in Nat
    BY <2>5, CapacityAssumption
  <2> QED BY <2>3, <2>4, <2>6, <2>7
<1> QED BY <1>1, <1>2, FeasibleMeans

(* The conflict that ends first ends after t, and until then nothing fits.   *)
Conflicts(t, minutes, need, A) ==
  {a \in A : /\ a.resource \in DOMAIN need
             /\ \E i \in DOMAIN WorkingSegments(t, minutes) : Overlap(a, WorkingSegments(t, minutes)[i])}
ConflictEnd(t, minutes, need, A) == NextConflictEnd(WorkingSegments(t, minutes), need, A)

LEMMA ConflictEnds ==
  ASSUME NEW t \in Nat, NEW minutes \in Nat \ {0},
         NEW need, IsNeed(need), NEW A, Booked(A), ~ Feasible(t, minutes, need, A)
  PROVE  /\ ConflictEnd(t, minutes, need, A) \in Nat
         /\ NextWorkStart(t) < ConflictEnd(t, minutes, need, A)
         /\ \E a \in A : ConflictEnd(t, minutes, need, A) = a.end
         /\ \A a \in Conflicts(t, minutes, need, A) : ConflictEnd(t, minutes, need, A) <= a.end
<1> DEFINE s == WorkingSegments(t, minutes)
           C == Conflicts(t, minutes, need, A)
           E == {a.end : a \in C}
           e == ConflictEnd(t, minutes, need, A)
<1>1. Covers(s, <<NextWorkStart(t), minutes>>)
  BY SegmentsCover
<1>2. PICK r \in DOMAIN need, i \in DOMAIN s : ~ CanAllocate(r, s[i], need[r], A)
  BY DEF Feasible, AllSegmentsFeasible
<1>3. C # {}
  <2>1. need[r] <= Capacity[r]
    BY CapacityAssumption DEF IsNeed
  <2>2. PICK a \in A : a.resource = r /\ Overlap(a, s[i])
    BY <1>2, <2>1 DEF CanAllocate
  <2> QED BY <2>2 DEF Conflicts
<1>4. e = Min(E)
  BY DEF ConflictEnd, NextConflictEnd, Conflicts
<1>5. C \subseteq A /\ \A a \in C : \E j \in DOMAIN s : Overlap(a, s[j])
  BY DEF Conflicts
<1> HIDE DEF C, s, e
<1>6. E \in SUBSET Nat /\ E # {}
  BY <1>3, <1>5 DEF Booked
<1>7. \E n \in E : \A m \in E : n <= m
  <2> HIDE DEF E
  <2> QED BY <1>6, LeastNatural
<1>8. e \in E /\ \A m \in E : e <= m
  BY <1>4, <1>7 DEF Min
<1>9. PICK b \in C : e = b.end
  BY <1>8
<1>10. PICK j \in DOMAIN s : Overlap(b, s[j])
  BY <1>5
<1>11. NextWorkStart(t) \in Nat /\ s \in Seq(Piece) /\ NextWorkStart(t) <= s[j].start
  BY <1>1, NextWork DEF Covers
<1>12. s[j] \in Piece
  BY <1>11
<1>13. NextWorkStart(t) < e
  <2>1. s[j].start \in Nat /\ s[j].start < e /\ e \in Nat
    BY <1>6, <1>8, <1>9, <1>10, <1>12 DEF Overlap, Piece
  <2> QED BY <1>11, <2>1
<1> QED BY <1>5, <1>6, <1>8, <1>9, <1>13 DEF C, e

LEMMA NothingBefore ==
  ASSUME NEW t \in Nat, IsWorkingTime(t), NEW minutes \in Nat \ {0},
         NEW need, IsNeed(need), NEW A, Booked(A), ~ Feasible(t, minutes, need, A),
         NEW v \in Nat, IsWorkingTime(v), t <= v, v < ConflictEnd(t, minutes, need, A)
  PROVE  ~ Feasible(v, minutes, need, A)
<1> DEFINE s == WorkingSegments(t, minutes)
           e == ConflictEnd(t, minutes, need, A)
<1>1. PICK u \in Nat : t <= u /\ u < EndOfWork(t, minutes) /\ IsWorkingTime(u) /\ ~ RoomAt(u, need, A)
  BY FeasibleMeans
<1>2. PICK r \in DOMAIN need : ~ (InUse(OfResource(A, r), u) + need[r] <= Capacity[r])
  BY <1>1 DEF RoomAt
<1>3. /\ t \in Nat /\ e \in Nat /\ EndOfWork(t, minutes) \in Nat /\ EndOfWork(v, minutes) \in Nat
      /\ EndOfWork(t, minutes) <= EndOfWork(v, minutes) /\ v < EndOfWork(v, minutes)
  BY ConflictEnds, EndAfter, LaterEndsLater
<1>4. CASE v <= u
  <2>1. u < EndOfWork(v, minutes)
    BY <1>1, <1>3
  <2> QED BY <1>1, <1>4, <2>1, FeasibleMeans
<1>5. CASE u < v
  <2> DEFINE B == OfResource(A, r)
  <2>1. Booked(B) /\ B \subseteq A /\ \A a \in B : a.resource = r
    BY FS_Subset DEF Booked, OfResource
  <2> HIDE DEF B
  <2>2. PICK i \in DOMAIN s : Within(u, s[i])
    <3>1. Covers(s, <<t, minutes>>)
      BY WorkFrom
    <3> QED BY <1>1, <3>1 DEF Covers, EndOfWork
  <2>3. s[i] \in Piece
    <3>1. Covers(s, <<t, minutes>>)
      BY WorkFrom
    <3>2. s \in Seq(Piece)
      BY <3>1 DEF Covers
    <3> HIDE DEF s
    <3> QED BY <3>2
  <2>4. ASSUME NEW a \in HeldAt(B, u)
        PROVE  a \in HeldAt(B, v)
    <3>1. a \in B /\ a.start <= u /\ u < a.end /\ a.start \in Nat /\ a.end \in Nat
      BY <2>1, <2>4 DEF HeldAt, Booked
    <3>2. Overlap(a, s[i])
      BY <2>2, <2>3, <3>1 DEF Overlap, Within, Piece
    <3>3. a \in Conflicts(t, minutes, need, A)
      BY <2>1, <3>1, <3>2 DEF Conflicts
    <3>4. e <= a.end
      BY <3>3, ConflictEnds
    <3> HIDE DEF s, e
    <3>5. v < e
      BY DEF e
    <3> QED BY <1>3, <1>5, <3>1, <3>4, <3>5 DEF HeldAt
  <2>5. InUse(B, u) <= InUse(B, v)
    BY <2>1, <2>4, InUseMore
  <2>6. InUse(B, u) \in Nat /\ InUse(B, v) \in Nat /\ need[r] \in Nat /\ Capacity[r] \in Nat
    <3>1. r \in Resources /\ need[r] \in 1 .. Capacity[r]
      BY DEF IsNeed
    <3>2. InUse(B, u) \in Nat /\ InUse(B, v) \in Nat
      BY <2>1, InUseTotal
    <3> QED BY <3>1, <3>2, CapacityAssumption
  <2>7. ~ (InUse(B, v) + need[r] <= Capacity[r])
    <3>1. ~ (InUse(B, u) + need[r] <= Capacity[r])
      BY <1>2 DEF B
    <3> QED BY <2>5, <2>6, <3>1
  <2>8. ~ RoomAt(v, need, A)
    BY <2>7 DEF RoomAt, B
  <2> QED BY <1>3, <2>8, FeasibleMeans
<1> QED BY <1>4, <1>5

LEMMA BookedBound ==
  ASSUME NEW A, Booked(A)
  PROVE  \E b \in Nat : \A a \in A : a.end <= b
<1> DEFINE F == {B \in SUBSET A : \E b \in Nat : \A a \in B : a.end <= b}
<1>1. {} \in F
  OBVIOUS
<1>2. ASSUME NEW B \in SUBSET A, NEW x \in A \ B, B \in F
      PROVE  B \cup {x} \in F
  <2>1. PICK b \in Nat : \A a \in B : a.end <= b
    BY <1>2
  <2>2. x.end \in Nat /\ \A a \in B : a.end \in Nat
    BY DEF Booked
  <2>3. \A a \in B \cup {x} : a.end <= Later(b, x.end)
    BY <2>1, <2>2 DEF Later
  <2>4. Later(b, x.end) \in Nat
    BY <2>1, <2>2 DEF Later
  <2> QED BY <2>3, <2>4
<1> HIDE DEF F
<1>3. A \in F
  BY <1>1, <1>2, FiniteInduction DEF Booked
<1> QED BY <1>3 DEF F

SlotAt(t, minutes) ==
  [start    |-> WorkingSegments(t, minutes)[1].start,
   end      |-> EndOfWork(t, minutes),
   segments |-> WorkingSegments(t, minutes)]
SlotSet == [start : Nat, end : Nat, segments : Seq(Piece)]
(* The function that EarliestSlot is defined by.                             *)
Searches(f, minutes, need, A) ==
  f = [t \in Nat |-> IF Feasible(t, minutes, need, A) THEN SlotAt(t, minutes)
                     ELSE f[NextWorkStart(ConflictEnd(t, minutes, need, A))]]

(* The search ends: every conflict it meets ends later than the one before.  *)
LEMMA SearchExists ==
  ASSUME NEW minutes \in Nat \ {0}, NEW need, IsNeed(need), NEW A, Booked(A)
  PROVE  \E f : Searches(f, minutes, need, A)
<1> DEFINE D == {t \in Nat : Feasible(t, minutes, need, A)}
           V == {SlotAt(t, minutes) : t \in Nat} \cup {0}
           next == [t \in Nat |-> NextWorkStart(ConflictEnd(t, minutes, need, A))]
           r == [t \in Nat |-> SlotAt(t, minutes)]
           c == [t \in Nat |-> [v \in V |-> v]]
<1>1. PICK b \in Nat : \A a \in A : a.end <= b
  BY BookedBound
<1> DEFINE m == [t \in Nat |-> IF t < b THEN b - t ELSE 0]
<1>2. ASSUME NEW t \in Nat \ D
      PROVE  next[t] \in Nat /\ m[next[t]] < m[t]
  <2> DEFINE e == ConflictEnd(t, minutes, need, A)
  <2>1. e \in Nat /\ NextWorkStart(t) < e /\ e <= b
    BY <1>1, ConflictEnds
  <2>2. t <= NextWorkStart(t) /\ NextWorkStart(t) \in Nat
    BY NextWork
  <2>3. NextWorkStart(e) \in Nat /\ e <= NextWorkStart(e)
    BY <2>1, NextWork
  <2>4. next[t] = NextWorkStart(e)
    OBVIOUS
  <2> HIDE DEF e, next
  <2> QED BY <2>1, <2>2, <2>3, <2>4
<1>3. Descends(Nat, D, next, m)
  <2> HIDE DEF next, D
  <2>1. m \in [Nat -> Nat]
    OBVIOUS
  <2> QED BY <1>2, <2>1 DEF Descends
<1>4. 0 \in V /\ (\A t \in Nat \cap D : r[t] \in V) /\ (\A t \in Nat \ D : c[t] \in [V -> V])
  <2> HIDE DEF D
  <2> QED OBVIOUS
<1>5. PICK f : Unwinds(f, Nat, D, V, r, c, next)
  <2> HIDE DEF D, V, next, r, c, m
  <2> QED BY <1>3, <1>4, LinearRecursion
<1>6. \A t \in Nat \ D : next[t] \in Nat
  BY <1>2
<1>7. f \in [Nat -> V]
  BY <1>5 DEF Unwinds
<1>8. ASSUME NEW t \in Nat
      PROVE  f[t] = IF Feasible(t, minutes, need, A) THEN SlotAt(t, minutes)
                    ELSE f[NextWorkStart(ConflictEnd(t, minutes, need, A))]
  <2>1. f[t] = IF t \in D THEN r[t] ELSE c[t][f[next[t]]]
    BY <1>5 DEF Unwinds
  <2>2. CASE t \in D
    BY <2>1, <2>2
  <2>3. CASE t \notin D
    <3>1. f[next[t]] \in V
      BY <1>6, <1>7, <2>3
    <3>2. c[t][f[next[t]]] = f[next[t]]
      <4> HIDE DEF V, next
      <4> QED BY <3>1
    <3> QED BY <2>1, <2>3, <3>2
  <2> QED BY <2>2, <2>3
<1> QED BY <1>7, <1>8 DEF Searches

Earliest(t, v, minutes, need, A) ==
  /\ v \in Nat /\ t <= v /\ IsWorkingTime(v)
  /\ Feasible(v, minutes, need, A)
  /\ \A u \in Nat : t <= u /\ u < v /\ IsWorkingTime(u) => ~ Feasible(u, minutes, need, A)

THEOREM EarliestSlotFirst ==
  ASSUME NEW t \in Nat, NEW minutes \in Nat \ {0}, NEW need, IsNeed(need), NEW A, Booked(A)
  PROVE  \E v \in Nat : /\ Earliest(t, v, minutes, need, A)
                       /\ EarliestSlot(t, minutes, need, A) = SlotAt(v, minutes)
<1> DEFINE f == CHOOSE f : Searches(f, minutes, need, A)
<1>1. Searches(f, minutes, need, A)
  BY SearchExists
<1>2. EarliestSlot(t, minutes, need, A) = f[NextWorkStart(t)]
  BY DEF EarliestSlot, Searches, Feasible, SlotAt, EndOfWork, End, ConflictEnd
<1> HIDE DEF f
<1>3. PICK b \in Nat : \A a \in A : a.end <= b
  BY BookedBound
<1> DEFINE Found(x) == \E v \in Nat : Earliest(x, v, minutes, need, A) /\ f[x] = SlotAt(v, minutes)
           Good == {n \in Nat : \A x \in Nat : IsWorkingTime(x) /\ b <= x + n => Found(x)}
<1>4. ASSUME NEW x \in Nat, IsWorkingTime(x), Feasible(x, minutes, need, A)
      PROVE  Found(x)
  <2>1. f[x] = SlotAt(x, minutes)
    BY <1>1, <1>4 DEF Searches
  <2>2. Earliest(x, x, minutes, need, A)
    BY <1>4 DEF Earliest
  <2> QED BY <2>1, <2>2
<1>5. ASSUME NEW x \in Nat, ~ Feasible(x, minutes, need, A)
      PROVE  x < b
  <2>1. NextWorkStart(x) < ConflictEnd(x, minutes, need, A) /\ ConflictEnd(x, minutes, need, A) <= b
        /\ ConflictEnd(x, minutes, need, A) \in Nat
    BY <1>3, <1>5, ConflictEnds
  <2>2. x <= NextWorkStart(x) /\ NextWorkStart(x) \in Nat
    BY NextWork
  <2> QED BY <2>1, <2>2
<1>6. 0 \in Good
  BY <1>4, <1>5
<1>7. ASSUME NEW n \in Nat, n \in Good
      PROVE  n + 1 \in Good
  <2> SUFFICES ASSUME NEW x \in Nat, IsWorkingTime(x), b <= x + (n + 1), ~ Feasible(x, minutes, need, A)
               PROVE  Found(x)
    BY <1>4
  <2> DEFINE e == ConflictEnd(x, minutes, need, A)
             y == NextWorkStart(e)
  <2>1. e \in Nat /\ x < e
    <3>1. NextWorkStart(x) = x
      BY DEF NextWorkStart
    <3> QED BY <3>1, ConflictEnds
  <2>2. y \in Nat /\ e <= y /\ IsWorkingTime(y) /\ \A u \in e .. y - 1 : ~ IsWorkingTime(u)
    BY <2>1, NextWork
  <2>3. f[x] = f[y]
    BY <1>1 DEF Searches
  <2>4. \A u \in Nat : x <= u /\ u < e /\ IsWorkingTime(u) => ~ Feasible(u, minutes, need, A)
    BY NothingBefore
  <2> HIDE DEF e, y
  <2>5. b <= y + n
    BY <2>1, <2>2
  <2>6. PICK v \in Nat : Earliest(y, v, minutes, need, A) /\ f[y] = SlotAt(v, minutes)
    BY <1>7, <2>2, <2>5
  <2>7. \A u \in Nat : x <= u /\ u < y /\ IsWorkingTime(u) => ~ Feasible(u, minutes, need, A)
    BY <2>1, <2>2, <2>4
  <2>8. Earliest(x, v, minutes, need, A)
    BY <2>1, <2>2, <2>6, <2>7 DEF Earliest
  <2> QED BY <2>3, <2>6, <2>8
<1> HIDE DEF Good
<1>8. Nat \subseteq Good
  BY <1>6, <1>7, InductionOnNat
<1> DEFINE x == NextWorkStart(t)
<1>9. x \in Nat /\ t <= x /\ IsWorkingTime(x) /\ \A u \in t .. x - 1 : ~ IsWorkingTime(u)
  BY NextWork
<1> HIDE DEF x
<1>10. Found(x)
  <2>1. b \in Good /\ b <= x + b
    BY <1>8, <1>9
  <2> QED BY <1>9, <2>1 DEF Good
<1>11. PICK v \in Nat : Earliest(x, v, minutes, need, A) /\ f[x] = SlotAt(v, minutes)
  BY <1>10
<1>12. Earliest(t, v, minutes, need, A)
  BY <1>9, <1>11 DEF Earliest
<1> QED BY <1>2, <1>11, <1>12 DEF x
=============================================================================
