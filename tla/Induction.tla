----------------------------- MODULE Induction ------------------------------
(***************************************************************************)
(* Induction and recursion, in a form that the first-order provers can use:   *)
(* about sets and functions, where the library's theorems are about          *)
(* operators.  A property to be proved by induction is given as the set of   *)
(* the values that have it; a recursive definition as the functions it is    *)
(* made of.  Everything rests on the library's fact that < is well-founded   *)
(* on the naturals, and strict inclusion on the finite subsets of a set.     *)
(***************************************************************************)
EXTENDS WellFoundedInduction, FiniteSetTheorems, FiniteSetsExt, TLAPS

Less == {p \in Nat \X Nat : p[1] < p[2]}

LEMMA LessWellFounded == IsWellFoundedOn(Less, Nat)
BY NatLessThanWellFounded DEF OpToRel, Less

(* Every nonempty set of naturals has a least element.                      *)
THEOREM LeastNatural ==
  ASSUME NEW S \in SUBSET Nat, S # {}
  PROVE  \E x \in S : \A y \in S : x <= y
<1>1. PICK x \in S : \A y \in S : ~ <<y, x>> \in Less
  BY LessWellFounded, WFMin
<1>2. \A y \in S : ~ (y < x)
  BY <1>1 DEF Less
<1>3. \A y \in S : x <= y
  BY <1>2
<1> QED BY <1>3

(* And a greatest one, if it is bounded.                                    *)
THEOREM GreatestNatural ==
  ASSUME NEW S \in SUBSET Nat, S # {}, NEW b \in Nat, \A y \in S : y <= b
  PROVE  \E x \in S : \A y \in S : y <= x
<1> DEFINE Above == {n \in Nat : \A y \in S : y <= n}
<1>1. PICK x \in Above : \A n \in Above : x <= n
  <2>1. b \in Above /\ Above \in SUBSET Nat
    OBVIOUS
  <2> QED BY <2>1, LeastNatural
<1>2. CASE x \in S
  BY <1>1, <1>2
<1>3. CASE x \notin S
  <2>1. PICK y \in S : TRUE
    OBVIOUS
  <2>2. y <= x /\ y # x
    BY <1>1, <1>3, <2>1
  <2>3. x - 1 \in Nat
    BY <1>1, <2>1, <2>2
  <2>4. \A z \in S : z <= x - 1
    BY <1>1, <1>3
  <2>5. x <= x - 1
    BY <1>1, <2>3, <2>4
  <2> QED BY <1>1, <2>5
<1> QED BY <1>2, <1>3

(* Induction, for a set of naturals.                                        *)
THEOREM InductionOnNat ==
  ASSUME NEW S, 0 \in S, \A n \in Nat : n \in S => n + 1 \in S
  PROVE  Nat \subseteq S
<1> SUFFICES ASSUME Nat \ S # {} PROVE FALSE
  OBVIOUS
<1>1. PICK x \in Nat \ S : \A y \in Nat \ S : x <= y
  BY LeastNatural
<1>2. x # 0 /\ x - 1 \in Nat
  BY <1>1
<1>3. x - 1 \in S
  BY <1>1, <1>2
<1> QED BY <1>1, <1>2, <1>3

(* Induction over a finite set, for a set of its subsets.                   *)
THEOREM FiniteInduction ==
  ASSUME NEW S, IsFiniteSet(S), NEW F, {} \in F,
         \A T \in SUBSET S : \A x \in S \ T : T \in F => T \cup {x} \in F
  PROVE  S \in F
<1> DEFINE Bad == (SUBSET S) \ F
<1> SUFFICES ASSUME Bad # {} PROVE FALSE
  OBVIOUS
<1>1. IsWellFoundedOn(StrictSubsetOrdering(S), SUBSET S)
  BY FS_StrictSubsetOrderingWellFounded, FS_FiniteSubsetsOfFinite
<1>2. Bad \subseteq SUBSET S
  OBVIOUS
<1>3. PICK T \in Bad : \A U \in Bad : ~ <<U, T>> \in StrictSubsetOrdering(S)
  BY <1>1, <1>2, WFMin
<1>4. T # {}
  BY <1>3
<1>5. PICK x \in T : TRUE
  BY <1>4
<1>6. T \ {x} \in SUBSET S /\ T \ {x} # T
  BY <1>3, <1>5
<1>7. <<T \ {x}, T>> \in StrictSubsetOrdering(S)
  BY <1>3, <1>6 DEF StrictSubsetOrdering
<1>8. T \ {x} \in F
  BY <1>3, <1>6, <1>7
<1>9. (T \ {x}) \cup {x} = T /\ x \in S \ (T \ {x})
  BY <1>3, <1>5
<1> QED BY <1>3, <1>6, <1>8, <1>9

-----------------------------------------------------------------------------
(* Recursion                                                                *)

(* f is the recursive function up to n.                                     *)
Computes(f, n, V, a, g) ==
  /\ f \in [0 .. n -> V]
  /\ f[0] = a
  /\ \A i \in 0 .. n - 1 : f[i + 1] = g[i][f[i]]

LEMMA ComputesOne ==
  ASSUME NEW V, NEW a, NEW g, NEW m \in Nat, NEW n \in Nat, NEW e, NEW f,
         Computes(e, m, V, a, g), Computes(f, n, V, a, g)
  PROVE  \A i \in Nat : i <= m /\ i <= n => e[i] = f[i]
<1> DEFINE Same == {i \in Nat : i <= m /\ i <= n => e[i] = f[i]}
<1>1. 0 \in Same
  BY DEF Computes
<1>2. ASSUME NEW i \in Nat, i \in Same
      PROVE  i + 1 \in Same
  <2> SUFFICES ASSUME i + 1 <= m, i + 1 <= n PROVE e[i + 1] = f[i + 1]
    OBVIOUS
  <2>1. e[i] = f[i]
    BY <1>2
  <2>2. i \in 0 .. m - 1 /\ i \in 0 .. n - 1
    OBVIOUS
  <2> QED BY <2>1, <2>2 DEF Computes
<1> HIDE DEF Same
<1>3. Nat \subseteq Same
  BY <1>1, <1>2, InductionOnNat
<1> QED BY <1>3 DEF Same

LEMMA ComputesSome ==
  ASSUME NEW V, NEW a \in V, NEW g, \A i \in Nat : g[i] \in [V -> V]
  PROVE  \A n \in Nat : \E f : Computes(f, n, V, a, g)
<1> DEFINE Good == {n \in Nat : \E f : Computes(f, n, V, a, g)}
<1>1. 0 \in Good
  <2>1. Computes([i \in 0 .. 0 |-> a], 0, V, a, g)
    BY DEF Computes
  <2> QED BY <2>1
<1>2. ASSUME NEW n \in Nat, n \in Good
      PROVE  n + 1 \in Good
  <2>1. PICK f : Computes(f, n, V, a, g)
    BY <1>2
  <2> DEFINE h == [i \in 0 .. n + 1 |-> IF i <= n THEN f[i] ELSE g[n][f[n]]]
  <2>2. f[n] \in V /\ g[n][f[n]] \in V
    BY <2>1 DEF Computes
  <2>3. h \in [0 .. n + 1 -> V]
    BY <2>1, <2>2 DEF Computes
  <2>4. h[0] = a
    BY <2>1 DEF Computes
  <2>5. ASSUME NEW i \in 0 .. (n + 1) - 1
        PROVE  h[i + 1] = g[i][h[i]]
    <3>1. CASE i < n
      BY <2>1, <3>1 DEF Computes
    <3>2. CASE i = n
      BY <3>2
    <3> QED BY <3>1, <3>2
  <2>6. Computes(h, n + 1, V, a, g)
    BY <2>3, <2>4, <2>5 DEF Computes
  <2> QED BY <2>6
<1> HIDE DEF Good
<1>3. Nat \subseteq Good
  BY <1>1, <1>2, InductionOnNat
<1> QED BY <1>3 DEF Good

(* What is defined by primitive recursion exists.                           *)
Recurs(f, V, a, g) ==
  /\ f \in [Nat -> V]
  /\ f[0] = a
  /\ \A i \in Nat : f[i + 1] = g[i][f[i]]

THEOREM Recursion ==
  ASSUME NEW V, NEW a, NEW g, a \in V, \A i \in Nat : g[i] \in [V -> V]
  PROVE  \E f : Recurs(f, V, a, g)
<1> DEFINE part(n) == CHOOSE f : Computes(f, n, V, a, g)
           f == [n \in Nat |-> part(n)[n]]
<1>1. \A n \in Nat : Computes(part(n), n, V, a, g)
  BY ComputesSome
<1> HIDE DEF part
<1>2. f \in [Nat -> V]
  BY <1>1 DEF Computes
<1>3. f[0] = a
  BY <1>1 DEF Computes
<1>4. ASSUME NEW i \in Nat
      PROVE  f[i + 1] = g[i][f[i]]
  <2>1. Computes(part(i), i, V, a, g) /\ Computes(part(i + 1), i + 1, V, a, g)
    BY <1>1
  <2>2. part(i + 1)[i] = part(i)[i]
    BY <2>1, ComputesOne
  <2>3. part(i + 1)[i + 1] = g[i][part(i + 1)[i]]
    BY <2>1 DEF Computes
  <2> QED BY <2>2, <2>3
<1> QED BY <1>2, <1>3, <1>4 DEF Recurs

(* So does what is defined by one call of itself, on a value of a smaller    *)
(* measure: on S the value is r[x] where the recursion ends, in D, and       *)
(* otherwise made by c[x] of the value at next[x].                           *)
Descends(S, D, next, measure) ==
  /\ measure \in [S -> Nat]
  /\ \A x \in S \ D : next[x] \in S /\ measure[next[x]] < measure[x]

Unwinds(f, S, D, V, r, c, next) ==
  /\ f \in [S -> V]
  /\ \A x \in S : f[x] = IF x \in D THEN r[x] ELSE c[x][f[next[x]]]

THEOREM LinearRecursion ==
  ASSUME NEW S, NEW D, NEW V, NEW v \in V, NEW r, NEW c, NEW next, NEW measure,
         Descends(S, D, next, measure),
         \A x \in S \cap D : r[x] \in V,
         \A x \in S \ D : c[x] \in [V -> V]
  PROVE  \E f : Unwinds(f, S, D, V, r, c, next)
<1> DEFINE Step(e) == [x \in S |-> IF x \in D THEN r[x] ELSE c[x][e[next[x]]]]
           start == [x \in S |-> v]
           g == [i \in Nat |-> [e \in [S -> V] |-> Step(e)]]
<1>1. \A e \in [S -> V] : Step(e) \in [S -> V]
  BY DEF Descends
<1>2. start \in [S -> V]
  OBVIOUS
<1>3. \A i \in Nat : g[i] \in [[S -> V] -> [S -> V]]
  BY <1>1
<1>4. PICK h \in [Nat -> [S -> V]] : h[0] = start /\ \A i \in Nat : h[i + 1] = g[i][h[i]]
  <2> DEFINE F == [S -> V]
  <2>1. start \in F /\ \A i \in Nat : g[i] \in [F -> F]
    BY <1>2, <1>3
  <2> HIDE DEF g, start, Step, F
  <2>2. \E h : Recurs(h, F, start, g)
    BY <2>1, Recursion
  <2> QED BY <2>2 DEF F, Recurs
<1>5. \A i \in Nat : h[i] \in [S -> V] /\ h[i + 1] = Step(h[i])
  BY <1>4
<1>6. \A i \in Nat : \A x \in S :
        h[i + 1][x] = IF x \in D THEN r[x] ELSE c[x][h[i][next[x]]]
  <2> TAKE i \in Nat
  <2> TAKE x \in S
  <2>1. h[i + 1] = Step(h[i])
    BY <1>5
  <2> QED BY <2>1
<1> HIDE DEF g, start, Step
<1> DEFINE Stable == {i \in Nat : \A x \in S : measure[x] < i => h[i + 1][x] = h[i][x]}
<1>7. Nat \subseteq Stable
  <2>1. 0 \in Stable
    BY DEF Descends
  <2>2. ASSUME NEW i \in Nat, i \in Stable
        PROVE  i + 1 \in Stable
    <3> SUFFICES ASSUME NEW x \in S, measure[x] < i + 1
                 PROVE  h[(i + 1) + 1][x] = h[i + 1][x]
      OBVIOUS
    <3>1. h[i + 1][x] = (IF x \in D THEN r[x] ELSE c[x][h[i][next[x]]])
      BY <1>6
    <3>2. h[(i + 1) + 1][x] = (IF x \in D THEN r[x] ELSE c[x][h[i + 1][next[x]]])
      BY <1>6
    <3>3. CASE x \in D
      BY <3>1, <3>2, <3>3
    <3>4. CASE x \notin D
      <4>1. next[x] \in S /\ measure[next[x]] < i
        BY <3>4 DEF Descends
      <4>2. h[i + 1][next[x]] = h[i][next[x]]
        BY <2>2, <4>1
      <4> QED BY <3>1, <3>2, <3>4, <4>2
    <3> QED BY <3>3, <3>4
  <2> HIDE DEF Stable
  <2> QED BY <2>1, <2>2, InductionOnNat
<1>8. ASSUME NEW x \in S, NEW m \in Nat, m = measure[x]
      PROVE  \A j \in Nat : h[(m + 1) + j][x] = h[m + 1][x]
  <2> DEFINE Same == {j \in Nat : h[(m + 1) + j][x] = h[m + 1][x]}
  <2>2. 0 \in Same
    OBVIOUS
  <2>3. ASSUME NEW j \in Nat, j \in Same
        PROVE  j + 1 \in Same
    <3>1. (m + 1) + j \in Stable
      BY <1>7
    <3>2. h[((m + 1) + j) + 1][x] = h[(m + 1) + j][x]
      BY <1>8, <3>1
    <3>3. ((m + 1) + j) + 1 = (m + 1) + (j + 1)
      OBVIOUS
    <3> HIDE DEF Stable
    <3> QED BY <2>3, <3>2, <3>3
  <2> HIDE DEF Same
  <2>4. Nat \subseteq Same
    BY <2>2, <2>3, InductionOnNat
  <2> QED BY <2>4 DEF Same
<1> DEFINE f == [x \in S |-> h[measure[x] + 1][x]]
<1>9. f \in [S -> V]
  BY <1>5 DEF Descends
<1>10. ASSUME NEW x \in S
       PROVE  f[x] = IF x \in D THEN r[x] ELSE c[x][f[next[x]]]
  <2>1. measure[x] \in Nat
    BY DEF Descends
  <2>2. f[x] = IF x \in D THEN r[x] ELSE c[x][h[measure[x]][next[x]]]
    BY <1>6, <2>1
  <2>3. CASE x \in D
    BY <2>2, <2>3
  <2>4. CASE x \notin D
    <3>1. next[x] \in S /\ measure[next[x]] \in Nat /\ measure[next[x]] + 1 <= measure[x]
      BY <2>1, <2>4 DEF Descends
    <3> DEFINE j == measure[x] - (measure[next[x]] + 1)
    <3>2. j \in Nat /\ (measure[next[x]] + 1) + j = measure[x]
      BY <2>1, <3>1
    <3>3. h[measure[x]][next[x]] = h[measure[next[x]] + 1][next[x]]
      BY <1>8, <3>1, <3>2
    <3>4. f[next[x]] = h[measure[next[x]] + 1][next[x]]
      BY <3>1
    <3> QED BY <2>2, <2>4, <3>3, <3>4
  <2> QED BY <2>3, <2>4
<1> QED BY <1>9, <1>10 DEF Unwinds

-----------------------------------------------------------------------------
(* Sums over a finite set                                                   *)

(* g is the sum of f over every part of S, in whatever order it is added up.  *)
Sums(g, f, S) ==
  /\ g \in [SUBSET S -> Int]
  /\ g[{}] = 0
  /\ \A T \in SUBSET S : \A x \in T : g[T] = f[x] + g[T \ {x}]

(* The recursion of MapThenSumSet, which picks the elements itself.          *)
AddsUp(g, f, S) ==
  g = [T \in SUBSET S |-> IF T = {} THEN 0
                          ELSE f[CHOOSE x \in T : TRUE] + g[T \ {CHOOSE x \in T : TRUE}]]

LEMMA AddsUpSome ==
  ASSUME NEW S, IsFiniteSet(S), NEW f, \A x \in S : f[x] \in Int
  PROVE  \E g \in [SUBSET S -> Int] : AddsUp(g, f, S)
<1> DEFINE P == SUBSET S
           D == {{}}
           pick == [T \in P |-> CHOOSE x \in T : TRUE]
           next == [T \in P |-> T \ {pick[T]}]
           m == [T \in P |-> Cardinality(T)]
           r == [T \in P |-> 0]
           c == [T \in P |-> [n \in Int |-> f[pick[T]] + n]]
<1>1. \A T \in P \ D : pick[T] \in T /\ pick[T] = CHOOSE x \in T : TRUE
  OBVIOUS
<1>2. \A T \in P : IsFiniteSet(T) /\ Cardinality(T) \in Nat
  BY FS_Subset, FS_CardinalityType
<1> HIDE DEF pick
<1>3. ASSUME NEW T \in P \ D
      PROVE  next[T] \in P /\ m[next[T]] < m[T]
  <2>1. next[T] = T \ {pick[T]} /\ next[T] \in P
    OBVIOUS
  <2>2. Cardinality(T \ {pick[T]}) = Cardinality(T) - 1
    BY <1>1, <1>2, FS_RemoveElement
  <2> QED BY <1>2, <2>1, <2>2
<1>4. Descends(P, D, next, m)
  BY <1>2, <1>3 DEF Descends
<1>5. 0 \in Int /\ (\A T \in P \cap D : r[T] \in Int) /\ (\A T \in P \ D : c[T] \in [Int -> Int])
  <2>1. \A T \in P \ D : f[pick[T]] \in Int
    BY <1>1
  <2> QED BY <2>1
<1>6. PICK g : Unwinds(g, P, D, Int, r, c, next)
  <2> HIDE DEF P, D, next, m, r, c
  <2> QED BY <1>4, <1>5, LinearRecursion
<1>7. g \in [P -> Int]
  BY <1>6 DEF Unwinds
<1>8. ASSUME NEW T \in P
      PROVE  g[T] = IF T = {} THEN 0 ELSE f[CHOOSE x \in T : TRUE] + g[T \ {CHOOSE x \in T : TRUE}]
  <2>1. g[T] = IF T \in D THEN r[T] ELSE c[T][g[next[T]]]
    BY <1>6 DEF Unwinds
  <2>2. CASE T \in D
    BY <2>1, <2>2
  <2>3. CASE T \notin D
    <3>1. g[next[T]] \in Int
      BY <1>7
    <3> QED BY <1>1, <2>1, <2>3, <3>1
  <2> QED BY <2>2, <2>3
<1>9. AddsUp(g, f, S)
  BY <1>7, <1>8 DEF AddsUp
<1> QED BY <1>7, <1>9

(* The order does not matter.                                               *)
LEMMA AddsUpSums ==
  ASSUME NEW S, IsFiniteSet(S), NEW f, \A x \in S : f[x] \in Int, NEW g, AddsUp(g, f, S)
  PROVE  Sums(g, f, S)
<1> DEFINE pick(T) == CHOOSE x \in T : TRUE
           Good == {n \in Nat : \A T \in SUBSET S : Cardinality(T) <= n =>
                      g[T] \in Int /\ \A x \in T : g[T] = f[x] + g[T \ {x}]}
<1>1. \A T \in SUBSET S : IsFiniteSet(T) /\ Cardinality(T) \in Nat
  BY FS_Subset, FS_CardinalityType
<1>2. \A T \in SUBSET S : T # {} => pick(T) \in T
  OBVIOUS
<1>3. g[{}] = 0
  BY DEF AddsUp
<1>4. \A T \in SUBSET S : T # {} => g[T] = f[pick(T)] + g[T \ {pick(T)}]
  BY DEF AddsUp
<1>5. \A T \in SUBSET S : Cardinality(T) = 0 => T = {}
  BY <1>1, FS_EmptySet
<1>6. \A T \in SUBSET S : \A x \in T : Cardinality(T \ {x}) = Cardinality(T) - 1
  BY <1>1, FS_RemoveElement
<1> HIDE DEF pick
<1>7. 0 \in Good
  <2> SUFFICES ASSUME NEW T \in SUBSET S, Cardinality(T) <= 0
               PROVE  g[T] \in Int /\ \A x \in T : g[T] = f[x] + g[T \ {x}]
    OBVIOUS
  <2>1. T = {}
    BY <1>1, <1>5
  <2> QED BY <1>3, <2>1
<1>8. ASSUME NEW n \in Nat, n \in Good
      PROVE  n + 1 \in Good
  <2> SUFFICES ASSUME NEW T \in SUBSET S, Cardinality(T) <= n + 1
               PROVE  g[T] \in Int /\ \A x \in T : g[T] = f[x] + g[T \ {x}]
    OBVIOUS
  <2>0. ASSUME NEW U \in SUBSET S, Cardinality(U) <= n
        PROVE  g[U] \in Int /\ \A x \in U : g[U] = f[x] + g[U \ {x}]
    BY <1>8, <2>0
  <2>1. CASE T = {}
    BY <1>3, <2>1
  <2>2. CASE T # {}
    <3> DEFINE c == pick(T)
               U == T \ {c}
    <3>1. c \in T /\ f[c] \in Int /\ g[T] = f[c] + g[U]
      BY <1>2, <1>4, <2>2
    <3> HIDE DEF c
    <3>2. U \in SUBSET S /\ Cardinality(U) <= n /\ c \notin U
      BY <1>1, <1>6, <3>1
    <3>5. \A x \in T : x # c => x \in U /\ U \ {x} = (T \ {x}) \ {c}
      OBVIOUS
    <3> HIDE DEF U
    <3>3. g[U] \in Int /\ \A x \in U : g[U] = f[x] + g[U \ {x}]
      BY <2>0, <3>2
    <3>4. ASSUME NEW x \in T, x # c
          PROVE  g[T] = f[x] + g[T \ {x}]
      <4>1. T \ {x} \in SUBSET S /\ Cardinality(T \ {x}) <= n /\ c \in T \ {x}
        BY <1>1, <1>6, <3>1, <3>4
      <4>2. g[T \ {x}] = f[c] + g[(T \ {x}) \ {c}]
        BY <2>0, <4>1
      <4>4. x \in U /\ U \ {x} = (T \ {x}) \ {c}
        BY <3>4, <3>5
      <4>3. g[U] = f[x] + g[U \ {x}]
        BY <3>3, <4>4
      <4>5. U \ {x} \in SUBSET S /\ Cardinality(U \ {x}) <= n
        <5>1. Cardinality(U) \in Nat /\ Cardinality(U \ {x}) = Cardinality(U) - 1
          BY <1>1, <1>6, <3>2, <4>4
        <5> QED BY <3>2, <5>1
      <4>6. g[U \ {x}] \in Int
        BY <2>0, <4>5
      <4>7. f[x] \in Int
        OBVIOUS
      <4>8. g[T \ {x}] = f[c] + g[U \ {x}]
        BY <4>2, <4>4
      <4> QED BY <3>1, <4>3, <4>6, <4>7, <4>8
    <3>6. g[T] \in Int
      BY <3>1, <3>3
    <3>7. ASSUME NEW x \in T
          PROVE  g[T] = f[x] + g[T \ {x}]
      <4>1. CASE x = c
        BY <3>1, <4>1 DEF U
      <4>2. CASE x # c
        BY <3>4, <4>2
      <4> QED BY <4>1, <4>2
    <3> QED BY <3>6, <3>7
  <2> QED BY <2>1, <2>2
<1> HIDE DEF Good
<1>9. Nat \subseteq Good
  BY <1>7, <1>8, InductionOnNat
<1>10. \A T \in SUBSET S : g[T] \in Int /\ \A x \in T : g[T] = f[x] + g[T \ {x}]
  BY <1>1, <1>9 DEF Good
<1>11. DOMAIN g = SUBSET S /\ g = [T \in SUBSET S |-> g[T]]
  BY DEF AddsUp
<1>12. g \in [SUBSET S -> Int]
  BY <1>10, <1>11
<1> QED BY <1>3, <1>10, <1>12 DEF Sums

(* Two sums of the same values over the same elements are equal.             *)
LEMMA SumsOne ==
  ASSUME NEW S, NEW T, NEW e, NEW f, NEW g, NEW h, Sums(g, f, S), Sums(h, e, T),
         NEW X, IsFiniteSet(X), X \subseteq S, X \subseteq T, \A x \in X : f[x] = e[x]
  PROVE  g[X] = h[X]
<1> DEFINE F == {Y \in SUBSET X : g[Y] = h[Y]}
<1>1. {} \in F
  BY DEF Sums
<1>2. ASSUME NEW Y \in SUBSET X, NEW x \in X \ Y, Y \in F
      PROVE  Y \cup {x} \in F
  <2>1. (Y \cup {x}) \ {x} = Y /\ Y \cup {x} \in SUBSET S /\ Y \cup {x} \in SUBSET T /\ x \in Y \cup {x}
    OBVIOUS
  <2>2. g[Y \cup {x}] = f[x] + g[Y]
    BY <2>1 DEF Sums
  <2>3. h[Y \cup {x}] = e[x] + h[Y]
    BY <2>1 DEF Sums
  <2> QED BY <1>2, <2>2, <2>3
<1> HIDE DEF F
<1>3. X \in F
  BY <1>1, <1>2, FiniteInduction
<1> QED BY <1>3 DEF F

Total(f, S) == MapThenSumSet(LAMBDA x : f[x], S)

(* What MapThenSumSet returns is such a sum.                                 *)
LEMMA TotalSums ==
  ASSUME NEW S, IsFiniteSet(S), NEW f, \A x \in S : f[x] \in Int
  PROVE  \E g : Sums(g, f, S) /\ Total(f, S) = g[S] /\ \A h : AddsUp(h, f, S) => h[S] = g[S]
<1> DEFINE g == CHOOSE g : AddsUp(g, f, S)
<1>1. AddsUp(g, f, S)
  BY AddsUpSome
<1>2. Total(f, S) = g[S]
  BY DEF Total, MapThenSumSet, MapThenFoldSet, AddsUp
<1> HIDE DEF g
<1>3. Sums(g, f, S)
  BY <1>1, AddsUpSums
<1>4. ASSUME NEW h, AddsUp(h, f, S)
      PROVE  h[S] = g[S]
  BY <1>3, <1>4, AddsUpSums, SumsOne
<1> QED BY <1>2, <1>3, <1>4

THEOREM TotalEmpty == \A f : Total(f, {}) = 0
<1> TAKE f
<1>1. IsFiniteSet({})
  BY FS_EmptySet
<1>2. PICK g : Sums(g, f, {}) /\ Total(f, {}) = g[{}]
  BY <1>1, TotalSums
<1> QED BY <1>2 DEF Sums

THEOREM TotalSame ==
  ASSUME NEW S, IsFiniteSet(S), NEW f, NEW e, \A x \in S : f[x] \in Int /\ f[x] = e[x]
  PROVE  Total(f, S) = Total(e, S)
<1>1. PICK g : Sums(g, f, S) /\ Total(f, S) = g[S]
  BY TotalSums
<1>2. PICK h : Sums(h, e, S) /\ Total(e, S) = h[S]
  BY TotalSums
<1> QED BY <1>1, <1>2, SumsOne

THEOREM TotalSplit ==
  ASSUME NEW S, IsFiniteSet(S), NEW f, \A x \in S : f[x] \in Int, NEW x \in S
  PROVE  /\ Total(f, S) = f[x] + Total(f, S \ {x})
         /\ Total(f, S \ {x}) \in Int /\ Total(f, S) \in Int
<1> DEFINE T == S \ {x}
<1>1. IsFiniteSet(T) /\ T \in SUBSET S /\ S \in SUBSET S
  BY FS_Subset
<1>2. PICK g : Sums(g, f, S) /\ Total(f, S) = g[S]
  BY TotalSums
<1>3. PICK h : Sums(h, f, T) /\ Total(f, T) = h[T]
  BY <1>1, TotalSums
<1>4. g[T] = h[T]
  BY <1>1, <1>2, <1>3, SumsOne
<1> QED BY <1>1, <1>2, <1>3, <1>4 DEF Sums

THEOREM TotalAdd ==
  ASSUME NEW S, IsFiniteSet(S), NEW x, x \notin S, NEW f, \A y \in S \cup {x} : f[y] \in Int
  PROVE  Total(f, S \cup {x}) = f[x] + Total(f, S)
<1>1. IsFiniteSet(S \cup {x}) /\ (S \cup {x}) \ {x} = S /\ x \in S \cup {x}
  BY FS_AddElement
<1> QED BY <1>1, TotalSplit

THEOREM TotalNat ==
  ASSUME NEW S, IsFiniteSet(S), NEW f, \A x \in S : f[x] \in Nat
  PROVE  Total(f, S) \in Nat
<1> DEFINE F == {T \in SUBSET S : Total(f, T) \in Nat}
<1>1. {} \in F
  BY TotalEmpty
<1>2. ASSUME NEW T \in SUBSET S, NEW x \in S \ T, T \in F
      PROVE  T \cup {x} \in F
  <2>1. IsFiniteSet(T)
    BY FS_Subset
  <2>2. \A y \in T \cup {x} : f[y] \in Int
    OBVIOUS
  <2>3. Total(f, T \cup {x}) = f[x] + Total(f, T)
    BY <2>1, <2>2, TotalAdd
  <2> QED BY <1>2, <2>3
<1> HIDE DEF F
<1>3. S \in F
  BY <1>1, <1>2, FiniteInduction
<1> QED BY <1>3 DEF F

THEOREM TotalSubset ==
  ASSUME NEW S, IsFiniteSet(S), NEW f, \A x \in S : f[x] \in Nat, NEW T \in SUBSET S
  PROVE  Total(f, T) <= Total(f, S)
<1> DEFINE R == S \ T
           F == {U \in SUBSET R : Total(f, T) <= Total(f, T \cup U)}
<1>1. IsFiniteSet(R) /\ \A U \in SUBSET S : IsFiniteSet(U) /\ Total(f, U) \in Nat
  BY FS_Subset, TotalNat
<1>2. {} \in F
  <2>1. T \cup {} = T /\ Total(f, T) \in Nat
    BY <1>1
  <2> QED BY <2>1
<1>3. ASSUME NEW U \in SUBSET R, NEW x \in R \ U, U \in F
      PROVE  U \cup {x} \in F
  <2>1. T \cup (U \cup {x}) = (T \cup U) \cup {x} /\ x \notin T \cup U /\ T \cup U \in SUBSET S
    OBVIOUS
  <2> DEFINE W == T \cup U
  <2>4. IsFiniteSet(W) /\ x \notin W /\ \A y \in W \cup {x} : f[y] \in Int
    BY <1>1, <2>1
  <2>2. Total(f, W \cup {x}) = f[x] + Total(f, W)
    <3> HIDE DEF W
    <3> QED BY <2>4, TotalAdd
  <2>3. Total(f, T) \in Nat /\ Total(f, T \cup U) \in Nat /\ f[x] \in Nat
    BY <1>1, <2>1
  <2>6. Total(f, T) <= Total(f, W)
    BY <1>3
  <2>7. Total(f, T) <= Total(f, W \cup {x})
    <3> HIDE DEF W
    <3>1. Total(f, W) \in Nat
      BY <2>3 DEF W
    <3> QED BY <2>2, <2>3, <2>6, <3>1
  <2>5. Total(f, T) <= Total(f, T \cup (U \cup {x}))
    BY <2>1, <2>7
  <2> QED BY <2>5
<1> HIDE DEF F
<1>4. R \in F
  BY <1>1, <1>2, <1>3, FiniteInduction
<1>5. T \cup R = S
  OBVIOUS
<1> QED BY <1>4, <1>5 DEF F
=============================================================================
