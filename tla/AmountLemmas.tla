--------------------------- MODULE AmountLemmas ---------------------------
(***************************************************************************)
(* Amounts of money: the accrual formula, for every rate, total, start     *)
(* time and scale; and what SumFunction of the community module Functions  *)
(* computes, for every finite domain, which the proofs about money held    *)
(* for many streams rest on.                                               *)
(***************************************************************************)
EXTENDS Protocol, Functions, FiniteSetTheorems, TLAPS

\* Truncating division by k: the quotient is a natural number, keeps the order,
\* and is off by less than one unit.
LEMMA DivMonotone ==
    ASSUME NEW x \in Nat, NEW y \in Nat, x <= y, NEW k \in Nat \ {0}
    PROVE  x \div k <= y \div k
  OBVIOUS

LEMMA DivBounds ==
    ASSUME NEW x \in Nat, NEW k \in Nat \ {0}
    PROVE  /\ x \div k \in Nat
           /\ (x \div k) * k <= x
           /\ x < (x \div k) * k + k
  OBVIOUS

LEMMA TimesMonotone ==
    ASSUME NEW r \in Nat, NEW a \in Nat, NEW b \in Nat, a <= b
    PROVE  r * a \in Nat /\ r * b \in Nat /\ r * a <= r * b
  OBVIOUS

LEMMA ElapsedMonotone ==
    ASSUME NEW t, HasAccrual(t), NEW m \in Int, NEW n \in Int, m <= n
    PROVE  /\ elapsedAt(t, m) \in Nat
           /\ elapsedAt(t, n) \in Nat
           /\ elapsedAt(t, m) <= elapsedAt(t, n)
  BY DEF elapsedAt, HasAccrual

LEMMA UncappedMonotone ==
    ASSUME NEW t, HasAccrual(t), NEW m \in Int, NEW n \in Int, m <= n
    PROVE  /\ uncappedAt(t, m) \in Nat
           /\ uncappedAt(t, n) \in Nat
           /\ uncappedAt(t, m) <= uncappedAt(t, n)
  <1> DEFINE x == t.ratePerSecond * elapsedAt(t, m)
             y == t.ratePerSecond * elapsedAt(t, n)
  <1>1. t.ratePerSecond \in Nat
    BY DEF HasAccrual
  <1>2. x \in Nat /\ y \in Nat /\ x <= y
    BY <1>1, ElapsedMonotone, TimesMonotone
  <1>3. uncappedAt(t, m) = x \div RATE_SCALE /\ uncappedAt(t, n) = y \div RATE_SCALE
    BY DEF uncappedAt
  <1> HIDE DEF x, y
  <1>4. x \div RATE_SCALE <= y \div RATE_SCALE
    BY <1>2, DivMonotone, ProtocolAssumption
  <1>5. x \div RATE_SCALE \in Nat /\ y \div RATE_SCALE \in Nat
    BY <1>2, DivBounds, ProtocolAssumption
  <1> QED
    BY <1>3, <1>4, <1>5

\* The accrual is a natural number and never exceeds the total of the terms.
THEOREM AccruedBounded ==
    ASSUME NEW t, HasAccrual(t), NEW n \in Int
    PROVE  accruedAt(t, n) \in Nat /\ accruedAt(t, n) <= t.total
  <1>1. uncappedAt(t, n) \in Nat
    BY UncappedMonotone
  <1> QED
    BY <1>1 DEF accruedAt, HasAccrual

\* The accrual never shrinks as time passes: a later authorization is never
\* for less, so cumulative figures can be applied in any order.
THEOREM AccruedMonotone ==
    ASSUME NEW t, HasAccrual(t), NEW m \in Int, NEW n \in Int, m <= n
    PROVE  accruedAt(t, m) <= accruedAt(t, n)
  <1>1. /\ uncappedAt(t, m) \in Nat
        /\ uncappedAt(t, n) \in Nat
        /\ uncappedAt(t, m) <= uncappedAt(t, n)
    BY UncappedMonotone
  <1> QED
    BY <1>1 DEF accruedAt, HasAccrual

------------------------------------------------------------------------------
(* Sums.  SumFunction folds over a recursive function on the subsets of    *)
(* its domain.  The induction here is over sets of numbers: every          *)
(* non-empty set of naturals has a least element (theorem WFMin of the     *)
(* library).                                                               *)

\* A set of naturals that holds 0 and every successor holds every natural.
LEMMA NatSet ==
    ASSUME NEW T, 0 \in T, \A n \in Nat : n \in T => n + 1 \in T
    PROVE  \A n \in Nat : n \in T
  <1> DEFINE Out == {n \in Nat : n \notin T}
  <1> SUFFICES ASSUME Out # {} PROVE FALSE
    OBVIOUS
  <1>1. PICK least \in Out : \A m \in Out : <<m, least>> \notin OpToRel(<, Nat)
    <2> HIDE DEF Out
    <2>1. Out \subseteq Nat
      BY DEF Out
    <2> QED
      BY <2>1, NatLessThanWellFounded, WFMin
  <1>2. \A m \in Out : ~(m < least)
    BY <1>1 DEF OpToRel
  <1> QED
    <2>1. least \in Nat /\ least # 0 /\ least \notin T
      OBVIOUS
    <2>2. least - 1 \in Nat /\ least - 1 < least /\ (least - 1) + 1 = least
      BY <2>1
    <2>3. least - 1 \in T
      BY <1>2, <2>2
    <2> QED
      BY <2>1, <2>2, <2>3

------------------------------------------------------------------------------

\* One unfolding of the recursion in SumFunction.
Unfold(f, g, s) ==
    IF s = {} THEN 0
    ELSE LET x == CHOOSE x \in s : TRUE IN f[x] + g[s \ {x}]

\* g holds the sums of f over the subsets of S.
Sums(f, S, g) == g = [s \in SUBSET S |-> Unfold(f, g, s)]

\* Over a finite set the recursion has a solution.  Approximations that are
\* right for the subsets of at most n elements are built up from n = 0.
LEMMA SumsExist ==
    ASSUME NEW S, IsFiniteSet(S), NEW f
    PROVE  \E g : Sums(f, S, g)
  <1> DEFINE Right(g, n) == \A s \in SUBSET S : Cardinality(s) <= n => g[s] = Unfold(f, g, s)
             Reached == {n \in Nat : \E g : Right(g, n)}
  <1>1. \A s \in SUBSET S : IsFiniteSet(s) /\ Cardinality(s) \in Nat
    BY FS_Subset, FS_CardinalityType
  <1>2. 0 \in Reached
    <2> DEFINE g == [s \in SUBSET S |-> 0]
    <2>1. \A s \in SUBSET S : Cardinality(s) <= 0 => s = {}
      BY <1>1, FS_EmptySet
    <2>2. Right(g, 0)
      BY <2>1 DEF Unfold
    <2> QED
      BY <2>2
  <1>3. ASSUME NEW n \in Nat, n \in Reached
        PROVE  n + 1 \in Reached
    <2>1. PICK g : Right(g, n)
      BY <1>3
    <2> DEFINE h == [s \in SUBSET S |-> Unfold(f, g, s)]
    <2>2. ASSUME NEW s \in SUBSET S, Cardinality(s) <= n + 1
          PROVE  h[s] = Unfold(f, h, s)
      <3>1. CASE s = {}
        BY <3>1 DEF Unfold
      <3>2. CASE s # {}
        <4> DEFINE x == CHOOSE x \in s : TRUE
                   t == s \ {x}
        <4>1. x \in s
          BY <3>2
        <4> HIDE DEF x
        <4>2. t \in SUBSET S
          OBVIOUS
        <4>3. Cardinality(t) <= n
          BY <1>1, <2>2, <4>1, FS_RemoveElement
        <4>4. h[t] = g[t]
          BY <2>1, <4>2, <4>3
        <4>5. h[s] = f[x] + g[t]
          BY <3>2 DEF Unfold, x
        <4>6. Unfold(f, h, s) = f[x] + h[t]
          BY <3>2 DEF Unfold, x
        <4> QED
          BY <4>4, <4>5, <4>6
      <3> QED
        BY <3>1, <3>2
    <2>3. Right(h, n + 1)
      BY <2>2
    <2> HIDE DEF h
    <2>4. \E k : Right(k, n + 1)
      BY <2>3
    <2> QED
      BY <2>4
  <1>4. Cardinality(S) \in Reached
    <2> HIDE DEF Reached
    <2> QED
      BY <1>1, <1>2, <1>3, NatSet
  <1>5. PICK g : Right(g, Cardinality(S))
    BY <1>4
  <1>6. \A s \in SUBSET S : g[s] = Unfold(f, g, s)
    BY <1>5, FS_Subset
  <1> DEFINE h == [s \in SUBSET S |-> g[s]]
  <1>7. \A s \in SUBSET S : Unfold(f, h, s) = Unfold(f, g, s)
    BY DEF Unfold
  <1>8. Sums(f, S, h)
    BY <1>6, <1>7 DEF Sums
  <1> QED
    BY <1>8

\* SumFunction is the sum over the whole domain in such a solution.
LEMMA SumIsSums ==
    ASSUME NEW f, IsFiniteSet(DOMAIN f)
    PROVE  \E g : Sums(f, DOMAIN f, g) /\ SumFunction(f) = g[DOMAIN f]
  <1> DEFINE g == CHOOSE g : Sums(f, DOMAIN f, g)
  <1>1. Sums(f, DOMAIN f, g)
    BY SumsExist
  <1>2. SumFunction(f) = g[DOMAIN f]
    BY DEF SumFunction, SumFunctionOnSet, FoldFunctionOnSet, MapThenFoldSet, Sums, Unfold
  <1> QED
    BY <1>1, <1>2

------------------------------------------------------------------------------
(* The sums of integers do not depend on the order of the summation. *)

LEMMA SumsOfInts ==
    ASSUME NEW S, IsFiniteSet(S), NEW f \in [S -> Int], NEW g, Sums(f, S, g)
    PROVE  /\ g[{}] = 0
           /\ \A s \in SUBSET S : g[s] \in Int
           /\ \A s \in SUBSET S : \A y \in s : g[s] = f[y] + g[s \ {y}]
  <1> DEFINE Fine(s) == g[s] \in Int /\ \A y \in s : g[s] = f[y] + g[s \ {y}]
             Reached == {n \in Nat : \A s \in SUBSET S : Cardinality(s) <= n => Fine(s)}
  <1>0. \A s \in SUBSET S : IsFiniteSet(s) /\ Cardinality(s) \in Nat
    BY FS_Subset, FS_CardinalityType
  <1>1. \A s \in SUBSET S : g[s] = Unfold(f, g, s)
    BY DEF Sums
  <1>2. g[{}] = 0
    BY <1>1 DEF Unfold
  <1>3. 0 \in Reached
    <2>1. ASSUME NEW s \in SUBSET S, Cardinality(s) <= 0
          PROVE  Fine(s)
      BY <1>0, <1>2, <2>1, FS_EmptySet
    <2> QED
      BY <2>1
  <1>4. ASSUME NEW n \in Nat, n \in Reached
        PROVE  n + 1 \in Reached
    <2>1. ASSUME NEW s \in SUBSET S, Cardinality(s) <= n + 1
          PROVE  Fine(s)
      <3>0. CASE s = {}
        BY <1>2, <3>0
      <3> DEFINE x == CHOOSE x \in s : TRUE
      <3>1. SUFFICES ASSUME s # {} PROVE Fine(s)
        BY <3>0
      <3>2. x \in s
        BY <3>1
      <3>3. g[s] = f[x] + g[s \ {x}]
        BY <1>1, <3>1 DEF Unfold
      <3> HIDE DEF x
      <3>4. ASSUME NEW y \in s
            PROVE  (s \ {y}) \in SUBSET S /\ Fine(s \ {y})
        <4>1. (s \ {y}) \in SUBSET S
          OBVIOUS
        <4>2. Cardinality(s \ {y}) <= n
          BY <1>0, <2>1, FS_RemoveElement
        <4> QED
          BY <1>4, <4>1, <4>2
      <3>5. ASSUME NEW y \in s, y # x
            PROVE  g[s] = f[y] + g[s \ {y}]
        <4> DEFINE r == (s \ {x}) \ {y}
        <4>1. r = (s \ {y}) \ {x}
          OBVIOUS
        <4>2. g[s \ {x}] = f[y] + g[r]
          BY <3>2, <3>4, <3>5
        <4>3. g[s \ {y}] = f[x] + g[r]
          <5>1. x \in s \ {y}
            BY <3>2, <3>5
          <5> HIDE DEF r
          <5>2. g[s \ {y}] = f[x] + g[(s \ {y}) \ {x}]
            BY <3>4, <5>1
          <5> QED
            BY <4>1, <5>2
        <4>4. r \in SUBSET S /\ f[x] \in Int /\ f[y] \in Int
          BY <3>2
        <4>5. g[s \ {x}] \in Int /\ g[s \ {y}] \in Int
          BY <3>2, <3>4
        <4>6. g[r] \in Int
          <5>1. Cardinality(s \ {x}) <= n /\ IsFiniteSet(s \ {x})
            BY <1>0, <2>1, <3>2, FS_RemoveElement
          <5>2. r \subseteq s \ {x}
            OBVIOUS
          <5>3. Cardinality(r) <= Cardinality(s \ {x})
            BY <5>1, <5>2, FS_Subset
          <5>4. Cardinality(r) \in Nat /\ Cardinality(s \ {x}) \in Nat
            BY <1>0, <4>4
          <5>5. Cardinality(r) <= n
            BY <5>1, <5>3, <5>4
          <5> QED
            BY <1>4, <4>4, <5>5
        <4> HIDE DEF r
        <4> QED
          BY <3>3, <4>2, <4>3, <4>4, <4>5, <4>6
      <3>6. g[s] \in Int
        BY <3>2, <3>3, <3>4
      <3> QED
        BY <3>3, <3>5, <3>6
    <2> QED
      BY <2>1
  <1>5. \A n \in Nat : n \in Reached
    <2> HIDE DEF Reached
    <2> QED
      BY <1>3, <1>4, NatSet
  <1>6. \A s \in SUBSET S : Fine(s)
    BY <1>0, <1>5
  <1> QED
    BY <1>2, <1>6

\* Two functions that agree on T have the same sum over any set that the first
\* one is zero on outside T.
LEMMA SumsAgree ==
    ASSUME NEW S, IsFiniteSet(S), NEW T \in SUBSET S,
           NEW f \in [S -> Int], NEW g, Sums(f, S, g),
           NEW h \in [T -> Int], NEW k, Sums(h, T, k),
           NEW u \in SUBSET S,
           \A x \in u : IF x \in T THEN f[x] = h[x] ELSE f[x] = 0
    PROVE  g[u] = k[u \cap T]
  <1> DEFINE Same(s) == g[s] = k[s \cap T]
             Reached == {n \in Nat : \A s \in SUBSET u : Cardinality(s) <= n => Same(s)}
  <1>0. \A s \in SUBSET u : s \in SUBSET S /\ IsFiniteSet(s) /\ Cardinality(s) \in Nat
    BY FS_Subset, FS_CardinalityType
  <1>1. IsFiniteSet(T)
    BY FS_Subset
  <1>2. /\ g[{}] = 0
        /\ \A s \in SUBSET S : g[s] \in Int
        /\ \A s \in SUBSET S : \A y \in s : g[s] = f[y] + g[s \ {y}]
    BY SumsOfInts
  <1>3. /\ k[{}] = 0
        /\ \A s \in SUBSET T : k[s] \in Int
        /\ \A s \in SUBSET T : \A y \in s : k[s] = h[y] + k[s \ {y}]
    BY <1>1, SumsOfInts
  <1>4. Same({})
    <2>1. {} \cap T = {}
      OBVIOUS
    <2> QED
      BY <1>2, <1>3, <2>1
  <1>5. 0 \in Reached
    <2>1. ASSUME NEW s \in SUBSET u, Cardinality(s) <= 0
          PROVE  s = {}
      BY <1>0, <2>1, FS_EmptySet
    <2> QED
      BY <1>4, <2>1
  <1>6. ASSUME NEW n \in Nat, n \in Reached
        PROVE  n + 1 \in Reached
    <2>1. ASSUME NEW s \in SUBSET u, Cardinality(s) <= n + 1, NEW x \in s
          PROVE  Same(s)
      <3>1. Same(s \ {x})
        <4>1. Cardinality(s \ {x}) <= n
          BY <1>0, <2>1, FS_RemoveElement
        <4>2. (s \ {x}) \in SUBSET u
          OBVIOUS
        <4> QED
          BY <1>6, <4>1, <4>2
      <3>2. g[s] = f[x] + g[s \ {x}]
        BY <1>0, <1>2
      <3>3. CASE x \in T
        <4>1. (s \cap T) \ {x} = (s \ {x}) \cap T
          OBVIOUS
        <4>2. (s \cap T) \in SUBSET T /\ x \in s \cap T
          BY <3>3
        <4>3. k[s \cap T] = h[x] + k[(s \cap T) \ {x}]
          BY <1>3, <4>2
        <4>4. f[x] = h[x]
          BY <3>3
        <4> QED
          BY <3>1, <3>2, <4>1, <4>3, <4>4
      <3>4. CASE x \notin T
        <4>1. s \cap T = (s \ {x}) \cap T
          BY <3>4
        <4>2. f[x] = 0
          BY <3>4
        <4>3. g[s \ {x}] \in Int
          <5>1. (s \ {x}) \in SUBSET u
            OBVIOUS
          <5> QED
            BY <1>0, <1>2, <5>1
        <4>4. g[s] = g[s \ {x}]
          <5>1. ASSUME NEW a \in Int PROVE 0 + a = a
            OBVIOUS
          <5> QED
            BY <3>2, <4>2, <4>3, <5>1
        <4>5. g[s \ {x}] = k[(s \ {x}) \cap T]
          BY <3>1
        <4> QED
          BY <4>1, <4>4, <4>5, Zenon
      <3> QED
        BY <3>3, <3>4
    <2>2. ASSUME NEW s \in SUBSET u, Cardinality(s) <= n + 1
          PROVE  Same(s)
      BY <1>4, <2>1, <2>2
    <2> QED
      BY <2>2
  <1>7. \A n \in Nat : n \in Reached
    <2> HIDE DEF Reached
    <2> QED
      BY <1>5, <1>6, NatSet
  <1>8. \A s \in SUBSET u : Same(s)
    BY <1>0, <1>7
  <1> QED
    BY <1>8

------------------------------------------------------------------------------
(* The facts used elsewhere. *)

\* A sum of integers is an integer.
LEMMA SumInt ==
    ASSUME NEW S, IsFiniteSet(S), NEW f \in [S -> Int]
    PROVE  SumFunction(f) \in Int
  <1>1. DOMAIN f = S
    OBVIOUS
  <1>2. PICK g : Sums(f, S, g) /\ SumFunction(f) = g[S]
    BY <1>1, SumIsSums
  <1> QED
    BY <1>2, SumsOfInts

\* Zeros may be left out of a sum.
LEMMA SumWithoutZeros ==
    ASSUME NEW S, IsFiniteSet(S), NEW T \in SUBSET S,
           NEW f \in [S -> Int], NEW h \in [T -> Int],
           \A x \in S : IF x \in T THEN f[x] = h[x] ELSE f[x] = 0
    PROVE  SumFunction(f) = SumFunction(h)
  <1>1. DOMAIN f = S /\ DOMAIN h = T /\ IsFiniteSet(T)
    BY FS_Subset
  <1>2. PICK g : Sums(f, S, g) /\ SumFunction(f) = g[S]
    BY <1>1, SumIsSums
  <1>3. PICK k : Sums(h, T, k) /\ SumFunction(h) = k[T]
    BY <1>1, SumIsSums
  <1>4. S \cap T = T
    OBVIOUS
  <1>5. g[S] = k[S \cap T]
    BY <1>2, <1>3, SumsAgree
  <1> QED
    BY <1>2, <1>3, <1>4, <1>5

\* Changing one summand changes the sum by as much.
LEMMA SumUpdate ==
    ASSUME NEW S, IsFiniteSet(S), NEW y \in S,
           NEW f \in [S -> Int], NEW h \in [S -> Int],
           \A x \in S \ {y} : h[x] = f[x]
    PROVE  SumFunction(h) = SumFunction(f) + h[y] - f[y]
  <1>1. DOMAIN f = S /\ DOMAIN h = S
    OBVIOUS
  <1>2. PICK g : Sums(f, S, g) /\ SumFunction(f) = g[S]
    BY <1>1, SumIsSums
  <1>3. PICK k : Sums(h, S, k) /\ SumFunction(h) = k[S]
    BY <1>1, SumIsSums
  <1> DEFINE r == S \ {y}
  <1>4. g[r] = k[r \cap S]
    BY <1>2, <1>3, SumsAgree
  <1>5. r \cap S = r
    OBVIOUS
  <1>6. g[S] = f[y] + g[r] /\ g[r] \in Int
    BY <1>2, SumsOfInts
  <1>7. k[S] = h[y] + k[r]
    BY <1>3, SumsOfInts
  <1>8. f[y] \in Int /\ h[y] \in Int
    OBVIOUS
  <1> HIDE DEF r
  <1> QED
    BY <1>2, <1>3, <1>4, <1>5, <1>6, <1>7, <1>8

\* A sum of zeros is zero.
LEMMA SumZero ==
    ASSUME NEW S, IsFiniteSet(S), NEW f \in [S -> Int], \A x \in S : f[x] = 0
    PROVE  SumFunction(f) = 0
  <1> DEFINE none == {}
             h == [x \in none |-> 0]
  <1>1. DOMAIN h = none /\ h \in [none -> Int] /\ IsFiniteSet(none)
    BY FS_EmptySet
  <1>2. none \in SUBSET S /\ \A x \in S : x \notin none
    OBVIOUS
  <1> HIDE DEF none, h
  <1>3. SumFunction(f) = SumFunction(h)
    BY <1>1, <1>2, SumWithoutZeros
  <1>4. PICK k : Sums(h, none, k) /\ SumFunction(h) = k[none]
    BY <1>1, SumIsSums
  <1>5. k[{}] = 0
    BY <1>1, <1>4, SumsOfInts
  <1> QED
    BY <1>3, <1>4, <1>5 DEF none
==============================================================================
