-------------------------- MODULE IntervalProofs --------------------------
(* What ipcalc.py computes, for every set of intervals and any bounds: the *)
(* complement covers the numbers within the bounds that no interval does.  *)
(* Induction over sequences is by counting: a set of numbers up to n that  *)
(* holds 0 and with each number the next holds n, or the successor would   *)
(* map it into itself less 0 (the pigeonhole principle).                   *)
EXTENDS Intervals, FiniteSetTheorems, TLAPS

LEMMA CountUp ==
  ASSUME NEW n \in Nat, NEW G \in SUBSET (0..n), 0 \in G,
         \A k \in G : k < n => k + 1 \in G
  PROVE  n \in G
<1> SUFFICES ASSUME n \notin G PROVE FALSE
  OBVIOUS
<1>1. IsFiniteSet(0..n)
  BY FS_Interval
<1>2. IsFiniteSet(G) /\ IsFiniteSet(G \ {0})
  BY <1>1, FS_Subset
<1> DEFINE f == [k \in G |-> k + 1]
<1>3. \A k \in G : k + 1 \in G \ {0}
  OBVIOUS
<1>4. f \in [G -> G \ {0}]
  BY <1>3
<1>5. Cardinality(G \ {0}) < Cardinality(G)
  BY <1>2, FS_RemoveElement, FS_CardinalityType
<1>6. \A g \in [G -> G \ {0}] : \E x \in G, y \in G : x # y /\ g[x] = g[y]
  BY <1>2, <1>5, FS_PigeonHole
<1>7. PICK x \in G, y \in G : x # y /\ f[x] = f[y]
  BY <1>4, <1>6
<1>8. QED
  BY <1>7

LEMMA CountAll ==
  ASSUME NEW n \in Nat, NEW G, 0 \in G,
         \A k \in 0..n : k \in G /\ k < n => k + 1 \in G
  PROVE  \A m \in 0..n : m \in G
<1> SUFFICES ASSUME NEW m \in 0..n
             PROVE  m \in G
  OBVIOUS
<1> DEFINE H == G \cap (0..m)
<1>1. m \in Nat /\ 0 \in H /\ H \in SUBSET (0..m)
  OBVIOUS
<1>2. ASSUME NEW k \in H, k < m
      PROVE  k + 1 \in H
  <2>1. k \in 0..n /\ k < n /\ k \in G /\ k + 1 \in 0..m
    BY <1>2
  <2>2. QED
    BY <2>1
<1>3. m \in H
  <2> HIDE DEF H
  <2>1. QED
    BY <1>1, <1>2, CountUp
<1>4. QED
  BY <1>3

-----------------------------------------------------------------------------
(* Folds.                                                                  *)

LEMMA UpTo ==
  ASSUME NEW k \in Nat, NEW S \in SUBSET (1..(k + 1))
  PROVE  /\ S \ {k + 1} \in SUBSET (1..k)
         /\ k + 1 \notin S => S \in SUBSET (1..k)
<1>1. \A x \in S : x # k + 1 => x \in 1..k
  OBVIOUS
<1>2. QED
  BY <1>1

LEMMA NoIndex == 1..0 = {}
OBVIOUS

LEMMA MaxFacts ==
  ASSUME NEW n \in Nat, NEW S \in SUBSET (1..n), S # {}
  PROVE  Max(S) \in S /\ \A y \in S : Max(S) >= y
<1> DEFINE Topped(k) == \A T \in SUBSET (1..k) : T # {} => \E x \in T : \A y \in T : x >= y
           G == {k \in 0..n : Topped(k)}
<1>1. 0 \in G
  <2>1. Topped(0)
    BY NoIndex
  <2>2. QED
    BY <2>1
<1>2. ASSUME NEW k \in G, k < n
      PROVE  k + 1 \in G
  <2>0. k \in Nat /\ Topped(k)
    OBVIOUS
  <2>1. ASSUME NEW T \in SUBSET (1..(k + 1)), T # {}
        PROVE  \E x \in T : \A y \in T : x >= y
    <3>1. CASE k + 1 \in T
      BY <2>0, <3>1
    <3>2. CASE k + 1 \notin T
      BY <2>0, <2>1, <3>2, UpTo
    <3>3. QED
      BY <3>1, <3>2
  <2>2. k + 1 \in 0..n /\ Topped(k + 1)
    BY <1>2, <2>0, <2>1
  <2>3. QED
    BY <2>2
<1> HIDE DEF G
<1>3. n \in G
  BY <1>1, <1>2, CountUp DEF G
<1>4. \E x \in S : \A y \in S : x >= y
  BY <1>3 DEF G
<1>5. QED
  BY <1>4 DEF Max

(* A fold over a sequence is a function on the sets of its indices; there  *)
(* is one.                                                                 *)
Unrolls(h, n, base, step) ==
  \A S \in SUBSET (1..n) :
    h[S] = IF S = {} THEN base ELSE step[Max(S), h[S \ {Max(S)}]]

LEMMA Iterate ==
  ASSUME NEW V, NEW base \in V, NEW n \in Nat, NEW step \in [(1..n) \X V -> V]
  PROVE  \E h \in [SUBSET (1..n) -> V] : Unrolls(h, n, base, step)
<1> DEFINE Iterates(h, k) == Unrolls(h, k, base, step)
           Some(k) == \E h \in [SUBSET (1..k) -> V] : Iterates(h, k)
           G == {k \in 0..n : Some(k)}
<1>1. Some(0)
  <2> DEFINE h == [S \in SUBSET (1..0) |-> base]
  <2>1. h \in [SUBSET (1..0) -> V]
    OBVIOUS
  <2>2. Iterates(h, 0)
    BY NoIndex DEF Unrolls
  <2> HIDE DEF h, Iterates
  <2>3. QED
    BY <2>1, <2>2
<1>2. ASSUME NEW k \in Nat, k < n, Some(k)
      PROVE  Some(k + 1)
  <2>1. PICK h \in [SUBSET (1..k) -> V] : Iterates(h, k)
    BY <1>2
  <2> DEFINE D == SUBSET (1..(k + 1))
             g == [S \in D |->
                     IF k + 1 \in S THEN step[k + 1, h[S \ {k + 1}]] ELSE h[S]]
  <2> HIDE DEF Iterates, Some, G
  <2>2. k + 1 \in Nat /\ k + 1 \in 1..n
    BY <1>2
  <2>3. ASSUME NEW S \in D
        PROVE  /\ h[S \ {k + 1}] \in V
               /\ k + 1 \notin S => h[S] \in V
    BY UpTo
  <2> HIDE DEF D
  <2>4. g \in [D -> V]
    <3>1. ASSUME NEW S \in D
          PROVE  (IF k + 1 \in S THEN step[k + 1, h[S \ {k + 1}]] ELSE h[S]) \in V
      BY <2>2, <2>3
    <3>2. QED
      BY <3>1
  <2>5. ASSUME NEW S \in D, S # {}
        PROVE  g[S] = step[Max(S), g[S \ {Max(S)}]]
    <3>1. S \in SUBSET (1..(k + 1)) /\ S \ {Max(S)} \in D /\ S \ {k + 1} \in D
      BY DEF D
    <3>2. Max(S) \in S /\ \A y \in S : Max(S) >= y
      BY <2>2, <2>5, <3>1, MaxFacts
    <3>3. CASE k + 1 \in S
      <4>1. Max(S) = k + 1
        <5>1. Max(S) \in 1..(k + 1) /\ Max(S) >= k + 1
          BY <3>1, <3>2, <3>3
        <5> HIDE DEF g
        <5>2. QED
          BY <5>1
      <4>2. g[S] = step[k + 1, h[S \ {k + 1}]] /\ g[S \ {k + 1}] = h[S \ {k + 1}]
        BY <3>1, <3>3
      <4>3. QED
        BY <4>1, <4>2
    <3>4. CASE k + 1 \notin S
      <4>1. S \in SUBSET (1..k)
        BY <3>1, <3>4, UpTo
      <4>2. g[S] = h[S] /\ g[S \ {Max(S)}] = h[S \ {Max(S)}]
        BY <3>1, <3>4
      <4>3. h[S] = step[Max(S), h[S \ {Max(S)}]]
        BY <2>1, <2>5, <4>1 DEF Iterates, Unrolls
      <4>4. QED
        BY <4>2, <4>3
    <3>5. QED
      BY <3>3, <3>4
  <2>6. g[{}] = base
    <3>1. {} \in D /\ {} \in SUBSET (1..k)
      BY DEF D
    <3>2. h[{}] = base
      BY <2>1, <3>1 DEF Iterates, Unrolls
    <3>3. QED
      BY <3>1, <3>2
  <2> HIDE DEF g
  <2>7. Iterates(g, k + 1)
    BY <2>5, <2>6 DEF D, Iterates, Unrolls
  <2>8. QED
    BY <2>4, <2>7 DEF D, Some
<1> HIDE DEF Some
<1>3. 0 \in G /\ \A k \in G : k < n => k + 1 \in G
  BY <1>1, <1>2
<1>4. n \in G
  <2>1. G \in SUBSET (0..n)
    OBVIOUS
  <2> HIDE DEF G
  <2>2. QED
    BY <1>3, <2>1, CountUp
<1>5. QED
  BY <1>4 DEF Some

-----------------------------------------------------------------------------
(* The two folds of Merge and Complement.                                  *)

Pair == Int \X Int
PairSeq == Seq(Pair)

LEMMA IndexSets ==
  ASSUME NEW n \in Nat, NEW k \in 1..n
  PROVE  /\ 1..k \in SUBSET (1..n) /\ 1..k # {}
         /\ Max(1..k) = k /\ (1..k) \ {k} = 1..(k - 1)
<1>1. 1..k \in SUBSET (1..n) /\ k \in 1..k /\ (1..k) \ {k} = 1..(k - 1)
  OBVIOUS
<1>2. Max(1..k) \in 1..k /\ Max(1..k) >= k
  BY <1>1, MaxFacts
<1>3. QED
  BY <1>1, <1>2

LEMMA AbsorbType ==
  ASSUME NEW m \in PairSeq, NEW i \in Pair
  PROVE  Absorb(m, i) \in PairSeq
<1>1. CASE m # <<>> /\ i[1] <= Last(m)[2] + 1
  <2>1. Len(m) \in Nat /\ Len(m) \in 1..Len(m) /\ m \in [1..Len(m) -> Pair]
    BY <1>1 DEF PairSeq
  <2>2. <<m[Len(m)][1], Larger(m[Len(m)][2], i[2])>> \in Pair
    BY <2>1 DEF Larger, Pair
  <2>3. [m EXCEPT ![Len(m)] = <<@[1], Larger(@[2], i[2])>>] \in [1..Len(m) -> Pair]
    BY <2>1, <2>2
  <2>4. QED
    BY <1>1, <2>1, <2>3 DEF Absorb, PairSeq
<1>2. CASE ~(m # <<>> /\ i[1] <= Last(m)[2] + 1)
  BY <1>2 DEF Absorb, PairSeq
<1>3. QED
  BY <1>1, <1>2

LEMMA AbsorbFold ==
  ASSUME NEW n \in Nat, NEW s \in [1..n -> Pair]
  PROVE  \E a \in [0..n -> PairSeq] :
           /\ a[0] = <<>>
           /\ \A k \in 1..n : a[k] = Absorb(a[k - 1], s[k])
           /\ a[n] = FoldLeft(Absorb, <<>>, s)
<1> DEFINE step == [x \in (1..n) \X PairSeq |-> Absorb(x[2], s[x[1]])]
           Iter(f) == f = [S \in SUBSET (1..n) |->
                             IF S = {} THEN <<>>
                             ELSE LET x == Max(S) IN Absorb(f[S \ {x}], s[x])]
           it == CHOOSE f : Iter(f)
<1>1. step \in [(1..n) \X PairSeq -> PairSeq]
  BY AbsorbType
<1>2. \A k \in 1..n, v \in PairSeq : step[k, v] = Absorb(v, s[k])
  OBVIOUS
<1>3. FoldLeft(Absorb, <<>>, s) = it[1..n]
  BY DEF FoldLeft, MapThenFoldSet
<1> HIDE DEF step
<1>4. \E f : Iter(f)
  <2>1. <<>> \in PairSeq
    BY DEF PairSeq
  <2>2. PICK h \in [SUBSET (1..n) -> PairSeq] : Unrolls(h, n, <<>>, step)
    <3> HIDE DEF it, Iter, PairSeq
    <3>1. QED
      BY <1>1, <2>1, Iterate
  <2>3. ASSUME NEW S \in SUBSET (1..n), S # {}
        PROVE  h[S] = Absorb(h[S \ {Max(S)}], s[Max(S)])
    <3>1. Max(S) \in 1..n /\ S \ {Max(S)} \in SUBSET (1..n)
      BY <2>3, MaxFacts
    <3>2. QED
      BY <1>2, <2>2, <2>3, <3>1 DEF Unrolls
  <2>4. Iter(h)
    BY <2>2, <2>3 DEF Unrolls
  <2>5. QED
    BY <2>4
<1>5. Iter(it)
  BY <1>4
<1> HIDE DEF it
<1> DEFINE a == [k \in 0..n |-> it[1..k]]
           G == {k \in 0..n : a[k] \in PairSeq}
<1>6. a[0] = <<>> /\ a[n] = FoldLeft(Absorb, <<>>, s)
  <2>1. a[0] = it[{}] /\ a[n] = it[1..n]
    BY NoIndex
  <2>2. it[{}] = <<>>
    BY <1>5
  <2>3. QED
    BY <1>3, <2>1, <2>2
<1>7. ASSUME NEW k \in 1..n
      PROVE  a[k] = Absorb(a[k - 1], s[k])
  <2>1. /\ 1..k \in SUBSET (1..n) /\ 1..k # {}
        /\ Max(1..k) = k /\ (1..k) \ {k} = 1..(k - 1)
    BY IndexSets
  <2>2. it[1..k] = Absorb(it[1..(k - 1)], s[k])
    BY <1>5, <2>1
  <2>3. k \in 0..n /\ k - 1 \in 0..n
    OBVIOUS
  <2>4. QED
    BY <2>2, <2>3
<1>8. DOMAIN a = 0..n
  OBVIOUS
<1> HIDE DEF a, Iter
<1>9. 0 \in G
  <2>1. <<>> \in PairSeq /\ 0 \in 0..n
    BY DEF PairSeq
  <2>2. QED
    BY <1>6, <2>1
<1>10. ASSUME NEW k \in 0..n, k \in G, k < n
       PROVE  k + 1 \in G
  <2>1. a[k] \in PairSeq
    BY <1>10
  <2>2. k + 1 \in 1..n /\ k + 1 \in 0..n /\ (k + 1) - 1 = k
    BY <1>10
  <2>3. a[k + 1] = Absorb(a[k], s[k + 1]) /\ s[k + 1] \in Pair
    BY <1>7, <2>2
  <2>4. QED
    BY <2>1, <2>2, <2>3, AbsorbType
<1> HIDE DEF G
<1>11. \A m \in 0..n : m \in G
  BY <1>9, <1>10, CountAll
<1>12. a \in [0..n -> PairSeq]
  BY <1>8, <1>11 DEF G, a
<1>13. QED
  BY <1>6, <1>7, <1>12

GapState == [cur : Int, gaps : PairSeq]

LEMMA GapType ==
  ASSUME NEW g \in GapState, NEW i \in Pair
  PROVE  Gap(g, i) \in GapState
<1>1. <<g.cur, i[1] - 1>> \in Pair /\ Larger(g.cur, i[2] + 1) \in Int
  BY DEF GapState, Pair, Larger
<1>2. Append(g.gaps, <<g.cur, i[1] - 1>>) \in PairSeq
  BY <1>1 DEF GapState, PairSeq
<1>3. QED
  BY <1>1, <1>2 DEF Gap, GapState

LEMMA GapFold ==
  ASSUME NEW n \in Nat, NEW s \in [1..n -> Pair], NEW base \in GapState
  PROVE  \E a \in [0..n -> GapState] :
           /\ a[0] = base
           /\ \A k \in 1..n : a[k] = Gap(a[k - 1], s[k])
           /\ a[n] = FoldLeft(Gap, base, s)
<1> DEFINE step == [x \in (1..n) \X GapState |-> Gap(x[2], s[x[1]])]
           Iter(f) == f = [S \in SUBSET (1..n) |->
                             IF S = {} THEN base
                             ELSE LET x == Max(S) IN Gap(f[S \ {x}], s[x])]
           it == CHOOSE f : Iter(f)
<1>1. step \in [(1..n) \X GapState -> GapState]
  BY GapType
<1>2. \A k \in 1..n, v \in GapState : step[k, v] = Gap(v, s[k])
  OBVIOUS
<1>3. FoldLeft(Gap, base, s) = it[1..n]
  BY DEF FoldLeft, MapThenFoldSet
<1> HIDE DEF step
<1>4. \E f : Iter(f)
  <2>1. PICK h \in [SUBSET (1..n) -> GapState] : Unrolls(h, n, base, step)
    <3> HIDE DEF it, Iter
    <3>1. QED
      BY <1>1, Iterate
  <2>2. ASSUME NEW S \in SUBSET (1..n), S # {}
        PROVE  h[S] = Gap(h[S \ {Max(S)}], s[Max(S)])
    <3>1. Max(S) \in 1..n /\ S \ {Max(S)} \in SUBSET (1..n)
      BY <2>2, MaxFacts
    <3>2. QED
      BY <1>2, <2>1, <2>2, <3>1 DEF Unrolls
  <2>3. Iter(h)
    BY <2>1, <2>2 DEF Unrolls
  <2>4. QED
    BY <2>3
<1>5. Iter(it)
  BY <1>4
<1> HIDE DEF it
<1> DEFINE a == [k \in 0..n |-> it[1..k]]
           G == {k \in 0..n : a[k] \in GapState}
<1>6. a[0] = base /\ a[n] = FoldLeft(Gap, base, s)
  <2>1. a[0] = it[{}] /\ a[n] = it[1..n]
    BY NoIndex
  <2>2. it[{}] = base
    BY <1>5
  <2>3. QED
    BY <1>3, <2>1, <2>2
<1>7. ASSUME NEW k \in 1..n
      PROVE  a[k] = Gap(a[k - 1], s[k])
  <2>1. /\ 1..k \in SUBSET (1..n) /\ 1..k # {}
        /\ Max(1..k) = k /\ (1..k) \ {k} = 1..(k - 1)
    BY IndexSets
  <2>2. it[1..k] = Gap(it[1..(k - 1)], s[k])
    BY <1>5, <2>1
  <2>3. k \in 0..n /\ k - 1 \in 0..n
    OBVIOUS
  <2>4. QED
    BY <2>2, <2>3
<1>8. DOMAIN a = 0..n
  OBVIOUS
<1> HIDE DEF a, Iter
<1>9. 0 \in G
  BY <1>6
<1>10. ASSUME NEW k \in 0..n, k \in G, k < n
       PROVE  k + 1 \in G
  <2>1. a[k] \in GapState
    BY <1>10
  <2>2. k + 1 \in 1..n /\ k + 1 \in 0..n /\ (k + 1) - 1 = k
    BY <1>10
  <2>3. a[k + 1] = Gap(a[k], s[k + 1]) /\ s[k + 1] \in Pair
    BY <1>7, <2>2
  <2>4. QED
    BY <2>1, <2>2, <2>3, GapType
<1> HIDE DEF G
<1>11. \A m \in 0..n : m \in G
  BY <1>9, <1>10, CountAll
<1>12. a \in [0..n -> GapState]
  BY <1>8, <1>11 DEF G, a
<1>13. QED
  BY <1>6, <1>7, <1>12

-----------------------------------------------------------------------------
(* Sorting: there is a sequence in order, as the number of pairs that come *)
(* no later is a different one for each pair.                              *)

Ordered(s) == \A m, n \in DOMAIN s : m < n => Before(s[m], s[n])

LEMMA SortedFacts ==
  ASSUME NEW S \in SUBSET Pair, IsFiniteSet(S)
  PROVE  /\ Cardinality(S) \in Nat
         /\ Sorted(S) \in [1..Cardinality(S) -> S]
         /\ Ordered(Sorted(S))
         /\ \A x \in S : \E k \in 1..Cardinality(S) : Sorted(S)[k] = x
<1> DEFINE n == Cardinality(S)
           Upto(x) == {y \in S : y = x \/ Before(y, x)}
           rank == [x \in S |-> Cardinality(Upto(x))]
<1>1. n \in Nat
  BY FS_CardinalityType
<1>2. \A x \in S : IsFiniteSet(Upto(x)) /\ Cardinality(Upto(x)) \in 1..n
  <2> SUFFICES ASSUME NEW x \in S
               PROVE  IsFiniteSet(Upto(x)) /\ Cardinality(Upto(x)) \in 1..n
    OBVIOUS
  <2>1. Upto(x) \in SUBSET S /\ x \in Upto(x)
    OBVIOUS
  <2> HIDE DEF Upto
  <2>2. IsFiniteSet(Upto(x)) /\ Cardinality(Upto(x)) <= n
    BY <2>1, FS_Subset
  <2>3. Cardinality(Upto(x)) \in Nat /\ Cardinality(Upto(x)) # 0
    BY <2>1, <2>2, FS_CardinalityType, FS_EmptySet
  <2>4. QED
    BY <1>1, <2>2, <2>3
<1>3. ASSUME NEW x \in S, NEW y \in S, Before(x, y)
      PROVE  rank[x] < rank[y]
  <2>1. Upto(x) \in SUBSET Upto(y) /\ y \in Upto(y) /\ y \notin Upto(x)
    <3>1. x \in Pair /\ y \in Pair
      OBVIOUS
    <3>2. \A z \in S : z \in Pair
      OBVIOUS
    <3>3. QED
      BY <1>3, <3>1, <3>2 DEF Before, Pair
  <2> HIDE DEF Upto
  <2>2. Cardinality(Upto(x)) <= Cardinality(Upto(y)) /\ Cardinality(Upto(x)) # Cardinality(Upto(y))
    BY <1>2, <2>1, FS_Subset
  <2>3. QED
    BY <1>2, <2>2
<1>4. \A x, y \in S : x = y \/ Before(x, y) \/ Before(y, x)
  <2> SUFFICES ASSUME NEW x \in S, NEW y \in S
               PROVE  x = y \/ Before(x, y) \/ Before(y, x)
    OBVIOUS
  <2>1. x \in Pair /\ y \in Pair
    OBVIOUS
  <2>2. QED
    BY <2>1 DEF Pair, Before
<1>5. \A x \in S : rank[x] \in 1..n
  BY <1>2
<1>6. rank \in [S -> 1..n]
  BY <1>2
<1> HIDE DEF rank, Upto
<1>7. \A x, y \in S : rank[x] = rank[y] => x = y
  BY <1>3, <1>4, <1>5, <1>1
<1>8. \A k \in 1..n : \E x \in S : rank[x] = k
  <2>1. rank \in Injection(S, 1..n)
    BY <1>6, <1>7 DEF Injection, IsInjective
  <2>2. IsFiniteSet(1..n) /\ Cardinality(1..n) = n
    BY <1>1, FS_Interval
  <2>3. rank \in Surjection(S, 1..n)
    BY <2>1, <2>2, FS_Injection
  <2>4. QED
    BY <2>3 DEF Surjection
<1> DEFINE s == [k \in 1..n |-> CHOOSE x \in S : rank[x] = k]
<1>9. \A k \in 1..n : s[k] \in S /\ rank[s[k]] = k
  BY <1>8
<1>10. s \in [1..n -> S] /\ DOMAIN s = 1..n
  BY <1>9
<1> HIDE DEF s
<1>11. \A i, j \in DOMAIN s : i < j => Before(s[i], s[j])
  <2> SUFFICES ASSUME NEW i \in 1..n, NEW j \in 1..n, i < j
               PROVE  Before(s[i], s[j])
    BY <1>10
  <2>1. s[i] \in S /\ s[j] \in S /\ rank[s[i]] < rank[s[j]]
    BY <1>9
  <2>2. s[i] # s[j] /\ ~Before(s[j], s[i])
    BY <1>1, <1>3, <1>5, <2>1
  <2>3. QED
    BY <1>4, <2>1, <2>2
<1>12. Sorted(S) \in [1..n -> S] /\ Ordered(Sorted(S))
  BY <1>10, <1>11 DEF Sorted, Ordered
<1>13. \A x \in S : \E k \in 1..n : Sorted(S)[k] = x
  <2> DEFINE t == Sorted(S)
  <2>1. t \in [1..n -> S] /\ Ordered(t)
    BY <1>12
  <2> HIDE DEF t
  <2>2. \A i, j \in 1..n : t[i] = t[j] => i = j
    <3> SUFFICES ASSUME NEW i \in 1..n, NEW j \in 1..n, i # j
                 PROVE  t[i] # t[j]
      OBVIOUS
    <3>1. t[i] \in Pair /\ t[j] \in Pair /\ (Before(t[i], t[j]) \/ Before(t[j], t[i]))
      BY <1>1, <2>1 DEF Ordered
    <3>2. QED
      BY <3>1 DEF Before, Pair
  <2>3. t \in Injection(1..n, S)
    BY <2>1, <2>2 DEF Injection, IsInjective
  <2>4. IsFiniteSet(1..n) /\ Cardinality(1..n) = n
    BY <1>1, FS_Interval
  <2>5. t \in Surjection(1..n, S)
    BY <2>3, <2>4, FS_Injection
  <2>6. QED
    BY <2>5 DEF Surjection, t
<1>14. QED
  BY <1>1, <1>12, <1>13

-----------------------------------------------------------------------------
(* Merge covers what its intervals cover, and its intervals begin in       *)
(* order.                                                                  *)

CoveredBy(m, x) == \E j \in 1..Len(m) : Covers(m[j], x)
Rising(m) == \A j, k \in 1..Len(m) : j < k => m[j][1] <= m[k][1]
Below(m, lo) == \A j \in 1..Len(m) : m[j][1] <= lo
Inside(m, low, high) == \A j \in 1..Len(m) : m[j] \in (low..high) \X (low..high)

LEMMA AbsorbFacts ==
  ASSUME NEW m \in PairSeq, NEW i \in Pair, NEW low \in Int, NEW high \in Int,
         i \in (low..high) \X (low..high), Inside(m, low, high), Rising(m), Below(m, i[1])
  PROVE  /\ Inside(Absorb(m, i), low, high)
         /\ Rising(Absorb(m, i))
         /\ Below(Absorb(m, i), i[1])
         /\ \A x \in Int : CoveredBy(Absorb(m, i), x) <=> CoveredBy(m, x) \/ Covers(i, x)
<1> DEFINE n == Len(m)
           r == Absorb(m, i)
<1>0. /\ n \in Nat /\ m \in [1..n -> Pair] /\ i[1] \in Int /\ i[2] \in Int
      /\ \A j \in 1..n : m[j][1] \in Int /\ m[j][2] \in Int
  BY DEF PairSeq, Pair
<1>1. CASE m # <<>> /\ i[1] <= Last(m)[2] + 1
  <2> DEFINE l == <<m[n][1], Larger(m[n][2], i[2])>>
  <2>1. n \in 1..n
    BY <1>0, <1>1 DEF PairSeq
  <2>2. r \in PairSeq /\ Len(r) = n /\ r[n] = l /\ \A j \in 1..n : j # n => r[j] = m[j]
    <3>1. r = [m EXCEPT ![n] = l]
      BY <1>1 DEF Absorb
    <3>2. r \in PairSeq
      BY AbsorbType
    <3>3. DOMAIN r = 1..n /\ r[n] = l /\ \A j \in 1..n : j # n => r[j] = m[j]
      <4> HIDE DEF r, n, l
      <4>1. QED
        BY <1>0, <2>1, <3>1
    <3> HIDE DEF r, n
    <3>4. Len(r) = n
      BY <1>0, <3>2, <3>3 DEF PairSeq
    <3>5. QED
      BY <3>2, <3>3, <3>4
  <2> HIDE DEF r, n
  <2>3. i[1] <= m[n][2] + 1 /\ m[n][1] <= i[1]
    BY <1>1, <2>1 DEF n, Last, Below
  <2>4. \A x \in Int : Covers(l, x) <=> Covers(m[n], x) \/ Covers(i, x)
    BY <1>0, <2>1, <2>3 DEF Covers, Larger
  <2>5. l[1] = m[n][1] /\ l \in (low..high) \X (low..high)
    BY <1>0, <2>1 DEF Larger, Inside, n
  <2> HIDE DEF l
  <2>6. Inside(r, low, high)
    BY <2>2, <2>5 DEF Inside, n
  <2>7. Rising(r) /\ Below(r, i[1])
    <3>1. \A j \in 1..n : r[j][1] = m[j][1]
      BY <2>2, <2>5
    <3>2. \A j, k \in 1..n : j < k => m[j][1] <= m[k][1]
      BY DEF Rising, n
    <3>3. \A j \in 1..n : m[j][1] <= i[1]
      BY DEF Below, n
    <3>4. Rising(r)
      BY <2>2, <3>1, <3>2 DEF Rising
    <3>5. Below(r, i[1])
      BY <2>2, <3>1, <3>3 DEF Below
    <3>6. QED
      BY <3>4, <3>5
  <2>8. \A x \in Int : CoveredBy(r, x) <=> CoveredBy(m, x) \/ Covers(i, x)
    <3> SUFFICES ASSUME NEW x \in Int
                 PROVE  CoveredBy(r, x) <=> CoveredBy(m, x) \/ Covers(i, x)
      OBVIOUS
    <3>1. \A j \in 1..n : Covers(r[j], x) => Covers(m[j], x) \/ Covers(i, x)
      BY <2>2, <2>4
    <3>2. \A j \in 1..n : Covers(m[j], x) => Covers(r[j], x)
      BY <2>2, <2>4
    <3>3. Covers(i, x) => Covers(r[n], x)
      BY <2>2, <2>4
    <3> HIDE DEF Covers
    <3>4. QED
      BY <2>1, <2>2, <3>1, <3>2, <3>3 DEF CoveredBy, n
  <2>9. QED
    BY <2>6, <2>7, <2>8 DEF r
<1>2. CASE ~(m # <<>> /\ i[1] <= Last(m)[2] + 1)
  <2>1. /\ Len(r) = n + 1 /\ r[n + 1] = i /\ \A j \in 1..n : r[j] = m[j]
        /\ \A j \in 1..(n + 1) : j \in 1..n \/ j = n + 1
        /\ n + 1 \in 1..(n + 1) /\ \A j \in 1..n : j \in 1..(n + 1) /\ j < n + 1
    <3>1. r = Append(m, i)
      BY <1>2 DEF Absorb
    <3> HIDE DEF r
    <3>2. Len(r) = n + 1 /\ r[n + 1] = i /\ \A j \in 1..n : r[j] = m[j]
      BY <3>1 DEF PairSeq
    <3> HIDE DEF n
    <3>3. QED
      BY <1>0, <3>2
  <2> HIDE DEF r, n
  <2>2. Inside(r, low, high)
    BY <2>1 DEF Inside, n
  <2>3. Below(r, i[1])
    BY <1>0, <2>1 DEF Below, n
  <2>4. Rising(r)
    <3> SUFFICES ASSUME NEW j \in 1..(n + 1), NEW k \in 1..(n + 1), j < k
                 PROVE  r[j][1] <= r[k][1]
      BY <2>1 DEF Rising
    <3>1. j \in 1..n
      BY <1>0, <2>1
    <3>2. CASE k \in 1..n
      BY <2>1, <3>1, <3>2 DEF Rising, n
    <3>3. CASE k = n + 1
      BY <2>1, <3>1, <3>3 DEF Below, n
    <3>4. QED
      BY <2>1, <3>2, <3>3
  <2>5. \A x \in Int : CoveredBy(r, x) <=> CoveredBy(m, x) \/ Covers(i, x)
    BY <2>1 DEF CoveredBy, n
  <2>6. QED
    BY <2>2, <2>3, <2>4, <2>5 DEF r
<1>3. QED
  BY <1>1, <1>2

LEMMA MergeFacts ==
  ASSUME NEW low \in Int, NEW high \in Int, NEW S \in SUBSET ((low..high) \X (low..high)),
         IsFiniteSet(S)
  PROVE  /\ Merge(S) \in PairSeq
         /\ Inside(Merge(S), low, high)
         /\ Rising(Merge(S))
         /\ \A x \in Int : CoveredBy(Merge(S), x) <=> \E i \in S : Covers(i, x)
<1> DEFINE n == Cardinality(S)
           s == Sorted(S)
<1>1. S \in SUBSET Pair
  BY DEF Pair
<1>2. /\ n \in Nat /\ s \in [1..n -> S] /\ Ordered(s)
      /\ \A x \in S : \E k \in 1..n : s[k] = x
  BY <1>1, SortedFacts
<1>3. s \in [1..n -> Pair]
  BY <1>1, <1>2
<1> HIDE DEF s, n
<1>4. PICK a \in [0..n -> PairSeq] :
        /\ a[0] = <<>>
        /\ \A k \in 1..n : a[k] = Absorb(a[k - 1], s[k])
        /\ a[n] = FoldLeft(Absorb, <<>>, s)
  BY <1>2, <1>3, AbsorbFold
<1>5. \A j, k \in 1..n : j < k => s[j][1] <= s[k][1]
  <2> SUFFICES ASSUME NEW j \in 1..n, NEW k \in 1..n, j < k
               PROVE  s[j][1] <= s[k][1]
    OBVIOUS
  <2>1. Before(s[j], s[k]) /\ s[j] \in Pair /\ s[k] \in Pair
    BY <1>2, <1>3 DEF Ordered
  <2>2. QED
    BY <2>1 DEF Before, Pair
<1> DEFINE Good(k) ==
             /\ Inside(a[k], low, high)
             /\ Rising(a[k])
             /\ \A j \in 1..n : k < j => Below(a[k], s[j][1])
             /\ \A x \in Int : CoveredBy(a[k], x) <=> \E j \in 1..k : Covers(s[j], x)
           G == {k \in 0..n : Good(k)}
<1>6. Good(0)
  BY <1>4, NoIndex DEF Inside, Rising, Below, CoveredBy
<1>7. ASSUME NEW k \in 0..n, k < n, Good(k)
      PROVE  Good(k + 1)
  <2> DEFINE i == s[k + 1]
  <2>1. k + 1 \in 1..n /\ (k + 1) - 1 = k
    BY <1>2, <1>7
  <2>2. i \in Pair /\ i \in (low..high) \X (low..high)
    BY <1>2, <1>3, <2>1
  <2>3. a[k] \in PairSeq /\ a[k + 1] = Absorb(a[k], i)
    BY <1>4, <2>1
  <2>4. Below(a[k], i[1])
    BY <1>2, <1>7, <2>1
  <2>5. /\ Inside(a[k + 1], low, high)
        /\ Rising(a[k + 1])
        /\ Below(a[k + 1], i[1])
        /\ \A x \in Int : CoveredBy(a[k + 1], x) <=> CoveredBy(a[k], x) \/ Covers(i, x)
    BY <1>7, <2>2, <2>3, <2>4, AbsorbFacts
  <2>6. ASSUME NEW j \in 1..n, k + 1 < j
        PROVE  Below(a[k + 1], s[j][1])
    <3>1. i[1] <= s[j][1] /\ i[1] \in Int /\ s[j][1] \in Int
      BY <1>3, <1>5, <2>1, <2>6 DEF Pair
    <3>2. a[k + 1] \in PairSeq
      BY <1>4, <2>1, SMTT(30)
    <3>3. \A m \in 1..Len(a[k + 1]) : a[k + 1][m][1] \in Int
      BY <3>2, SMTT(30) DEF PairSeq, Pair
    <3>4. QED
      BY <2>5, <3>1, <3>3 DEF Below
  <2>7. \A x \in Int : CoveredBy(a[k + 1], x) <=> \E j \in 1..(k + 1) : Covers(s[j], x)
    <3>1. \A j \in 1..(k + 1) : j \in 1..k \/ j = k + 1
      OBVIOUS
    <3>2. k + 1 \in 1..(k + 1) /\ \A j \in 1..k : j \in 1..(k + 1)
      OBVIOUS
    <3> HIDE DEF Covers
    <3>3. QED
      BY <1>7, <2>5, <3>1, <3>2
  <2>8. QED
    BY <2>5, <2>6, <2>7
<1> HIDE DEF Good
<1>8. 0 \in G /\ \A k \in 0..n : k \in G /\ k < n => k + 1 \in G
  BY <1>2, <1>6, <1>7
<1>9. n \in G
  <2>1. n \in Nat /\ n \in 0..n
    BY <1>2
  <2> HIDE DEF G
  <2>2. \A k \in 0..n : k \in G
    BY <1>8, <2>1, CountAll
  <2>3. QED
    BY <2>1, <2>2
<1>10. Good(n)
  BY <1>9
<1>11. a[n] = Merge(S) /\ a[n] \in PairSeq
  BY <1>2, <1>4 DEF Merge, s
<1>12. \A x : (\E j \in 1..n : Covers(s[j], x)) <=> \E i \in S : Covers(i, x)
  BY <1>2
<1>13. QED
  BY <1>10, <1>11, <1>12 DEF Good

-----------------------------------------------------------------------------
(* Complement covers what its intervals leave.                             *)

LEMMA ClippedFacts ==
  ASSUME NEW S \in SUBSET Pair, IsFiniteSet(S), NEW low \in Int, NEW high \in Int, low <= high
  PROVE  /\ IsFiniteSet(Clipped(S, low, high))
         /\ Clipped(S, low, high) \in SUBSET ((low..high) \X (low..high))
         /\ \A x \in low..high :
              (\E i \in Clipped(S, low, high) : Covers(i, x)) <=> \E i \in S : Covers(i, x)
<1> DEFINE T == {j \in S : j[2] >= low /\ j[1] <= high}
           clip == [i \in T |-> <<Larger(i[1], low), Smaller(i[2], high)>>]
           C == Clipped(S, low, high)
<1>1. C = {clip[i] : i \in T}
  BY DEF Clipped
<1>2. IsFiniteSet(T)
  BY FS_Subset
<1>3. IsFiniteSet(C)
  <2>1. clip \in [T -> C] /\ \A y \in C : \E x \in T : clip[x] = y
    BY <1>1
  <2> HIDE DEF C, clip, T
  <2>2. clip \in Surjection(T, C)
    BY <2>1 DEF Surjection
  <2>3. QED
    BY <1>2, <2>2, FS_Surjection
<1>4. ASSUME NEW i \in T
      PROVE  clip[i] \in (low..high) \X (low..high)
  <2>1. i[1] \in Int /\ i[2] \in Int /\ i[2] >= low /\ i[1] <= high
    BY DEF Pair
  <2>2. QED
    BY <2>1 DEF Larger, Smaller
<1>5. ASSUME NEW x \in low..high
      PROVE  /\ \A i \in T : Covers(clip[i], x) <=> Covers(i, x)
             /\ \A i \in S : Covers(i, x) => i \in T
  <2>1. \A i \in S : i[1] \in Int /\ i[2] \in Int
    BY DEF Pair
  <2>2. QED
    BY <2>1 DEF Covers, Larger, Smaller
<1> HIDE DEF C, clip
<1>6. QED
  BY <1>1, <1>3, <1>4, <1>5 DEF C

(* A turn of the loop of _complement.  The numbers below cur are settled;  *)
(* every gap is free of intervals, those still to come included.           *)
Settled(g, m, k, low, high) ==
  /\ g \in GapState
  /\ low <= g.cur /\ g.cur <= high + 1
  /\ \A j \in 1..Len(g.gaps) :
       /\ g.gaps[j] \in (low..high) \X (low..high)
       /\ g.gaps[j][1] <= g.gaps[j][2]
  /\ \A j \in 1..k : m[j][2] < g.cur
  /\ \A x \in Int : CoveredBy(g.gaps, x) => ~CoveredBy(m, x)
  /\ \A x \in low..(g.cur - 1) : CoveredBy(g.gaps, x) \/ CoveredBy(m, x)

LEMMA AppendCovers ==
  ASSUME NEW s \in PairSeq, NEW i \in Pair
  PROVE  /\ Append(s, i) \in PairSeq
         /\ Len(Append(s, i)) = Len(s) + 1 /\ Append(s, i)[Len(s) + 1] = i
         /\ \A j \in 1..Len(s) : Append(s, i)[j] = s[j]
         /\ \A x : CoveredBy(Append(s, i), x) <=> CoveredBy(s, x) \/ Covers(i, x)
<1>1. /\ Append(s, i) \in PairSeq /\ Len(s) \in Nat
      /\ Len(Append(s, i)) = Len(s) + 1 /\ Append(s, i)[Len(s) + 1] = i
      /\ \A j \in 1..Len(s) : Append(s, i)[j] = s[j]
  BY DEF PairSeq
<1>2. /\ \A j \in 1..(Len(s) + 1) : j \in 1..Len(s) \/ j = Len(s) + 1
      /\ Len(s) + 1 \in 1..(Len(s) + 1) /\ \A j \in 1..Len(s) : j \in 1..(Len(s) + 1)
  BY <1>1
<1>3. QED
  BY <1>1, <1>2 DEF CoveredBy

LEMMA GapSettles ==
  ASSUME NEW m \in PairSeq, NEW low \in Int, NEW high \in Int, NEW k \in Nat, NEW g,
         Inside(m, low, high), Rising(m), k + 1 \in 1..Len(m), Settled(g, m, k, low, high)
  PROVE  Settled(Gap(g, m[k + 1]), m, k + 1, low, high)
<1> DEFINE i == m[k + 1]
           h == Gap(g, i)
<1>1. /\ i \in Pair /\ i[1] \in low..high /\ i[2] \in low..high
      /\ \A j \in 1..Len(m) : m[j] \in Pair /\ m[j][1] \in Int /\ m[j][2] \in Int
      /\ Len(m) \in Nat
  BY SMTT(30) DEF Inside, PairSeq, Pair
<1>2. g \in GapState /\ g.cur \in Int /\ g.gaps \in PairSeq
  BY DEF Settled, GapState
<1>3. h \in GapState /\ h.cur = Larger(g.cur, i[2] + 1)
      /\ h.gaps = IF i[1] > g.cur THEN Append(g.gaps, <<g.cur, i[1] - 1>>) ELSE g.gaps
  BY <1>1, <1>2, GapType DEF Gap
<1>4. i[1] \in Int /\ i[2] \in Int
  BY <1>1
<1> HIDE DEF h
<1>5. low <= h.cur /\ h.cur <= high + 1 /\ g.cur <= h.cur /\ i[2] < h.cur /\ h.cur \in Int
  BY <1>1, <1>2, <1>3, SMTT(30) DEF Settled, Larger
<1>6. \A j \in 1..(k + 1) : m[j][2] < h.cur
  <2> SUFFICES ASSUME NEW j \in 1..(k + 1)
               PROVE  m[j][2] < h.cur
    OBVIOUS
  <2>1. CASE j = k + 1
    BY <1>5, <2>1
  <2>2. CASE j # k + 1
    <3>1. j \in 1..k /\ j \in 1..Len(m)
      BY <1>1, <2>2
    <3>2. m[j][2] < g.cur
      BY <3>1 DEF Settled
    <3>3. QED
      BY <1>1, <1>2, <1>5, <3>1, <3>2, SMTT(30)
  <2>3. QED
    BY <2>1, <2>2
<1>7. ASSUME NEW x \in Int, g.cur <= x, x < i[1]
      PROVE  ~CoveredBy(m, x)
  <2> SUFFICES ASSUME NEW j \in 1..Len(m)
               PROVE  ~Covers(m[j], x)
    BY DEF CoveredBy
  <2>1. CASE j <= k
    <3>1. m[j][2] < g.cur
      BY <2>1 DEF Settled
    <3>2. QED
      BY <1>1, <1>2, <1>7, <3>1 DEF Covers
  <2>2. CASE j > k
    <3>1. i[1] <= m[j][1]
      BY <1>1, <2>2 DEF Rising
    <3>2. QED
      BY <1>1, <1>4, <1>7, <3>1 DEF Covers
  <2>3. QED
    BY <1>1, <2>1, <2>2
<1>8. \A x \in Int : Covers(i, x) => CoveredBy(m, x)
  BY DEF CoveredBy
<1>9. CASE i[1] > g.cur
  <2> DEFINE n == <<g.cur, i[1] - 1>>
  <2>1. h.gaps = Append(g.gaps, n)
    BY <1>3, <1>9
  <2>2. n \in Pair /\ n \in (low..high) \X (low..high) /\ n[1] <= n[2]
    BY <1>1, <1>2, <1>4, <1>9 DEF Pair, Settled
  <2>3. \A x \in Int : Covers(n, x) <=> g.cur <= x /\ x < i[1]
    BY <1>2, <1>4 DEF Covers
  <2> HIDE DEF n
  <2>4. /\ Len(g.gaps) \in Nat /\ Len(h.gaps) = Len(g.gaps) + 1 /\ h.gaps[Len(g.gaps) + 1] = n
        /\ \A j \in 1..Len(g.gaps) : h.gaps[j] = g.gaps[j]
        /\ \A x : CoveredBy(h.gaps, x) <=> CoveredBy(g.gaps, x) \/ Covers(n, x)
    BY <1>2, <2>1, <2>2, AppendCovers DEF PairSeq
  <2>5. \A j \in 1..Len(h.gaps) :
          h.gaps[j] \in (low..high) \X (low..high) /\ h.gaps[j][1] <= h.gaps[j][2]
    <3> SUFFICES ASSUME NEW j \in 1..Len(h.gaps)
                 PROVE  h.gaps[j] \in (low..high) \X (low..high) /\ h.gaps[j][1] <= h.gaps[j][2]
      OBVIOUS
    <3>1. j \in 1..Len(g.gaps) \/ j = Len(g.gaps) + 1
      BY <2>4
    <3>2. QED
      BY <2>2, <2>4, <3>1 DEF Settled
  <2>6. \A x \in Int : CoveredBy(h.gaps, x) => ~CoveredBy(m, x)
    BY <1>7, <2>3, <2>4 DEF Settled
  <2>7. ASSUME NEW x \in low..(h.cur - 1)
        PROVE  CoveredBy(h.gaps, x) \/ CoveredBy(m, x)
    <3>1. CASE x < g.cur
      <4>1. x \in low..(g.cur - 1)
        BY <1>2, <3>1
      <4>2. QED
        BY <2>4, <4>1 DEF Settled
    <3>2. CASE g.cur <= x /\ x < i[1]
      BY <2>3, <2>4, <3>2
    <3>3. CASE g.cur <= x /\ i[1] <= x
      <4>1. Covers(i, x)
        BY <1>2, <1>3, <1>4, <1>5, <3>3 DEF Covers, Larger
      <4>2. QED
        BY <1>8, <4>1
    <3>4. QED
      BY <1>2, <1>4, <3>1, <3>2, <3>3
  <2>8. QED
    BY <1>3, <1>5, <1>6, <2>5, <2>6, <2>7 DEF Settled, h
<1>10. CASE ~(i[1] > g.cur)
  <2>1. h.gaps = g.gaps
    BY <1>3, <1>10
  <2>2. ASSUME NEW x \in low..(h.cur - 1)
        PROVE  CoveredBy(h.gaps, x) \/ CoveredBy(m, x)
    <3>1. CASE x < g.cur
      <4>1. x \in low..(g.cur - 1)
        BY <1>2, <3>1
      <4>2. QED
        BY <2>1, <4>1 DEF Settled
    <3>2. CASE g.cur <= x
      <4>1. Covers(i, x)
        BY <1>2, <1>3, <1>4, <1>5, <1>10, <3>2, SMTT(30) DEF Covers, Larger
      <4>2. QED
        BY <1>8, <4>1
    <3>3. QED
      BY <1>2, <3>1, <3>2
  <2>3. QED
    BY <1>3, <1>5, <1>6, <2>1, <2>2 DEF Settled, h
<1>11. QED
  BY <1>9, <1>10

(* The complement consists of proper intervals within the bounds, and they *)
(* cover exactly the numbers that no given interval covers.                *)
THEOREM ComplementCovers ==
  ASSUME NEW S \in SUBSET Pair, IsFiniteSet(S), NEW low \in Int, NEW high \in Int, low <= high
  PROVE  /\ Complement(S, low, high) \in PairSeq
         /\ \A j \in 1..Len(Complement(S, low, high)) :
              /\ Complement(S, low, high)[j] \in (low..high) \X (low..high)
              /\ Complement(S, low, high)[j][1] <= Complement(S, low, high)[j][2]
         /\ \A x \in low..high :
              CoveredBy(Complement(S, low, high), x) <=> ~\E i \in S : Covers(i, x)
<1> DEFINE m == Merge(Clipped(S, low, high))
           n == Len(m)
           base == [cur |-> low, gaps |-> <<>>]
           end == FoldLeft(Gap, base, m)
           c == Complement(S, low, high)
<1>1. /\ m \in PairSeq /\ Inside(m, low, high) /\ Rising(m)
      /\ \A x \in low..high : CoveredBy(m, x) <=> \E i \in S : Covers(i, x)
  <2> DEFINE C == Clipped(S, low, high)
  <2>1. /\ IsFiniteSet(C) /\ C \in SUBSET ((low..high) \X (low..high))
        /\ \A x \in low..high : (\E i \in C : Covers(i, x)) <=> \E i \in S : Covers(i, x)
    BY ClippedFacts
  <2> HIDE DEF C
  <2>2. /\ Merge(C) \in PairSeq /\ Inside(Merge(C), low, high) /\ Rising(Merge(C))
        /\ \A x \in Int : CoveredBy(Merge(C), x) <=> \E i \in C : Covers(i, x)
    BY <2>1, MergeFacts
  <2>3. \A x \in low..high : x \in Int
    OBVIOUS
  <2>4. QED
    BY <2>1, <2>2, <2>3 DEF C
<1> HIDE DEF m
<1>2. n \in Nat /\ m \in [1..n -> Pair] /\ base \in GapState
  BY <1>1 DEF PairSeq, GapState
<1>3. PICK a \in [0..n -> GapState] :
        /\ a[0] = base
        /\ \A k \in 1..n : a[k] = Gap(a[k - 1], m[k])
        /\ a[n] = end
  <2> HIDE DEF n, base
  <2>1. QED
    BY <1>2, GapFold
<1>4. Settled(a[0], m, 0, low, high)
  <2>1. a[0].cur = low /\ a[0].gaps = <<>> /\ a[0] \in GapState
    BY <1>2, <1>3
  <2>2. \A x \in Int : ~CoveredBy(a[0].gaps, x)
    BY <2>1 DEF CoveredBy
  <2>3. QED
    BY <2>1, <2>2, NoIndex DEF Settled
<1> DEFINE G == {k \in 0..n : Settled(a[k], m, k, low, high)}
<1>5. ASSUME NEW k \in 0..n, k < n, Settled(a[k], m, k, low, high)
      PROVE  Settled(a[k + 1], m, k + 1, low, high)
  <2>1. k \in Nat /\ k + 1 \in 1..n /\ (k + 1) - 1 = k
    BY <1>2, <1>5
  <2>2. a[k + 1] = Gap(a[k], m[k + 1])
    BY <1>3, <2>1
  <2>3. QED
    BY <1>1, <1>5, <2>1, <2>2, GapSettles
<1>6. 0 \in G /\ \A k \in 0..n : k \in G /\ k < n => k + 1 \in G
  BY <1>2, <1>4, <1>5
<1>7. Settled(end, m, n, low, high)
  <2>1. n \in 0..n
    BY <1>2
  <2>2. n \in G
    <3> HIDE DEF G, n
    <3>1. \A k \in 0..n : k \in G
      BY <1>2, <1>6, CountAll
    <3>2. QED
      BY <2>1, <3>1
  <2>3. QED
    BY <1>3, <2>2
<1>8. c = IF end.cur <= high THEN Append(end.gaps, <<end.cur, high>>) ELSE end.gaps
  BY DEF Complement, m
<1> HIDE DEF c, end, base, n
<1>9. /\ end.cur \in Int /\ low <= end.cur /\ end.cur <= high + 1 /\ end.gaps \in PairSeq
      /\ Len(end.gaps) \in Nat
  BY <1>7 DEF Settled, GapState, PairSeq
<1>10. ASSUME NEW x \in low..high, end.cur <= x
       PROVE  ~CoveredBy(m, x)
  <2> SUFFICES ASSUME NEW j \in 1..n
               PROVE  ~Covers(m[j], x)
    BY DEF CoveredBy, n
  <2>1. m[j][2] < end.cur /\ m[j][2] \in Int
    BY <1>2, <1>7 DEF Settled, Pair
  <2>2. QED
    BY <1>9, <1>10, <2>1 DEF Covers
<1>11. CASE end.cur <= high
  <2> DEFINE l == <<end.cur, high>>
  <2>1. l \in Pair /\ l \in (low..high) \X (low..high) /\ l[1] <= l[2]
    BY <1>9, <1>11 DEF Pair
  <2>2. \A x \in low..high : Covers(l, x) <=> end.cur <= x
    BY <1>9 DEF Covers
  <2>3. c = Append(end.gaps, l)
    BY <1>8, <1>11
  <2> HIDE DEF l
  <2>4. /\ c \in PairSeq /\ Len(c) = Len(end.gaps) + 1 /\ c[Len(end.gaps) + 1] = l
        /\ \A j \in 1..Len(end.gaps) : c[j] = end.gaps[j]
        /\ \A x : CoveredBy(c, x) <=> CoveredBy(end.gaps, x) \/ Covers(l, x)
    BY <1>9, <2>1, <2>3, AppendCovers
  <2>5. ASSUME NEW j \in 1..Len(c)
        PROVE  c[j] \in (low..high) \X (low..high) /\ c[j][1] <= c[j][2]
    <3>1. j \in 1..Len(end.gaps) \/ j = Len(end.gaps) + 1
      BY <1>9, <2>4
    <3>2. QED
      BY <1>7, <2>1, <2>4, <3>1 DEF Settled
  <2>6. ASSUME NEW x \in low..high
        PROVE  CoveredBy(c, x) <=> ~CoveredBy(m, x)
    <3>1. CASE end.cur <= x
      BY <1>10, <2>2, <2>4, <3>1
    <3>2. CASE x < end.cur
      <4>1. x \in low..(end.cur - 1) /\ x \in Int /\ ~Covers(l, x)
        BY <1>9, <2>2, <3>2
      <4>2. QED
        BY <1>7, <2>4, <4>1 DEF Settled
    <3>3. QED
      BY <1>9, <3>1, <3>2
  <2>7. QED
    BY <1>1, <2>4, <2>5, <2>6 DEF c
<1>12. CASE ~(end.cur <= high)
  <2>1. c = end.gaps
    BY <1>8, <1>12
  <2>2. ASSUME NEW x \in low..high
        PROVE  CoveredBy(c, x) <=> ~CoveredBy(m, x)
    <3>1. x \in low..(end.cur - 1) /\ x \in Int
      BY <1>9, <1>12
    <3>2. QED
      BY <1>7, <2>1, <3>1 DEF Settled
  <2>3. QED
    BY <1>1, <1>7, <1>9, <2>1, <2>2 DEF Settled, c
<1>13. QED
  BY <1>11, <1>12

-----------------------------------------------------------------------------
(* Sets as sequences, and sequences of sequences.                          *)

LEMMA SetToSeqFacts ==
  ASSUME NEW S, IsFiniteSet(S)
  PROVE  /\ Cardinality(S) \in Nat
         /\ SetToSeq(S) \in [1..Cardinality(S) -> S]
         /\ \A i, j \in 1..Cardinality(S) : SetToSeq(S)[i] = SetToSeq(S)[j] => i = j
         /\ \A x \in S : \E k \in 1..Cardinality(S) : SetToSeq(S)[k] = x
<1> DEFINE n == Cardinality(S)
           t == SetToSeq(S)
<1>1. n \in Nat /\ ExistsBijection(1..n, S)
  BY FS_CardinalityType
<1>2. \E f \in [1..n -> S] : IsInjective(f)
  BY <1>1 DEF ExistsBijection, Bijection, Injection
<1>3. t \in [1..n -> S] /\ IsInjective(t)
  BY <1>2 DEF SetToSeq
<1> HIDE DEF t
<1>4. t \in Surjection(1..n, S)
  <2>1. IsFiniteSet(1..n) /\ Cardinality(1..n) = n
    BY <1>1, FS_Interval
  <2>2. t \in Injection(1..n, S)
    BY <1>3 DEF Injection
  <2>3. QED
    BY <2>1, <2>2, FS_Injection
<1>5. QED
  BY <1>1, <1>3, <1>4 DEF Surjection, IsInjective, t

Elements(s) == {s[i] : i \in 1..Len(s)}

LEMMA ElementsCat ==
  ASSUME NEW T, NEW s \in Seq(T), NEW u \in Seq(T)
  PROVE  s \o u \in Seq(T) /\ Elements(s \o u) = Elements(s) \cup Elements(u)
<1> DEFINE c == s \o u
<1>1. /\ c \in Seq(T) /\ Len(s) \in Nat /\ Len(u) \in Nat /\ Len(c) = Len(s) + Len(u)
      /\ \A i \in 1..Len(s) : c[i] = s[i]
      /\ \A i \in 1..Len(u) : c[Len(s) + i] = u[i]
  OBVIOUS
<1> HIDE DEF c
<1>2. ASSUME NEW i \in 1..Len(c)
      PROVE  c[i] \in Elements(s) \cup Elements(u)
  <2>1. CASE i \in 1..Len(s)
    BY <1>1, <2>1 DEF Elements
  <2>2. CASE i \notin 1..Len(s)
    <3>1. (i - Len(s)) \in 1..Len(u) /\ i = Len(s) + (i - Len(s))
      BY <1>1, <2>2
    <3>2. QED
      BY <1>1, <3>1 DEF Elements
  <2>3. QED
    BY <2>1, <2>2
<1>3. ASSUME NEW i \in 1..Len(s)
      PROVE  s[i] \in Elements(c)
  BY <1>1 DEF Elements
<1>4. ASSUME NEW i \in 1..Len(u)
      PROVE  u[i] \in Elements(c)
  <2>1. Len(s) + i \in 1..Len(c)
    BY <1>1
  <2>2. QED
    BY <1>1, <2>1 DEF Elements
<1>5. Elements(c) = Elements(s) \cup Elements(u)
  BY <1>2, <1>3, <1>4 DEF Elements
<1>6. QED
  BY <1>1, <1>5 DEF c

LEMMA EmptyCat ==
  ASSUME NEW T, NEW u \in Seq(T)
  PROVE  <<>> \o u = u
OBVIOUS

LEMMA FlattenSteps ==
  ASSUME NEW T, NEW n \in Nat, NEW s \in [1..n -> Seq(T)]
  PROVE  \E a \in [0..n -> Seq(T)] :
           /\ a[0] = <<>>
           /\ \A k \in 1..n : a[k] = a[k - 1] \o s[k]
           /\ a[n] = FlattenSeq(s)
<1> DEFINE Step(f, i) == IF i = 1 THEN s[i] ELSE f[i - 1] \o s[i]
           Flat(f, k) == f \in [1..k -> Seq(T)] /\ \A i \in 1..k : f[i] = Step(f, i)
           Some(k) == \E f : Flat(f, k)
           G == {k \in 0..n : Some(k)}
<1>0. Len(s) = n
  OBVIOUS
<1>1. Some(0)
  <2> DEFINE f == [i \in 1..0 |-> <<>>]
  <2>1. Flat(f, 0)
    BY NoIndex
  <2> HIDE DEF f, Flat
  <2>2. QED
    BY <2>1
<1>2. ASSUME NEW k \in 0..n, k < n, Some(k)
      PROVE  Some(k + 1)
  <2>1. PICK f : Flat(f, k)
    BY <1>2
  <2> DEFINE g == [i \in 1..(k + 1) |-> IF i = k + 1 THEN Step(f, i) ELSE f[i]]
  <2>2. /\ k \in Nat /\ k + 1 \in 1..n /\ s[k + 1] \in Seq(T)
        /\ \A i \in 1..(k + 1) : i = k + 1 \/ i \in 1..k
        /\ \A i \in 1..(k + 1) : i = 1 \/ i - 1 \in 1..k
        /\ \A i \in 1..k : i # k + 1 /\ i \in 1..(k + 1) /\ i - 1 # k + 1
    BY <1>2
  <2>3. \A i \in 1..(k + 1) : g[i] \in Seq(T)
    <3> SUFFICES ASSUME NEW i \in 1..(k + 1)
                 PROVE  g[i] \in Seq(T)
      OBVIOUS
    <3>1. CASE i = 1 /\ i = k + 1
      BY <2>2, <3>1
    <3>2. CASE i # 1 /\ i = k + 1
      <4>1. f[i - 1] \in Seq(T) /\ s[i] \in Seq(T)
        BY <2>1, <2>2, <3>2
      <4>2. g[i] = f[i - 1] \o s[i]
        BY <3>2
      <4>3. f[i - 1] \o s[i] \in Seq(T)
        <5> HIDE DEF g, Flat, Step
        <5>1. QED
          BY <4>1
      <4>4. QED
        BY <4>2, <4>3
    <3>3. CASE i # k + 1
      BY <2>1, <2>2, <3>3
    <3>4. QED
      BY <3>1, <3>2, <3>3
  <2>4. \A i \in 1..(k + 1) : g[i] = Step(g, i)
    <3> SUFFICES ASSUME NEW i \in 1..(k + 1)
                 PROVE  g[i] = Step(g, i)
      OBVIOUS
    <3>1. i # 1 => g[i - 1] = f[i - 1]
      BY <2>2
    <3>2. CASE i = k + 1
      BY <3>1, <3>2
    <3>3. CASE i # k + 1
      <4>1. i \in 1..k /\ g[i] = f[i]
        BY <2>2, <3>3
      <4>2. f[i] = Step(f, i)
        BY <2>1, <4>1
      <4>3. QED
        BY <3>1, <4>1, <4>2
    <3>4. QED
      BY <3>2, <3>3
  <2>5. g \in [1..(k + 1) -> Seq(T)]
    BY <2>3
  <2>6. Flat(g, k + 1)
    BY <2>4, <2>5
  <2> HIDE DEF g, Flat
  <2>7. QED
    BY <2>6
<1> HIDE DEF Some
<1>3. 0 \in G /\ \A k \in 0..n : k \in G /\ k < n => k + 1 \in G
  BY <1>1, <1>2
<1>4. n \in G
  <2>1. n \in 0..n
    OBVIOUS
  <2> HIDE DEF G
  <2>2. \A k \in 0..n : k \in G
    BY <1>3, CountAll
  <2>3. QED
    BY <2>1, <2>2
<1>5. PICK h : Flat(h, n)
  BY <1>4 DEF Some
<1> DEFINE Iter(f) == f = [i \in 1..n |-> IF i = 1 THEN s[i] ELSE f[i - 1] \o s[i]]
           it == CHOOSE f : Iter(f)
<1>6. Iter(it)
  <2>1. Iter(h)
    BY <1>5
  <2>2. \E f : Iter(f)
    BY <2>1
  <2>3. QED
    BY <2>2
<1>7. FlattenSeq(s) = IF n = 0 THEN s ELSE it[n]
  BY <1>0 DEF FlattenSeq
<1> HIDE DEF it
<1> DEFINE a == [k \in 0..n |-> IF k = 0 THEN <<>> ELSE it[k]]
           H == {k \in 0..n : a[k] \in Seq(T)}
<1>8. a[0] = <<>> /\ DOMAIN a = 0..n /\ <<>> \in Seq(T)
  OBVIOUS
<1>9. ASSUME NEW k \in 1..n
      PROVE  a[k] = a[k - 1] \o s[k]
  <2>1. k \in 0..n /\ k - 1 \in 0..n /\ k # 0 /\ a[k] = it[k]
    OBVIOUS
  <2>2. CASE k = 1
    <3>1. a[k - 1] = <<>> /\ a[k] = s[k] /\ s[k] \in Seq(T)
      BY <1>6, <2>1, <2>2
    <3> HIDE DEF a, H, G, Flat, Step, Iter
    <3>2. <<>> \o s[k] = s[k]
      BY <3>1, EmptyCat
    <3>3. QED
      BY <3>1, <3>2
  <2>3. CASE k # 1
    <3>1. a[k - 1] = it[k - 1]
      BY <2>3, <2>1
    <3>2. it[k] = it[k - 1] \o s[k]
      BY <1>6, <2>3
    <3>3. QED
      BY <2>1, <3>1, <3>2
  <2>4. QED
    BY <2>2, <2>3
<1>10. a[n] = FlattenSeq(s)
  <2>1. CASE n = 0
    <3>1. s = <<>>
      BY <2>1, NoIndex
    <3>2. QED
      BY <1>7, <1>8, <2>1, <3>1
  <2>2. CASE n # 0
    BY <1>7, <2>2
  <2>3. QED
    BY <2>1, <2>2
<1> HIDE DEF a, Flat, Iter
<1>11. 0 \in H
  <2>1. 0 \in 0..n /\ a[0] \in Seq(T)
    BY <1>8
  <2>2. QED
    BY <2>1
<1>12. ASSUME NEW k \in 0..n, k \in H, k < n
       PROVE  k + 1 \in H
  <2>1. a[k] \in Seq(T) /\ k + 1 \in 1..n /\ (k + 1) - 1 = k /\ k + 1 \in 0..n
    BY <1>12
  <2>2. a[k + 1] = a[k] \o s[k + 1] /\ s[k + 1] \in Seq(T)
    BY <1>9, <2>1
  <2>3. a[k] \o s[k + 1] \in Seq(T)
    <3> HIDE DEF H
    <3>1. QED
      BY <2>1, <2>2
  <2>4. QED
    BY <2>1, <2>2, <2>3
<1>13. a \in [0..n -> Seq(T)]
  <2> HIDE DEF H
  <2>1. \A k \in 0..n : k \in H
    BY <1>11, <1>12, CountAll
  <2>2. QED
    BY <1>8, <2>1 DEF H, a
<1>14. QED
  BY <1>8, <1>9, <1>10, <1>13

LEMMA FlattenElements ==
  ASSUME NEW T, NEW n \in Nat, NEW s \in [1..n -> Seq(T)]
  PROVE  /\ FlattenSeq(s) \in Seq(T)
         /\ Elements(FlattenSeq(s)) = UNION {Elements(s[k]) : k \in 1..n}
<1>1. PICK a \in [0..n -> Seq(T)] :
        /\ a[0] = <<>>
        /\ \A k \in 1..n : a[k] = a[k - 1] \o s[k]
        /\ a[n] = FlattenSeq(s)
  BY FlattenSteps, ZenonT(30)
<1> DEFINE G == {k \in 0..n : Elements(a[k]) = UNION {Elements(s[j]) : j \in 1..k}}
<1>2. 0 \in G
  BY <1>1, NoIndex DEF Elements
<1>3. ASSUME NEW k \in 0..n, k \in G, k < n
      PROVE  k + 1 \in G
  <2>1. /\ k + 1 \in 1..n /\ (k + 1) - 1 = k /\ k + 1 \in 0..n /\ k \in Nat
        /\ \A j \in 1..(k + 1) : j \in 1..k \/ j = k + 1
        /\ \A j \in 1..k : j \in 1..(k + 1)
        /\ k + 1 \in 1..(k + 1)
    BY <1>3
  <2>2. a[k] \in Seq(T) /\ s[k + 1] \in Seq(T) /\ a[k + 1] = a[k] \o s[k + 1]
    BY <1>1, <2>1
  <2>3. Elements(a[k + 1]) = Elements(a[k]) \cup Elements(s[k + 1])
    BY <2>2, ElementsCat
  <2>4. Elements(a[k]) = UNION {Elements(s[j]) : j \in 1..k}
    BY <1>3
  <2> HIDE DEF G
  <2>5. Elements(a[k + 1]) = UNION {Elements(s[j]) : j \in 1..(k + 1)}
    BY <2>1, <2>3, <2>4
  <2>6. QED
    BY <2>1, <2>5 DEF G
<1>4. n \in G
  <2>1. n \in 0..n
    OBVIOUS
  <2> HIDE DEF G
  <2>2. \A k \in 0..n : k \in G
    BY <1>2, <1>3, CountAll
  <2>3. QED
    BY <2>1, <2>2
<1>5. QED
  BY <1>1, <1>4

=============================================================================
