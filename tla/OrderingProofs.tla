---------------------------- MODULE OrderingProofs ----------------------------
(***************************************************************************)
(* What Ordering makes of a finite set under a strict total order.  The    *)
(* order is given as below: below[x] is the set of the elements less than  *)
(* x.  Then what sequences laid one after another hold.                    *)
(***************************************************************************)
EXTENDS Ordering, SequencesExt, FiniteSetTheorems, SequenceTheorems, TLAPS

TotalOrder(S, below) ==
  /\ below \in [S -> SUBSET S]
  /\ \A x \in S : x \notin below[x]
  /\ \A x, y \in S : y \in below[x] => below[y] \subseteq below[x]
  /\ \A x, y \in S : x # y => x \in below[y] \/ y \in below[x]

Ranked(S, below) ==
  [i \in 1 .. Cardinality(S) |-> CHOOSE x \in S : Cardinality(below[x]) = i - 1]

\* A function on an initial part of the naturals is a sequence.
LEMMA IsSequence ==
  ASSUME NEW S, NEW n \in Nat, NEW f \in [1 .. n -> S]
  PROVE  f \in Seq(S) /\ Len(f) = n
<1>1. f \in Seq(S)
  BY SeqDef
<1>2. DOMAIN f = 1 .. n
  OBVIOUS
<1> QED
  BY <1>1, <1>2, LenProperties

\* The number of lesser elements tells the elements apart, and takes every value
\* below the size of the set.
LEMMA Ranks ==
  ASSUME NEW S, IsFiniteSet(S), NEW below, TotalOrder(S, below)
  PROVE  /\ Cardinality(S) \in Nat
         /\ \A x \in S : Cardinality(below[x]) \in 0 .. Cardinality(S) - 1
         /\ \A x, y \in S : y \in below[x] => Cardinality(below[y]) < Cardinality(below[x])
         /\ \A i \in 0 .. Cardinality(S) - 1 : \E x \in S : Cardinality(below[x]) = i
<1> DEFINE rank == [x \in S |-> Cardinality(below[x])]
           N == Cardinality(S)
           Ranges == 0 .. N - 1
<1>1. N \in Nat
  BY FS_CardinalityType
<1>2. ASSUME NEW x \in S
      PROVE  /\ IsFiniteSet(below[x]) /\ Cardinality(below[x]) \in Nat
             /\ Cardinality(below[x]) < N
  <2>1. below[x] \in SUBSET S /\ x \notin below[x]
    BY DEF TotalOrder
  <2>2. /\ IsFiniteSet(below[x]) /\ Cardinality(below[x]) <= N
        /\ N = Cardinality(below[x]) => S = below[x]
    BY <2>1, FS_Subset
  <2>3. Cardinality(below[x]) \in Nat
    BY <2>2, FS_CardinalityType
  <2> QED
    BY <1>1, <2>1, <2>2, <2>3
<1>3. ASSUME NEW x \in S, NEW y \in S, y \in below[x]
      PROVE  Cardinality(below[y]) < Cardinality(below[x])
  <2>1. below[y] \in SUBSET below[x] /\ y \notin below[y]
    BY <1>3 DEF TotalOrder
  <2>2. /\ Cardinality(below[y]) <= Cardinality(below[x])
        /\ Cardinality(below[x]) = Cardinality(below[y]) => below[x] = below[y]
    BY <1>2, <2>1, FS_Subset
  <2> QED
    BY <1>2, <1>3, <2>1, <2>2
<1>4. rank \in [S -> Ranges]
  BY <1>1, <1>2
<1>5. ASSUME NEW x \in S, NEW y \in S, rank[x] = rank[y] PROVE x = y
  <2>1. x # y => x \in below[y] \/ y \in below[x]
    BY DEF TotalOrder
  <2> QED
    BY <1>2, <1>3, <1>5, <2>1
<1>6. rank \in Injection(S, Ranges)
  BY <1>4, <1>5 DEF Injection, IsInjective
<1>7. IsFiniteSet(Ranges) /\ Cardinality(Ranges) = N
  BY <1>1, FS_Interval
<1>8. rank \in Surjection(S, Ranges)
  BY <1>6, <1>7, FS_Injection
<1>9. \A i \in Ranges : \E x \in S : rank[x] = i
  BY <1>8 DEF Surjection
<1> QED
  BY <1>1, <1>2, <1>3, <1>9

\* The sequence holds each element once, in order.
LEMMA InRank ==
  ASSUME NEW S, IsFiniteSet(S), NEW below, TotalOrder(S, below)
  PROVE  LET q == Ranked(S, below)
         IN  /\ Cardinality(S) \in Nat
             /\ q \in [1 .. Cardinality(S) -> S]
             /\ \A i \in 1 .. Cardinality(S) : Cardinality(below[q[i]]) = i - 1
             /\ \A i, j \in 1 .. Cardinality(S) : i < j <=> q[i] \in below[q[j]]
             /\ \A x \in S : \E i \in 1 .. Cardinality(S) : q[i] = x
<1> DEFINE N == Cardinality(S)
           q == Ranked(S, below)
<1>1. /\ N \in Nat
      /\ \A x \in S : Cardinality(below[x]) \in 0 .. N - 1
      /\ \A x, y \in S : y \in below[x] => Cardinality(below[y]) < Cardinality(below[x])
      /\ \A i \in 0 .. N - 1 : \E x \in S : Cardinality(below[x]) = i
  BY Ranks
<1>2. ASSUME NEW i \in 1 .. N PROVE q[i] \in S /\ Cardinality(below[q[i]]) = i - 1
  <2>1. i - 1 \in 0 .. N - 1
    BY <1>1
  <2>2. \E x \in S : Cardinality(below[x]) = i - 1
    BY <1>1, <2>1
  <2>3. q[i] = CHOOSE x \in S : Cardinality(below[x]) = i - 1
    BY DEF Ranked
  <2> QED
    BY <2>2, <2>3
<1>3. q \in [1 .. N -> S]
  <2>1. q = [i \in 1 .. N |-> q[i]]
    BY DEF Ranked
  <2> QED
    BY <1>2, <2>1
<1> HIDE DEF q
<1>4. ASSUME NEW x \in S, NEW y \in S, Cardinality(below[x]) <= Cardinality(below[y])
      PROVE  y \notin below[x]
  BY <1>1, <1>4
<1>5. ASSUME NEW i \in 1 .. N, NEW j \in 1 .. N PROVE i < j <=> q[i] \in below[q[j]]
  <2>1. q[i] # q[j] => q[i] \in below[q[j]] \/ q[j] \in below[q[i]]
    BY <1>2 DEF TotalOrder
  <2>2. /\ q[i] \in S /\ Cardinality(below[q[i]]) = i - 1
        /\ q[j] \in S /\ Cardinality(below[q[j]]) = j - 1
    BY <1>2
  <2>3. q[i] \in below[q[j]] => i - 1 < j - 1
    BY <1>1, <2>2
  <2>4. q[j] \in below[q[i]] => j - 1 < i - 1
    BY <1>1, <2>2
  <2>5. q[i] = q[j] => i = j
    BY <1>1, <2>2
  <2> QED
    BY <1>1, <2>1, <2>3, <2>4, <2>5
<1>6. ASSUME NEW x \in S PROVE \E i \in 1 .. N : q[i] = x
  <2> DEFINE i == Cardinality(below[x]) + 1
  <2>1. i \in 1 .. N /\ Cardinality(below[x]) = i - 1
    BY <1>1
  <2> HIDE DEF i
  <2>2. q[i] \in S /\ Cardinality(below[q[i]]) = Cardinality(below[x])
    BY <1>2, <2>1
  <2>3. q[i] # x => q[i] \in below[x] \/ x \in below[q[i]]
    BY <2>2 DEF TotalOrder
  <2>4. x \notin below[q[i]] /\ q[i] \notin below[x]
    BY <1>1, <1>4, <2>2
  <2> QED
    BY <2>1, <2>3, <2>4
<1> QED
  BY <1>1, <1>2, <1>3, <1>5, <1>6 DEF q

\* It is the only sequence that does.
LEMMA OnlyRanked ==
  ASSUME NEW S, IsFiniteSet(S), NEW below, TotalOrder(S, below),
         NEW n \in Nat, NEW q \in [1 .. n -> S],
         \A i, j \in 1 .. n : i < j => q[i] \in below[q[j]],
         \A x \in S : \E i \in 1 .. n : q[i] = x
  PROVE  q = Ranked(S, below) /\ n = Cardinality(S)
<1>1. \A i, j \in 1 .. n : q[i] = q[j] => i = j
  BY DEF TotalOrder
<1>2. n = Cardinality(S)
  <2>1. q \in Bijection(1 .. n, S)
    BY <1>1 DEF Bijection, Injection, IsInjective, Surjection
  <2> QED
    BY <2>1, FS_CountingElements DEF ExistsBijection
<1>3. ASSUME NEW i \in 1 .. n PROVE Cardinality(below[q[i]]) = i - 1
  <2> DEFINE p == [j \in 1 .. i - 1 |-> q[j]]
  <2>1. \A j \in 1 .. i - 1 : j \in 1 .. n /\ p[j] = q[j] /\ q[j] \in below[q[i]]
    OBVIOUS
  <2>2. ASSUME NEW x \in below[q[i]] PROVE \E j \in 1 .. i - 1 : p[j] = x
    <3>1. x \in S
      BY DEF TotalOrder
    <3>2. PICK j \in 1 .. n : q[j] = x
      BY <3>1
    <3>3. ~(i <= j)
      <4>1. i # j
        BY <2>2, <3>2 DEF TotalOrder
      <4>2. ~(i < j)
        <5> SUFFICES ASSUME i < j PROVE FALSE
          OBVIOUS
        <5>1. q[i] \in below[q[j]] /\ q[j] \in below[q[i]]
          BY <2>2, <3>2
        <5> QED
          BY <5>1 DEF TotalOrder
      <4> QED
        BY <4>1, <4>2
    <3> QED
      BY <2>1, <3>2, <3>3
  <2>3. p \in [1 .. i - 1 -> below[q[i]]]
    BY <2>1
  <2>4. \A j, k \in 1 .. i - 1 : p[j] = p[k] => j = k
    BY <1>1, <2>1
  <2> HIDE DEF p
  <2>5. p \in Bijection(1 .. i - 1, below[q[i]])
    BY <2>2, <2>3, <2>4 DEF Bijection, Injection, IsInjective, Surjection
  <2> QED
    BY <2>5, FS_CountingElements DEF ExistsBijection
<1> DEFINE r == Ranked(S, below)
<1>4. /\ r \in [1 .. n -> S]
      /\ \A i \in 1 .. n : Cardinality(below[r[i]]) = i - 1
  BY <1>2, InRank
<1>5. \A x, y \in S : y \in below[x] => Cardinality(below[y]) < Cardinality(below[x])
  BY Ranks
<1>6. \A x \in S : Cardinality(below[x]) \in Nat
  BY Ranks, <1>2
<1> HIDE DEF r
<1>7. ASSUME NEW i \in 1 .. n PROVE q[i] = r[i]
  <2>1. Cardinality(below[q[i]]) = Cardinality(below[r[i]])
    BY <1>3, <1>4
  <2>2. q[i] \in S /\ r[i] \in S
    BY <1>4
  <2>3. q[i] # r[i] => q[i] \in below[r[i]] \/ r[i] \in below[q[i]]
    BY <2>2 DEF TotalOrder
  <2> QED
    BY <1>5, <1>6, <2>1, <2>2, <2>3
<1>8. q = r
  BY <1>4, <1>7
<1> QED
  BY <1>2, <1>8 DEF r

\* An initial part of a set comes first, as it does alone.
LEMMA RankedPart ==
  ASSUME NEW S, IsFiniteSet(S), NEW below, TotalOrder(S, below),
         NEW T \in SUBSET S, NEW under, TotalOrder(T, under),
         \A x \in T : below[x] = under[x]
  PROVE  /\ IsFiniteSet(T) /\ Cardinality(T) \in 0 .. Cardinality(S)
         /\ \A i \in 1 .. Cardinality(T) : Ranked(S, below)[i] = Ranked(T, under)[i]
<1>1. /\ IsFiniteSet(T) /\ Cardinality(T) <= Cardinality(S)
      /\ Cardinality(T) \in Nat /\ Cardinality(S) \in Nat
  BY FS_Subset, FS_CardinalityType
<1> DEFINE q == Ranked(S, below)
           r == Ranked(T, under)
<1>2. /\ q \in [1 .. Cardinality(S) -> S]
      /\ \A i \in 1 .. Cardinality(S) : Cardinality(below[q[i]]) = i - 1
  BY InRank
<1>3. /\ r \in [1 .. Cardinality(T) -> T]
      /\ \A i \in 1 .. Cardinality(T) : Cardinality(under[r[i]]) = i - 1
  BY <1>1, InRank
<1>4. /\ \A x, y \in S : y \in below[x] => Cardinality(below[y]) < Cardinality(below[x])
      /\ \A x \in S : Cardinality(below[x]) \in Nat
  BY <1>1, Ranks
<1> HIDE DEF q, r
<1>5. ASSUME NEW i \in 1 .. Cardinality(T) PROVE q[i] = r[i]
  <2>1. i \in 1 .. Cardinality(S)
    BY <1>1
  <2>2. /\ q[i] \in S /\ r[i] \in S
        /\ Cardinality(below[q[i]]) = Cardinality(below[r[i]])
    BY <1>2, <1>3, <2>1
  <2>3. q[i] # r[i] => q[i] \in below[r[i]] \/ r[i] \in below[q[i]]
    BY <2>2 DEF TotalOrder
  <2> QED
    BY <1>4, <2>2, <2>3
<1> QED
  BY <1>1, <1>5 DEF q, r

-----------------------------------------------------------------------------
(* Sets of natural numbers *)

Lesser(K) == [x \in K |-> {y \in K : y < x}]

LEMMA AscendingIsRanked == ASSUME NEW K PROVE Ordered(K) = Ranked(K, Lesser(K))
BY DEF Ordered, InOrder, Ranked, Lesser

LEMMA NaturalOrder ==
  ASSUME NEW K \in SUBSET Nat
  PROVE  TotalOrder(K, Lesser(K)) /\ Ordered(K) = Ranked(K, Lesser(K))
<1> DEFINE below == Lesser(K)
<1>1. \A x, y \in K : y \in below[x] <=> y < x
  BY DEF Lesser
<1>2. below \in [K -> SUBSET K]
  BY DEF Lesser
<1> HIDE DEF below
<1>3. ASSUME NEW x \in K PROVE x \notin below[x]
  <2>1. x \in Nat /\ (x \in below[x] <=> x < x)
    BY <1>1
  <2> QED
    BY <2>1
<1>4. ASSUME NEW x \in K, NEW y \in K, y \in below[x] PROVE below[y] \subseteq below[x]
  <2> SUFFICES ASSUME NEW z \in below[y] PROVE z \in below[x]
    OBVIOUS
  <2>1. z \in K
    BY <1>2
  <2>2. x \in Nat /\ y \in Nat /\ z \in Nat
    BY <2>1
  <2>3. z < y /\ y < x
    BY <1>1, <1>4, <2>1
  <2>4. z < x
    BY <2>2, <2>3
  <2> QED
    BY <1>1, <2>1, <2>4
<1>5. \A x, y \in K : x # y => x \in below[y] \/ y \in below[x]
  BY <1>1
<1>6. TotalOrder(K, below)
  BY <1>2, <1>3, <1>4, <1>5 DEF TotalOrder
<1> QED
  BY <1>6, AscendingIsRanked DEF below

LEMMA AscendingList ==
  ASSUME NEW K \in SUBSET Nat, IsFiniteSet(K)
  PROVE  LET q == Ordered(K)
         IN  /\ Cardinality(K) \in Nat
             /\ q \in [1 .. Cardinality(K) -> K]
             /\ \A i, j \in 1 .. Cardinality(K) : i < j <=> q[i] < q[j]
             /\ \A x \in K : \E i \in 1 .. Cardinality(K) : q[i] = x
<1> DEFINE q == Ranked(K, Lesser(K))
<1>1. /\ Cardinality(K) \in Nat
      /\ q \in [1 .. Cardinality(K) -> K]
      /\ \A i, j \in 1 .. Cardinality(K) : i < j <=> q[i] \in Lesser(K)[q[j]]
      /\ \A x \in K : \E i \in 1 .. Cardinality(K) : q[i] = x
  BY NaturalOrder, InRank
<1> HIDE DEF q
<1>2. \A x, y \in K : y \in Lesser(K)[x] <=> y < x
  BY DEF Lesser
<1>3. \A i, j \in 1 .. Cardinality(K) : i < j <=> q[i] < q[j]
  BY <1>1, <1>2
<1>4. Ordered(K) = q
  BY AscendingIsRanked DEF q
<1> QED
  BY <1>1, <1>3, <1>4 DEF q

\* Every set of them that has an element has a least one.
LEMMA LeastOf ==
  ASSUME NEW S \in SUBSET Nat, S # {}
  PROVE  LET n == CHOOSE n \in S : \A m \in S : n <= m
         IN  n \in S /\ \A m \in S : n <= m
<1>1. \E n \in S : \A m \in S : <<m, n>> \notin OpToRel(<, Nat)
  BY NatLessThanWellFounded, WFMin
<1>2. \A m, n \in Nat : <<m, n>> \in OpToRel(<, Nat) <=> m < n
  BY DEF OpToRel
<1>3. \E n \in S : \A m \in S : n <= m
  <2>1. PICK n \in S : \A m \in S : <<m, n>> \notin OpToRel(<, Nat)
    BY <1>1
  <2>2. \A m \in S : ~(m < n) /\ m \in Nat /\ n \in Nat
    BY <1>2, <2>1
  <2> QED
    BY <2>2
<1> QED
  BY <1>3

\* A set of naturals has a least element: what the inductions here rest on.
LEMMA LeastElement ==
  ASSUME NEW T, T \subseteq Nat, T # {}
  PROVE  \E n \in T : \A m \in T : n <= m
BY LeastOf

\* A part of 1 .. n that holds with each number all lesser ones.
LEMMA InitialPart ==
  ASSUME NEW n \in Nat, NEW T \in SUBSET (1 .. n),
         \A i \in 1 .. n : \A j \in T : i < j => i \in T
  PROVE  Cardinality(T) \in 0 .. n /\ T = 1 .. Cardinality(T)
<1> DEFINE Free == (1 .. n + 1) \ T
<1>1. Free # {} /\ Free \in SUBSET Nat
  <2>1. n + 1 \in Free
    OBVIOUS
  <2> QED
    BY <2>1
<1>2. PICK k \in Free : \A m \in Free : k <= m
  BY <1>1, LeastOf
<1>3. k \in 1 .. n + 1 /\ k \notin T
  BY <1>2
<1>4. \A i \in 1 .. k - 1 : i \in T
  BY <1>2, <1>3
<1>5. ASSUME NEW i \in T PROVE i \in 1 .. k - 1
  <2>1. i \in 1 .. n /\ i # k /\ (k < i => k \in T)
    BY <1>3
  <2> QED
    BY <1>3, <2>1
<1>6. T = 1 .. k - 1
  BY <1>4, <1>5
<1>7. Cardinality(1 .. k - 1) = k - 1
  BY <1>3, FS_Interval
<1> QED
  BY <1>3, <1>6, <1>7

-----------------------------------------------------------------------------
(* Sequences one after the other *)

\* g holds what the first n of the sequences make one after the other.
Flattens(g, seqs, n) ==
  \A i \in 1 .. n : g[i] = IF i = 1 THEN seqs[i] ELSE g[i - 1] \o seqs[i]

LEMMA FlattenedExists ==
  ASSUME NEW S, NEW seqs \in Seq(Seq(S)), NEW n \in 0 .. Len(seqs)
  PROVE  \E g \in [1 .. n -> Seq(S)] : Flattens(g, seqs, n)
<1> DEFINE T == {k \in 0 .. Len(seqs) : ~\E g \in [1 .. k -> Seq(S)] : Flattens(g, seqs, k)}
<1> SUFFICES T = {}
  OBVIOUS
<1> SUFFICES ASSUME T # {} PROVE FALSE
  OBVIOUS
<1>0. Len(seqs) \in Nat /\ \A i \in 1 .. Len(seqs) : seqs[i] \in Seq(S)
  BY LenProperties, ElementOfSeq
<1>1. PICK k \in T : \A m \in T : k <= m
  <2>1. T \subseteq Nat
    BY <1>0
  <2> QED
    BY <2>1, LeastElement
<1>2. k # 0
  <2>1. [i \in 1 .. 0 |-> <<>>] \in [1 .. 0 -> Seq(S)]
    OBVIOUS
  <2>2. Flattens([i \in 1 .. 0 |-> <<>>], seqs, 0)
    BY DEF Flattens
  <2> QED
    BY <2>1, <2>2
<1>3. k - 1 \in 0 .. Len(seqs) /\ k - 1 \notin T
  <2>1. k \in Nat /\ k - 1 \in 0 .. Len(seqs) /\ ~(k <= k - 1)
    BY <1>0, <1>2
  <2> QED
    BY <1>1, <2>1
<1>4. PICK g \in [1 .. k - 1 -> Seq(S)] : Flattens(g, seqs, k - 1)
  BY <1>3
<1> DEFINE last == IF k = 1 THEN seqs[k] ELSE g[k - 1] \o seqs[k]
           h == [i \in 1 .. k |-> IF i = k THEN last ELSE g[i]]
<1>5. last \in Seq(S)
  <2>1. CASE k = 1
    BY <1>0, <1>3, <2>1
  <2>2. CASE k # 1
    <3>1. g[k - 1] \in Seq(S) /\ seqs[k] \in Seq(S)
      BY <1>0, <1>1, <1>2, <2>2
    <3> QED
      BY <2>2, <3>1, ConcatProperties
  <2> QED
    BY <2>1, <2>2
<1>6. h \in [1 .. k -> Seq(S)]
  BY <1>1, <1>5
<1>7. Flattens(h, seqs, k)
  <2> SUFFICES ASSUME NEW i \in 1 .. k
               PROVE  h[i] = IF i = 1 THEN seqs[i] ELSE h[i - 1] \o seqs[i]
    BY DEF Flattens
  <2>1. CASE i = k
    <3>1. k # 1 => h[k - 1] = g[k - 1]
      BY <1>1, <1>2
    <3> QED
      BY <2>1, <3>1
  <2>2. CASE i # k
    <3>1. i \in 1 .. k - 1 /\ h[i] = g[i] /\ (i # 1 => h[i - 1] = g[i - 1])
      BY <1>1, <1>2, <2>2
    <3> QED
      BY <1>4, <3>1 DEF Flattens
  <2> QED
    BY <2>1, <2>2
<1> QED
  BY <1>1, <1>6, <1>7

LEMMA FlattenedUnique ==
  ASSUME NEW seqs, NEW n \in Nat, NEW f, NEW g, Flattens(f, seqs, n), Flattens(g, seqs, n)
  PROVE  \A i \in 1 .. n : f[i] = g[i]
<1> DEFINE T == {i \in 1 .. n : f[i] # g[i]}
<1> SUFFICES ASSUME T # {} PROVE FALSE
  OBVIOUS
<1>1. PICK k \in T : \A m \in T : k <= m
  <2>1. T \subseteq Nat
    OBVIOUS
  <2> QED
    BY <2>1, LeastElement
<1>2. k \in 1 .. n /\ f[k] # g[k]
  OBVIOUS
<1>3. k # 1 => f[k - 1] = g[k - 1]
  <2> SUFFICES ASSUME k # 1 PROVE f[k - 1] = g[k - 1]
    OBVIOUS
  <2>1. k - 1 \in 1 .. n /\ ~(k <= k - 1)
    BY <1>2
  <2> QED
    BY <1>1, <2>1
<1>4. /\ f[k] = IF k = 1 THEN seqs[k] ELSE f[k - 1] \o seqs[k]
      /\ g[k] = IF k = 1 THEN seqs[k] ELSE g[k - 1] \o seqs[k]
  BY <1>2 DEF Flattens
<1> QED
  BY <1>2, <1>3, <1>4

LEMMA FlattenSeqIs ==
  ASSUME NEW S, NEW seqs \in Seq(Seq(S)), seqs # <<>>
  PROVE  /\ FlattenSeq(seqs) \in Seq(S)
         /\ \E g \in [1 .. Len(seqs) -> Seq(S)] :
              /\ Flattens(g, seqs, Len(seqs))
              /\ FlattenSeq(seqs) = g[Len(seqs)]
<1> DEFINE n == Len(seqs)
           Body(g) == [i \in 1 .. n |-> IF i = 1 THEN seqs[i] ELSE g[i - 1] \o seqs[i]]
           flat == CHOOSE g : g = Body(g)
<1>1. n \in Nat \ {0}
  <2>1. seqs \in Seq(Seq(S))
    OBVIOUS
  <2> QED
    BY <2>1, EmptySeq
<1>2. PICK g \in [1 .. n -> Seq(S)] : Flattens(g, seqs, n)
  BY <1>1, FlattenedExists
<1>3. g = Body(g)
  BY <1>2 DEF Flattens
<1>4. flat = Body(flat)
  BY <1>3
<1>5. Flattens(flat, seqs, n)
  <2>1. \A i \in 1 .. n : Body(flat)[i] = IF i = 1 THEN seqs[i] ELSE flat[i - 1] \o seqs[i]
    OBVIOUS
  <2> HIDE DEF flat
  <2> QED
    BY <1>4, <2>1 DEF Flattens
<1>6. \A i \in 1 .. n : g[i] = flat[i]
  <2> HIDE DEF flat
  <2> QED
    BY <1>1, <1>2, <1>5, FlattenedUnique
<1>7. FlattenSeq(seqs) = flat[n]
  BY <1>1 DEF FlattenSeq
<1> HIDE DEF flat
<1>8. n \in 1 .. n
  BY <1>1
<1>9. FlattenSeq(seqs) = g[n] /\ g[n] \in Seq(S)
  BY <1>6, <1>7, <1>8
<1> QED
  BY <1>2, <1>9

\* One more sequence adds its elements at the end.
LEMMA FlattenAppend ==
  ASSUME NEW S, NEW seqs \in Seq(Seq(S)), NEW x \in Seq(S)
  PROVE  /\ FlattenSeq(seqs) \in Seq(S)
         /\ FlattenSeq(Append(seqs, x)) = FlattenSeq(seqs) \o x
<1> DEFINE more == Append(seqs, x)
           n == Len(seqs)
<1>1. /\ more \in Seq(Seq(S)) /\ more # <<>> /\ Len(more) = n + 1
      /\ \A i \in 1 .. n : more[i] = seqs[i]
      /\ more[n + 1] = x
      /\ n \in Nat
  BY AppendProperties, LenProperties
<1> HIDE DEF more, n
<1>2. PICK g : Flattens(g, more, n + 1) /\ FlattenSeq(more) = g[n + 1]
  BY <1>1, FlattenSeqIs
<1>3. g[n + 1] = IF n = 0 THEN x ELSE g[n] \o x
  <2>1. n + 1 \in 1 .. n + 1 /\ (n + 1 = 1 <=> n = 0) /\ (n + 1) - 1 = n
    BY <1>1
  <2> QED
    BY <1>1, <1>2, <2>1 DEF Flattens
<1>4. CASE seqs = <<>>
  <2>1. FlattenSeq(seqs) = <<>> /\ n = 0
    BY <1>4 DEF FlattenSeq, n
  <2>2. <<>> \in Seq(S) /\ <<>> \o x = x
    BY EmptySeq, ConcatEmptySeq
  <2> QED
    BY <1>2, <1>3, <2>1, <2>2 DEF more
<1>5. CASE seqs # <<>>
  <2>1. n \in Nat \ {0}
    <3>1. Len(seqs) \in Nat \ {0}
      BY <1>5, EmptySeq
    <3> QED
      BY <3>1 DEF n
  <2>2. /\ FlattenSeq(seqs) \in Seq(S)
        /\ \E f \in [1 .. n -> Seq(S)] : Flattens(f, seqs, n) /\ FlattenSeq(seqs) = f[n]
    BY <1>5, FlattenSeqIs DEF n
  <2>3. PICK f : Flattens(f, seqs, n) /\ FlattenSeq(seqs) = f[n]
    BY <2>2
  <2>4. Flattens(g, seqs, n)
    <3>1. \A i \in 1 .. n : i \in 1 .. n + 1 /\ more[i] = seqs[i]
      BY <1>1
    <3> QED
      BY <1>2, <3>1 DEF Flattens
  <2>5. \A i \in 1 .. n : f[i] = g[i]
    BY <1>1, <2>3, <2>4, FlattenedUnique
  <2>6. f[n] = g[n]
    BY <2>1, <2>5
  <2> QED
    BY <1>2, <1>3, <2>1, <2>2, <2>3, <2>6 DEF more
<1> QED
  BY <1>4, <1>5

-----------------------------------------------------------------------------
(* The order of strings *)

\* No string precedes itself, and no two precede each other.
LEMMA PrecedesStrictly ==
  ASSUME NEW a \in Seq(Nat), NEW b \in Seq(Nat), Precedes(a, b)
  PROVE  a # b /\ ~Precedes(b, a)
<1>0. /\ Len(a) \in Nat /\ Len(b) \in Nat
      /\ \A i \in 1 .. Len(a) : a[i] \in Nat
      /\ \A i \in 1 .. Len(b) : b[i] \in Nat
  BY LenProperties, ElementOfSeq
<1>1. PICK n \in 0 .. Len(a) : /\ n < Len(b) /\ \A i \in 1 .. n : a[i] = b[i]
                               /\ n = Len(a) \/ a[n + 1] < b[n + 1]
  BY DEF Precedes
<1>2. a # b
  BY <1>0, <1>1
<1>3. ASSUME Precedes(b, a) PROVE FALSE
  <2>1. PICK m \in 0 .. Len(b) : /\ m < Len(a) /\ \A i \in 1 .. m : b[i] = a[i]
                                 /\ m = Len(b) \/ b[m + 1] < a[m + 1]
    BY <1>3 DEF Precedes
  <2>2. CASE n < m
    <3>1. n + 1 \in 1 .. m /\ n + 1 \in 1 .. Len(a) /\ a[n + 1] = b[n + 1]
      BY <1>0, <1>1, <2>1, <2>2
    <3> QED
      BY <1>0, <1>1, <2>1, <3>1
  <2>3. CASE m < n
    <3>1. m + 1 \in 1 .. n /\ m + 1 \in 1 .. Len(b) /\ a[m + 1] = b[m + 1]
      BY <1>0, <1>1, <2>1, <2>3
    <3> QED
      BY <1>0, <1>1, <2>1, <3>1
  <2>4. CASE n = m
    <3>1. a[n + 1] < b[n + 1] /\ b[n + 1] < a[n + 1]
      BY <1>1, <2>1, <2>4
    <3>2. a[n + 1] \in Nat /\ b[n + 1] \in Nat
      BY <1>0, <1>1, <2>1, <2>4
    <3> QED
      BY <3>1, <3>2
  <2> QED
    BY <1>1, <2>1, <2>2, <2>3, <2>4
<1> QED
  BY <1>2, <1>3
=============================================================================
