---------------------------- MODULE HashRingProofs ----------------------------
(***************************************************************************)
(* Who owns a hash, for every number of nodes and virtual nodes, every     *)
(* hash function and every sequence of additions and removals; that what   *)
(* is hashed is told apart by its bytes; and that the hash, which can be   *)
(* undone step by step, keeps strings apart that differ in one byte.       *)
(***************************************************************************)
EXTENDS Placement, OrderingProofs, SequenceTheorems, FiniteSetTheorems

Position == [hash : Hashes, node_id : NodeIds, virtual_index : Virtual]
At(f, n, i) == [hash |-> f[<<n, i>>], node_id |-> n, virtual_index |-> i]
PositionsFor(f, N) == {At(f, n, i) : n \in N, i \in Virtual}

(***************************************************************************)
(* The inductive invariant: the positions are those of the nodes, in order,*)
(* and so depend on nothing but the nodes.                                 *)
(***************************************************************************)
RInv == /\ nodeHash \in [NodeIds \X Virtual -> Hashes]
        /\ nodes \in SUBSET NodeIds
        /\ positions = Sorted(PositionsFor(nodeHash, nodes))

-----------------------------------------------------------------------------
(* The order of positions *)

Preceding(S) == [x \in S |-> {y \in S : Before(y, x)}]

LEMMA PositionNumbers ==
  ASSUME NEW p \in Position
  PROVE  p.hash \in Nat /\ p.node_id \in Nat /\ p.virtual_index \in Nat
BY RingAssumption DEF Position, Hashes, NodeIds, Virtual

LEMMA BeforeTotal ==
  /\ \A p \in Position : ~Before(p, p)
  /\ \A p, q, r \in Position : Before(p, q) /\ Before(q, r) => Before(p, r)
  /\ \A p, q \in Position : p # q => Before(p, q) \/ Before(q, p)
<1>1. ASSUME NEW p \in Position PROVE ~Before(p, p)
  BY PositionNumbers DEF Before
<1>2. ASSUME NEW p \in Position, NEW q \in Position, NEW r \in Position,
             Before(p, q), Before(q, r)
      PROVE  Before(p, r)
  BY <1>2, PositionNumbers DEF Before
<1>3. ASSUME NEW p \in Position, NEW q \in Position, p # q
      PROVE  Before(p, q) \/ Before(q, p)
  <2>1. p.hash # q.hash \/ p.node_id # q.node_id \/ p.virtual_index # q.virtual_index
    BY <1>3 DEF Position
  <2> QED
    BY <2>1, PositionNumbers DEF Before
<1> QED
  BY <1>1, <1>2, <1>3

LEMMA BeforeIsRanked ==
  ASSUME NEW S PROVE Sorted(S) = Ranked(S, Preceding(S))
BY DEF Sorted, InOrder, Ranked, Preceding

LEMMA PositionOrder ==
  ASSUME NEW S \in SUBSET Position
  PROVE  TotalOrder(S, Preceding(S))
<1> DEFINE below == Preceding(S)
<1>1. \A x, y \in S : y \in below[x] <=> Before(y, x)
  BY DEF Preceding
<1>2. below \in [S -> SUBSET S]
  BY DEF Preceding
<1> HIDE DEF below
<1>3. \A x \in S : x \notin below[x]
  BY <1>1, BeforeTotal
<1>4. ASSUME NEW x \in S, NEW y \in S, y \in below[x] PROVE below[y] \subseteq below[x]
  <2> SUFFICES ASSUME NEW z \in below[y] PROVE z \in below[x]
    OBVIOUS
  <2>1. z \in S
    BY <1>2
  <2>2. Before(z, y) /\ Before(y, x)
    BY <1>1, <1>4, <2>1
  <2>3. Before(z, x)
    BY <2>1, <2>2, BeforeTotal
  <2> QED
    BY <1>1, <2>1, <2>3
<1>5. \A x, y \in S : x # y => x \in below[y] \/ y \in below[x]
  BY <1>1, BeforeTotal
<1>6. TotalOrder(S, below)
  BY <1>2, <1>3, <1>4, <1>5 DEF TotalOrder
<1> QED
  BY <1>6 DEF below

\* A set of positions in order.
LEMMA InPlace ==
  ASSUME NEW S \in SUBSET Position, IsFiniteSet(S)
  PROVE  LET q == Sorted(S)
         IN  /\ Cardinality(S) \in Nat
             /\ q \in [1 .. Cardinality(S) -> S]
             /\ \A i, j \in 1 .. Cardinality(S) : i < j <=> Before(q[i], q[j])
             /\ \A x \in S : \E i \in 1 .. Cardinality(S) : q[i] = x
<1> DEFINE q == Ranked(S, Preceding(S))
<1>1. /\ Cardinality(S) \in Nat
      /\ q \in [1 .. Cardinality(S) -> S]
      /\ \A i, j \in 1 .. Cardinality(S) : i < j <=> q[i] \in Preceding(S)[q[j]]
      /\ \A x \in S : \E i \in 1 .. Cardinality(S) : q[i] = x
  BY PositionOrder, InRank
<1> HIDE DEF q
<1>2. \A x, y \in S : y \in Preceding(S)[x] <=> Before(y, x)
  BY DEF Preceding
<1>3. \A i, j \in 1 .. Cardinality(S) : i < j <=> Before(q[i], q[j])
  BY <1>1, <1>2
<1> QED
  BY <1>1, <1>3, BeforeIsRanked DEF q

\* There is no other way to put them in order.
LEMMA OnlyPlace ==
  ASSUME NEW S \in SUBSET Position, IsFiniteSet(S),
         NEW n \in Nat, NEW q \in [1 .. n -> S],
         \A i, j \in 1 .. n : i < j => Before(q[i], q[j]),
         \A x \in S : \E i \in 1 .. n : q[i] = x
  PROVE  q = Sorted(S)
<1>1. \A x, y \in S : y \in Preceding(S)[x] <=> Before(y, x)
  BY DEF Preceding
<1>2. \A i, j \in 1 .. n : i < j => q[i] \in Preceding(S)[q[j]]
  BY <1>1
<1>3. q = Ranked(S, Preceding(S))
  BY <1>2, PositionOrder, OnlyRanked
<1> QED
  BY <1>3, BeforeIsRanked

-----------------------------------------------------------------------------
(* Every step keeps the invariant *)

HashFunctions == [NodeIds \X Virtual -> Hashes]

LEMMA PositionFacts ==
  ASSUME NEW f \in HashFunctions, NEW N \in SUBSET NodeIds
  PROVE  /\ PositionsFor(f, N) \in SUBSET Position
         /\ IsFiniteSet(PositionsFor(f, N))
<1>1. ASSUME NEW n \in N, NEW i \in Virtual PROVE At(f, n, i) \in Position
  <2>1. f[<<n, i>>] \in Hashes
    BY DEF HashFunctions
  <2> QED
    BY <2>1 DEF At, Position
<1>2. IsFiniteSet(N \X Virtual)
  <2>1. IsFiniteSet(NodeIds) /\ IsFiniteSet(Virtual)
    BY RingAssumption, FS_Interval DEF NodeIds, Virtual
  <2>2. IsFiniteSet(N)
    BY <2>1, FS_Subset
  <2> QED
    BY <2>1, <2>2, FS_Product
<1> DEFINE g == [x \in N \X Virtual |-> At(f, x[1], x[2])]
<1>3. g \in Surjection(N \X Virtual, PositionsFor(f, N))
  <2>1. g \in [N \X Virtual -> PositionsFor(f, N)]
    BY DEF PositionsFor
  <2>2. ASSUME NEW p \in PositionsFor(f, N) PROVE \E x \in N \X Virtual : g[x] = p
    <3>1. PICK n \in N, i \in Virtual : p = At(f, n, i)
      BY DEF PositionsFor
    <3>2. <<n, i>> \in N \X Virtual /\ g[<<n, i>>] = p
      BY <3>1
    <3> QED
      BY <3>2
  <2> HIDE DEF g
  <2> QED
    BY <2>1, <2>2 DEF Surjection
<1> HIDE DEF g
<1> QED
  BY <1>1, <1>2, <1>3, FS_Surjection DEF PositionsFor

\* What the invariant says of the list of positions.
LEMMA Listed ==
  ASSUME RInv
  PROVE  /\ Len(positions) \in Nat /\ DOMAIN positions = 1 .. Len(positions)
         /\ positions \in [1 .. Len(positions) -> PositionsFor(nodeHash, nodes)]
         /\ PositionsFor(nodeHash, nodes) \in SUBSET Position
         /\ \A i, j \in 1 .. Len(positions) : i < j <=> Before(positions[i], positions[j])
         /\ \A p \in PositionsFor(nodeHash, nodes) :
              \E i \in 1 .. Len(positions) : positions[i] = p
<1> DEFINE S == PositionsFor(nodeHash, nodes)
           N == Cardinality(S)
<1>1. S \in SUBSET Position /\ IsFiniteSet(S)
  BY PositionFacts DEF RInv, HashFunctions
<1>2. positions = Sorted(S)
  BY DEF RInv
<1> HIDE DEF S
<1>3. /\ N \in Nat /\ positions \in [1 .. N -> S]
      /\ \A i, j \in 1 .. N : i < j <=> Before(positions[i], positions[j])
      /\ \A p \in S : \E i \in 1 .. N : positions[i] = p
  BY <1>1, <1>2, InPlace
<1>4. Len(positions) = N /\ DOMAIN positions = 1 .. N
  BY <1>3
<1> QED
  BY <1>1, <1>3, <1>4 DEF S

LEMMA InitRInv == Init => RInv
<1> SUFFICES ASSUME Init PROVE RInv
  OBVIOUS
<1>1. PositionsFor(nodeHash, nodes) = {}
  BY DEF Init, PositionsFor
<1> DEFINE q == Sorted({})
<1>2. q \in [1 .. 0 -> {}]
  BY InPlace, FS_EmptySet
<1> HIDE DEF q
<1>3. q \in Seq({}) /\ Len(q) = 0
  BY <1>2
<1>4. q = <<>>
  BY <1>3, EmptySeq
<1> QED
  BY <1>1, <1>4 DEF Init, RInv, q

\* The positions of all are those that were there and those of the new node.
LEMMA AddRInv ==
  ASSUME RInv, NEW n \in NodeIds, AddNode(n)
  PROVE  RInv'
<1> DEFINE S == PositionsFor(nodeHash, nodes)
           new == PositionsOf(n)
           both == positions \o new
<1>1. /\ nodes' = nodes \cup {n} /\ nodeHash' = nodeHash
      /\ positions' = Sorted(ToSet(both))
  BY DEF AddNode
<1>2. /\ Len(positions) \in Nat /\ positions \in [1 .. Len(positions) -> S]
      /\ \A p \in S : \E i \in 1 .. Len(positions) : positions[i] = p
  BY Listed
<1>3. /\ VirtualNodes \in Nat
      /\ new = [i \in 1 .. VirtualNodes |-> At(nodeHash, n, i - 1)]
  BY RingAssumption DEF PositionsOf, At
<1> DEFINE All == S \cup {At(nodeHash, n, i) : i \in Virtual}
<1>4. \A i \in 1 .. VirtualNodes : i - 1 \in Virtual /\ new[i] \in All
  BY <1>3 DEF Virtual
<1>5. \A i \in Virtual : i + 1 \in 1 .. VirtualNodes /\ new[i + 1] = At(nodeHash, n, i)
  BY <1>3 DEF Virtual
<1>6. new \in Seq(All) /\ Len(new) = VirtualNodes
  BY <1>3, <1>4
<1>7. positions \in Seq(All)
  BY <1>2
<1> HIDE DEF new, S
<1>8. /\ both \in Seq(All) /\ Len(both) = Len(positions) + VirtualNodes
      /\ \A i \in 1 .. Len(positions) + VirtualNodes :
           both[i] = IF i <= Len(positions) THEN positions[i] ELSE new[i - Len(positions)]
  BY <1>6, <1>7, ConcatProperties
<1> HIDE DEF both
<1>9. ToSet(both) \subseteq All
  BY <1>8 DEF ToSet
<1>10. ASSUME NEW p \in All PROVE \E i \in DOMAIN both : both[i] = p
  <2>1. DOMAIN both = 1 .. Len(positions) + VirtualNodes
    BY <1>2, <1>3, <1>8
  <2>2. CASE p \in S
    <3>1. PICK i \in 1 .. Len(positions) : positions[i] = p
      BY <1>2, <2>2
    <3>2. i \in 1 .. Len(positions) + VirtualNodes /\ i <= Len(positions)
      BY <1>2, <1>3
    <3>3. both[i] = positions[i]
      BY <1>8, <3>2
    <3> QED
      BY <2>1, <3>1, <3>2, <3>3
  <2>3. CASE p \in {At(nodeHash, n, i) : i \in Virtual}
    <3>1. PICK i \in Virtual : p = At(nodeHash, n, i)
      BY <2>3
    <3>2. i + 1 \in 1 .. VirtualNodes /\ new[i + 1] = p
      BY <1>5, <3>1
    <3> DEFINE k == Len(positions) + (i + 1)
    <3>3. /\ k \in 1 .. Len(positions) + VirtualNodes
          /\ ~(k <= Len(positions)) /\ k - Len(positions) = i + 1
      BY <1>2, <1>3, <3>2
    <3>4. both[k] = p
      BY <1>8, <3>2, <3>3
    <3> QED
      BY <2>1, <3>3, <3>4
  <2> QED
    BY <2>2, <2>3
<1>11. ToSet(both) = All
  BY <1>9, <1>10 DEF ToSet
<1>12. All = PositionsFor(nodeHash', nodes')
  BY <1>1 DEF PositionsFor, S
<1>13. positions' = Sorted(PositionsFor(nodeHash', nodes'))
  BY <1>1, <1>11, <1>12
<1> QED
  BY <1>1, <1>13 DEF RInv

\* What is left of a list in order is in order.
LEMMA RemoveRInv ==
  ASSUME RInv, NEW n \in NodeIds, RemoveNode(n)
  PROVE  RInv'
<1> DEFINE S == PositionsFor(nodeHash, nodes)
           Rest == PositionsFor(nodeHash, nodes \ {n})
           L == Len(positions)
           O == {i \in DOMAIN positions : positions[i].node_id # n}
           M == Cardinality(O)
           order == Ordered(O)
           q == [j \in DOMAIN order |-> positions[order[j]]]
<1>1. nodes' = nodes \ {n} /\ nodeHash' = nodeHash /\ positions' = q
  BY DEF RemoveNode, Retained
<1>2. /\ L \in Nat /\ DOMAIN positions = 1 .. L /\ positions \in [1 .. L -> S]
      /\ \A i, j \in 1 .. L : i < j <=> Before(positions[i], positions[j])
      /\ \A p \in S : \E i \in 1 .. L : positions[i] = p
  BY Listed
<1>3. Rest = {p \in S : p.node_id # n}
  <2>1. \A m, i : At(nodeHash, m, i).node_id = m
    BY DEF At
  <2>2. ASSUME NEW p \in Rest PROVE p \in S /\ p.node_id # n
    BY <2>1 DEF PositionsFor
  <2>3. ASSUME NEW p \in S, p.node_id # n PROVE p \in Rest
    <3>1. PICK m \in nodes, i \in Virtual : p = At(nodeHash, m, i)
      BY DEF PositionsFor
    <3>2. m \in nodes \ {n}
      BY <2>1, <2>3, <3>1
    <3> QED
      BY <3>1, <3>2 DEF PositionsFor
  <2> HIDE DEF S, Rest
  <2> QED
    BY <2>2, <2>3
<1>4. O \in SUBSET Nat /\ O \in SUBSET (1 .. L) /\ IsFiniteSet(O)
  <2>1. O \in SUBSET (1 .. L)
    BY <1>2
  <2>2. IsFiniteSet(1 .. L)
    BY <1>2, FS_Interval
  <2> HIDE DEF O, L
  <2>3. IsFiniteSet(O)
    BY <2>1, <2>2, FS_Subset
  <2>4. O \in SUBSET Nat
    BY <1>2, <2>1
  <2> QED
    BY <2>1, <2>3, <2>4
<1>5. /\ M \in Nat /\ order \in [1 .. M -> O]
      /\ \A i, j \in 1 .. M : i < j <=> order[i] < order[j]
      /\ \A x \in O : \E i \in 1 .. M : order[i] = x
  BY <1>4, AscendingList
<1> HIDE DEF order
<1>6. q \in [1 .. M -> Rest]
  BY <1>2, <1>3, <1>5
<1>7. ASSUME NEW i \in 1 .. M, NEW j \in 1 .. M, i < j PROVE Before(q[i], q[j])
  <2>1. order[i] < order[j] /\ order[i] \in 1 .. L /\ order[j] \in 1 .. L
    BY <1>2, <1>5, <1>7
  <2> QED
    BY <1>2, <1>5, <2>1
<1>8. ASSUME NEW p \in Rest PROVE \E j \in 1 .. M : q[j] = p
  <2>1. PICK i \in 1 .. L : positions[i] = p
    BY <1>2, <1>3
  <2>2. i \in O
    BY <1>2, <1>3, <2>1
  <2>3. PICK j \in 1 .. M : order[j] = i
    BY <1>5, <2>2
  <2> QED
    BY <1>5, <2>1, <2>3
<1> HIDE DEF q
<1>9. Rest \in SUBSET Position /\ IsFiniteSet(Rest)
  BY PositionFacts DEF RInv, HashFunctions
<1>10. q = Sorted(Rest)
  BY <1>5, <1>6, <1>7, <1>8, <1>9, OnlyPlace
<1> QED
  BY <1>1, <1>10 DEF RInv

\* The positions are those of the nodes, in order, whatever led to them.
THEOREM PositionsInductive == Spec => []RInv
<1>1. ASSUME RInv, [Next]_vars PROVE RInv'
  <2>1. CASE UNCHANGED vars
    BY <1>1, <2>1 DEF vars, RInv
  <2> QED
    BY <1>1, <2>1, AddRInv, RemoveRInv DEF Next
<1> QED
  BY InitRInv, <1>1, PTL DEF Spec

-----------------------------------------------------------------------------
(* Who owns a hash *)

\* p is met no later than q on the way clockwise from h.
NoLater(h, p, q) ==
  \/ Reach(h, p.hash) < Reach(h, q.hash)
  \/ Reach(h, p.hash) = Reach(h, q.hash) /\ p.node_id <= q.node_id

LEMMA LaterInList ==
  ASSUME NEW h \in Hashes, NEW p \in Position, NEW q \in Position,
         p = q \/ Before(p, q),
         p.hash < h <=> q.hash < h
  PROVE  NoLater(h, p, q)
<1>1. p.hash \in Nat /\ q.hash \in Nat /\ p.node_id \in Nat /\ q.node_id \in Nat
      /\ h \in Nat /\ HashSpace \in Nat
  BY PositionNumbers, RingAssumption DEF Hashes
<1>2. p.hash < q.hash \/ (p.hash = q.hash /\ p.node_id <= q.node_id)
  BY <1>1 DEF Before
<1> QED
  BY <1>1, <1>2 DEF NoLater, Reach

LEMMA FirstClockwise ==
  ASSUME RInv, NEW h \in Hashes, nodes # {}
  PROVE  \E p \in PositionsFor(nodeHash, nodes) :
            /\ OwnerAt(h) = p.node_id
            /\ \A q \in PositionsFor(nodeHash, nodes) : NoLater(h, p, q)
<1> DEFINE S == PositionsFor(nodeHash, nodes)
           L == Len(positions)
           T == {i \in 1 .. L : positions[i].hash < h}
           m == Cardinality(T)
<1>1. /\ L \in Nat /\ DOMAIN positions = 1 .. L /\ positions \in [1 .. L -> S]
      /\ S \in SUBSET Position
      /\ \A i, j \in 1 .. L : i < j <=> Before(positions[i], positions[j])
      /\ \A p \in S : \E i \in 1 .. L : positions[i] = p
  BY Listed
<1>2. h \in Nat /\ HashSpace \in Nat /\ h < HashSpace
      /\ \A p \in S : p.hash \in Nat /\ p.node_id \in Nat /\ p.hash < HashSpace
  BY <1>1, RingAssumption, PositionNumbers DEF Hashes, Position
<1>3. 1 \in 1 .. L
  <2>1. PICK n \in nodes : TRUE
    OBVIOUS
  <2>2. 0 \in Virtual
    BY RingAssumption DEF Virtual
  <2>3. At(nodeHash, n, 0) \in S
    BY <2>2 DEF PositionsFor
  <2>4. \E i \in 1 .. L : TRUE
    BY <1>1, <2>3
  <2> QED
    BY <1>1, <2>4
<1> HIDE DEF S
<1>4. m \in 0 .. L /\ T = 1 .. m
  <2>1. ASSUME NEW i \in 1 .. L, NEW j \in T, i < j PROVE i \in T
    <3>1. Before(positions[i], positions[j])
          /\ positions[i] \in S /\ positions[j] \in S /\ positions[j].hash < h
      BY <1>1, <2>1
    <3>2. positions[i].hash < h
      BY <1>2, <3>1 DEF Before
    <3> QED
      BY <3>2
  <2>2. T \in SUBSET (1 .. L)
    OBVIOUS
  <2> HIDE DEF T
  <2> QED
    BY <1>1, <2>1, <2>2, InitialPart
<1>5. Partition(h) = m /\ positions # <<>>
  <2>1. positions # <<>>
    BY <1>1, <1>3
  <2>2. T = {i \in DOMAIN positions : positions[i].hash < h}
    BY <1>1
  <2> QED
    BY <2>1, <2>2 DEF Partition
<1>6. \A i \in 1 .. L : positions[i].hash < h <=> i <= m
  BY <1>1, <1>4
<1> HIDE DEF T, m
<1> DEFINE k == IF m < L THEN m + 1 ELSE 1
           p == positions[k]
<1>7. k \in 1 .. L /\ p \in S /\ OwnerAt(h) = p.node_id
  <2>1. k \in 1 .. L
    BY <1>1, <1>3, <1>4
  <2>2. OwnerAt(h) = p.node_id
    BY <1>5 DEF OwnerAt
  <2> QED
    BY <1>1, <2>1, <2>2
<1>8. ASSUME NEW q \in S PROVE NoLater(h, p, q)
  <2>1. PICK j \in 1 .. L : positions[j] = q
    BY <1>1
  <2>2. k <= j => p = q \/ Before(p, q)
    BY <1>1, <1>7, <2>1
  <2>3. p \in Position /\ q \in Position
    BY <1>1, <1>7
  <2>4. CASE m < L /\ j <= m
    <3>1. q.hash < h /\ ~(p.hash < h)
      <4>1. ~(k <= m)
        BY <1>4, <2>4
      <4> QED
        BY <1>6, <1>7, <2>1, <2>4, <4>1
    <3>2. Reach(h, p.hash) < Reach(h, q.hash)
      BY <1>2, <1>7, <3>1 DEF Reach
    <3> QED
      BY <3>2 DEF NoLater
  <2>5. CASE ~(m < L /\ j <= m)
    <3>1. k <= j /\ (k <= m <=> j <= m)
      BY <1>1, <1>4, <2>5
    <3>2. p.hash < h <=> q.hash < h
      BY <1>6, <1>7, <2>1, <3>1
    <3> QED
      BY <2>2, <2>3, <3>1, <3>2, LaterInList
  <2> QED
    BY <2>4, <2>5
<1> QED
  BY <1>7, <1>8 DEF S

(***************************************************************************)
(* How far a node is, and which is nearest, in terms of the hash function  *)
(* and the nodes alone.                                                    *)
(***************************************************************************)
Distance(f, h, n) == Min({Reach(h, f[<<n, i>>]) : i \in Virtual})

Nearest(f, N, h, o) ==
  /\ o \in N
  /\ \A n \in N : \/ Distance(f, h, o) < Distance(f, h, n)
                  \/ Distance(f, h, o) = Distance(f, h, n) /\ o <= n

OwnerNearest == \A h \in Hashes : nodes # {} => Nearest(nodeHash, nodes, h, OwnerAt(h))

LEMMA MinOf ==
  ASSUME NEW S \in SUBSET Nat, S # {}
  PROVE  Min(S) \in S /\ \A x \in S : Min(S) <= x
BY LeastOf DEF Min

LEMMA MinIs ==
  ASSUME NEW S \in SUBSET Nat, NEW m \in S, \A x \in S : m <= x
  PROVE  Min(S) = m
<1>1. Min(S) \in S /\ Min(S) <= m
  BY MinOf
<1>2. m <= Min(S) /\ Min(S) \in Nat /\ m \in Nat
  BY <1>1
<1> HIDE DEF Min
<1> QED
  BY <1>1, <1>2

LEMMA DistanceIs ==
  ASSUME NEW f \in HashFunctions, NEW h \in Hashes, NEW n \in NodeIds
  PROVE  /\ Distance(f, h, n) \in Nat
         /\ \A i \in Virtual : Distance(f, h, n) <= Reach(h, f[<<n, i>>])
         /\ \E i \in Virtual : Distance(f, h, n) = Reach(h, f[<<n, i>>])
<1> DEFINE S == {Reach(h, f[<<n, i>>]) : i \in Virtual}
<1>1. ASSUME NEW i \in Virtual PROVE Reach(h, f[<<n, i>>]) \in Nat
  <2>1. f[<<n, i>>] \in Hashes
    BY DEF HashFunctions
  <2> QED
    BY <2>1, RingAssumption DEF Reach, Hashes
<1>2. S \in SUBSET Nat
  BY <1>1
<1>3. S # {}
  <2>1. 0 \in Virtual
    BY RingAssumption DEF Virtual
  <2> QED
    BY <2>1
<1>4. Distance(f, h, n) = Min(S)
  BY DEF Distance
<1>5. Min(S) \in S /\ \A x \in S : Min(S) <= x
  BY <1>2, <1>3, MinOf
<1> QED
  BY <1>2, <1>4, <1>5

LEMMA OwnerIsNearest == RInv => OwnerNearest
<1> SUFFICES ASSUME RInv, NEW h \in Hashes, nodes # {}
             PROVE  Nearest(nodeHash, nodes, h, OwnerAt(h))
  BY DEF OwnerNearest
<1> DEFINE o == OwnerAt(h)
           D(n) == Distance(nodeHash, h, n)
<1>1. nodeHash \in HashFunctions /\ nodes \in SUBSET NodeIds
  BY DEF RInv, HashFunctions
<1>2. PICK p \in PositionsFor(nodeHash, nodes) :
        /\ o = p.node_id
        /\ \A q \in PositionsFor(nodeHash, nodes) : NoLater(h, p, q)
  BY FirstClockwise
<1>3. PICK m \in nodes, j \in Virtual : p = At(nodeHash, m, j)
  BY DEF PositionsFor
<1>4. o = m /\ m \in NodeIds /\ m \in Nat
  BY <1>1, <1>2, <1>3 DEF At, NodeIds
<1> HIDE DEF o
<1>5. ASSUME NEW n \in nodes PROVE D(m) < D(n) \/ (D(m) = D(n) /\ m <= n)
  <2>1. PICK i \in Virtual : D(n) = Reach(h, nodeHash[<<n, i>>])
    BY <1>1, DistanceIs
  <2>2. At(nodeHash, n, i) \in PositionsFor(nodeHash, nodes)
    BY DEF PositionsFor
  <2>3. NoLater(h, p, At(nodeHash, n, i))
    BY <1>2, <2>2
  <2>4. \/ Reach(h, nodeHash[<<m, j>>]) < D(n)
        \/ Reach(h, nodeHash[<<m, j>>]) = D(n) /\ m <= n
    BY <1>3, <2>1, <2>3 DEF NoLater, At
  <2>5. D(m) <= Reach(h, nodeHash[<<m, j>>]) /\ D(m) \in Nat /\ D(n) \in Nat
    BY <1>1, <1>4, DistanceIs
  <2>6. Reach(h, nodeHash[<<m, j>>]) \in Int
    <3>1. nodeHash[<<m, j>>] \in Hashes
      BY <1>4 DEF RInv
    <3> QED
      BY <3>1, RingAssumption DEF Reach, Hashes
  <2> HIDE DEF D
  <2> QED
    BY <2>4, <2>5, <2>6
<1>6. Nearest(nodeHash, nodes, h, m)
  BY <1>5 DEF Nearest
<1> QED
  BY <1>4, <1>6 DEF o

LEMMA OwnerOfNodes == RInv => OwnerByMembership
<1> SUFFICES ASSUME RInv, NEW h \in Hashes
             PROVE  OwnerAt(h) = IF nodes = {} THEN NoOwner
                                 ELSE LET near == Min({Clockwise(h, n) : n \in nodes})
                                      IN  Min({n \in nodes : Clockwise(h, n) = near})
  BY DEF OwnerByMembership
<1>1. CASE nodes = {}
  <2>1. PositionsFor(nodeHash, nodes) = {}
    BY <1>1 DEF PositionsFor
  <2>2. /\ Len(positions) \in Nat
        /\ positions \in [1 .. Len(positions) -> PositionsFor(nodeHash, nodes)]
    BY Listed
  <2>3. Len(positions) = 0
    BY <2>1, <2>2
  <2>4. positions \in Seq(Position)
    BY <2>1, <2>2, <2>3
  <2>5. positions = <<>>
    BY <2>3, <2>4, EmptySeq
  <2> QED
    BY <1>1, <2>5 DEF OwnerAt
<1>2. CASE nodes # {}
  <2> DEFINE o == OwnerAt(h)
             C == [n \in nodes |-> Clockwise(h, n)]
             near == Min({Clockwise(h, n) : n \in nodes})
             first == {n \in nodes : Clockwise(h, n) = near}
  <2>1. nodeHash \in HashFunctions /\ nodes \in SUBSET NodeIds /\ nodes \in SUBSET Nat
    BY DEF RInv, HashFunctions, NodeIds
  <2>2. \A n \in nodes : C[n] = Clockwise(h, n) /\ C[n] = Distance(nodeHash, h, n) /\ C[n] \in Nat
    BY <2>1, DistanceIs DEF Clockwise, Distance
  <2>3. Nearest(nodeHash, nodes, h, o)
    BY <1>2, OwnerIsNearest DEF OwnerNearest
  <2>4. o \in nodes /\ \A n \in nodes : C[o] < C[n] \/ (C[o] = C[n] /\ o <= n)
    BY <2>2, <2>3 DEF Nearest
  <2> HIDE DEF o, C
  <2>5. {Clockwise(h, n) : n \in nodes} = {C[n] : n \in nodes}
    BY <2>2
  <2>6. near = C[o]
    <3> DEFINE S == {C[n] : n \in nodes}
    <3>1. S \in SUBSET Nat /\ C[o] \in S /\ \A x \in S : C[o] <= x
      BY <2>2, <2>4
    <3> HIDE DEF S
    <3>2. Min(S) = C[o]
      BY <3>1, MinIs
    <3> QED
      BY <2>5, <3>2 DEF S
  <2> HIDE DEF near
  <2>7. first \in SUBSET Nat /\ o \in first /\ \A n \in first : o <= n
    <3>1. \A n : n \in first <=> n \in nodes /\ C[n] = near
      BY <2>2
    <3> HIDE DEF first
    <3>2. \A n \in first : o <= n
      BY <2>2, <2>4, <2>6, <3>1
    <3> QED
      BY <2>1, <2>4, <2>6, <3>1, <3>2
  <2> HIDE DEF first
  <2>8. Min(first) = o
    BY <2>7, MinIs
  <2> QED
    BY <1>2, <2>8 DEF o, near, first
<1> QED
  BY <1>1, <1>2

\* Equal membership gives equal ownership, however it came about.
THEOREM OwnersFollowMembership == Spec => []OwnerByMembership
BY PositionsInductive, OwnerOfNodes, PTL

LEMMA NearestIsOne ==
  ASSUME NEW f \in HashFunctions, NEW N \in SUBSET NodeIds, NEW h \in Hashes,
         NEW a, NEW b, Nearest(f, N, h, a), Nearest(f, N, h, b)
  PROVE  a = b
<1>1. a \in N /\ b \in N /\ a \in Nat /\ b \in Nat
  BY DEF Nearest, NodeIds
<1>2. Distance(f, h, a) \in Nat /\ Distance(f, h, b) \in Nat
  BY <1>1, DistanceIs
<1>3. /\ \/ Distance(f, h, a) < Distance(f, h, b)
         \/ Distance(f, h, a) = Distance(f, h, b) /\ a <= b
      /\ \/ Distance(f, h, b) < Distance(f, h, a)
         \/ Distance(f, h, b) = Distance(f, h, a) /\ b <= a
  BY <1>1 DEF Nearest
<1> QED
  BY <1>1, <1>2, <1>3

LEMMA MovesToOrFromOne ==
  ASSUME RInv, OwnerNearest, OwnerNearest', [Next]_vars, NEW h \in Hashes
  PROVE  \/ OwnerAt(h)' = OwnerAt(h)
         \/ nodes' \ nodes = {OwnerAt(h)'}
         \/ nodes \ nodes' = {OwnerAt(h)}
<1> DEFINE a == OwnerAt(h)
           b == OwnerAt(h)'
<1>1. nodeHash \in HashFunctions /\ nodes \in SUBSET NodeIds
  BY DEF RInv, HashFunctions
<1>2. nodes # {} => Nearest(nodeHash, nodes, h, a)
  BY DEF OwnerNearest
<1>3. nodes' # {} => Nearest(nodeHash', nodes', h, b)
  BY DEF OwnerNearest
<1> HIDE DEF a, b
<1>4. ASSUME NEW n \in NodeIds, AddNode(n)
      PROVE  b = a \/ nodes' \ nodes = {b}
  <2>1. nodeHash' = nodeHash /\ nodes' = nodes \cup {n} /\ n \notin nodes
    BY <1>4 DEF AddNode
  <2>2. Nearest(nodeHash, nodes', h, b)
    BY <1>3, <2>1
  <2>3. CASE b = n
    BY <2>1, <2>3
  <2>4. CASE b # n
    <3>1. Nearest(nodeHash, nodes, h, b)
      BY <2>1, <2>2, <2>4 DEF Nearest
    <3>2. Nearest(nodeHash, nodes, h, a)
      BY <1>2, <3>1 DEF Nearest
    <3> QED
      BY <1>1, <3>1, <3>2, NearestIsOne
  <2> QED
    BY <2>3, <2>4
<1>5. ASSUME NEW n \in NodeIds, RemoveNode(n)
      PROVE  b = a \/ nodes \ nodes' = {a}
  <2>1. nodeHash' = nodeHash /\ nodes' = nodes \ {n} /\ n \in nodes
    BY <1>5 DEF RemoveNode
  <2>2. Nearest(nodeHash, nodes, h, a)
    BY <1>2, <2>1
  <2>3. CASE a = n
    BY <2>1, <2>3
  <2>4. CASE a # n
    <3>1. Nearest(nodeHash, nodes', h, a)
      BY <2>1, <2>2, <2>4 DEF Nearest
    <3>2. Nearest(nodeHash, nodes', h, b)
      BY <1>3, <2>1, <3>1 DEF Nearest
    <3>3. nodes' \in SUBSET NodeIds
      BY <1>1, <2>1
    <3> QED
      BY <1>1, <3>1, <3>2, <3>3, NearestIsOne
  <2> QED
    BY <2>3, <2>4
<1>6. CASE UNCHANGED vars
  BY <1>6 DEF vars, a, b, OwnerAt, Partition
<1> QED
  BY <1>4, <1>5, <1>6 DEF Next, a, b

\* A key moves only to a node that joins or from one that leaves.
THEOREM OwnersMoveMinimally == Spec => MinimalMovement
<1> DEFINE Moves == \A h \in Hashes : \/ OwnerAt(h)' = OwnerAt(h)
                                      \/ nodes' \ nodes = {OwnerAt(h)'}
                                      \/ nodes \ nodes' = {OwnerAt(h)}
<1>1. RInv /\ OwnerNearest /\ OwnerNearest' /\ [Next]_vars => [Moves]_vars
  BY MovesToOrFromOne
<1>2. Spec => [](RInv /\ OwnerNearest)
  BY PositionsInductive, OwnerIsNearest, PTL
<1>3. MinimalMovement <=> [][Moves]_vars
  BY DEF MinimalMovement
<1> HIDE DEF Moves
<1> QED
  BY <1>1, <1>2, <1>3, PTL DEF Spec

-----------------------------------------------------------------------------
(* What is hashed *)

\* The bytes of a position are those of the node's id between a first byte and
\* the last four.
LEMMA NodeBytesAre ==
  ASSUME NEW id \in Seq(Byte), NEW ix \in [1 .. 4 -> Byte]
  PROVE  /\ NodeBytes(id, ix) \in Seq(Byte)
         /\ Len(NodeBytes(id, ix)) = Len(id) + 5
         /\ NodeBytes(id, ix)[1] = NodeDomain
         /\ \A i \in 1 .. Len(id) : NodeBytes(id, ix)[1 + i] = id[i]
         /\ \A i \in 1 .. 4 : NodeBytes(id, ix)[Len(id) + 1 + i] = ix[i]
<1> DEFINE d == <<NodeDomain>>
           h == d \o id
           b == h \o ix
           n == Len(id)
<1>1. n \in Nat
  BY LenProperties
<1>2. d \in Seq(Byte) /\ Len(d) = 1 /\ d[1] = NodeDomain
  BY DEF NodeDomain, Byte
<1>3. ix \in Seq(Byte) /\ Len(ix) = 4
  BY IsSequence
<1> HIDE DEF d, b, n
<1>4. /\ h \in Seq(Byte) /\ Len(h) = 1 + n
      /\ \A i \in 1 .. 1 + n : h[i] = IF i <= 1 THEN d[i] ELSE id[i - 1]
  <2>1. /\ d \o id \in Seq(Byte) /\ Len(d \o id) = Len(d) + Len(id)
        /\ \A i \in 1 .. Len(d) + Len(id) :
             (d \o id)[i] = IF i <= Len(d) THEN d[i] ELSE id[i - Len(d)]
    BY <1>2, ConcatProperties
  <2> QED
    BY <1>1, <1>2, <2>1 DEF n
<1> HIDE DEF h
<1> USE DEF b
<1>5. /\ b \in Seq(Byte) /\ Len(b) = 1 + n + 4
      /\ \A i \in 1 .. 1 + n + 4 : b[i] = IF i <= 1 + n THEN h[i] ELSE ix[i - (1 + n)]
  <2>1. /\ h \o ix \in Seq(Byte) /\ Len(h \o ix) = Len(h) + Len(ix)
        /\ \A i \in 1 .. Len(h) + Len(ix) :
             (h \o ix)[i] = IF i <= Len(h) THEN h[i] ELSE ix[i - Len(h)]
    BY <1>3, <1>4, ConcatProperties
  <2> QED
    BY <1>1, <1>3, <1>4, <2>1
<1> HIDE DEF b
<1>6. b = NodeBytes(id, ix)
  BY DEF b, h, d, NodeBytes, ToLeBytes
<1>7. b[1] = NodeDomain
  BY <1>1, <1>2, <1>4, <1>5
<1>8. ASSUME NEW i \in 1 .. n PROVE b[1 + i] = id[i]
  <2>1. /\ 1 + i \in 1 .. 1 + n /\ 1 + i \in 1 .. 1 + n + 4
        /\ 1 + i <= 1 + n /\ ~(1 + i <= 1) /\ (1 + i) - 1 = i
    BY <1>1
  <2> QED
    BY <1>4, <1>5, <2>1
<1>9. ASSUME NEW i \in 1 .. 4 PROVE b[n + 1 + i] = ix[i]
  <2>1. /\ n + 1 + i \in 1 .. 1 + n + 4 /\ ~(n + 1 + i <= 1 + n)
        /\ (n + 1 + i) - (1 + n) = i
    BY <1>1
  <2> QED
    BY <1>5, <2>1
<1>10. b \in Seq(Byte) /\ Len(b) = n + 5
  BY <1>1, <1>5
<1> QED
  BY <1>6, <1>7, <1>8, <1>9, <1>10 DEF n

\* Two positions with the same bytes are of one node and have one index.
LEMMA NodeBytesApart ==
  ASSUME NEW a \in Seq(Byte), NEW b \in Seq(Byte),
         NEW i \in [1 .. 4 -> Byte], NEW j \in [1 .. 4 -> Byte],
         NodeBytes(a, i) = NodeBytes(b, j)
  PROVE  a = b /\ i = j
<1>1. Len(a) = Len(b) /\ Len(a) \in Nat
  BY NodeBytesAre, LenProperties
<1>2. ASSUME NEW k \in 1 .. Len(a) PROVE a[k] = b[k]
  <2>1. NodeBytes(a, i)[1 + k] = a[k]
    BY NodeBytesAre
  <2>2. k \in 1 .. Len(b)
    BY <1>1
  <2>3. NodeBytes(b, j)[1 + k] = b[k]
    BY <2>2, NodeBytesAre
  <2> QED
    BY <2>1, <2>3
<1>3. a = b
  BY <1>1, <1>2, SeqEqual
<1>4. ASSUME NEW k \in 1 .. 4 PROVE i[k] = j[k]
  <2>1. NodeBytes(a, i)[Len(a) + 1 + k] = i[k]
    BY NodeBytesAre
  <2>2. NodeBytes(b, j)[Len(b) + 1 + k] = j[k]
    BY NodeBytesAre
  <2> QED
    BY <1>1, <2>1, <2>2
<1> QED
  BY <1>3, <1>4

\* The bytes of a key are told from those of a position by the first, and from
\* those of another key by the others.
LEMMA KeyBytesAre ==
  ASSUME NEW k \in Seq(Byte)
  PROVE  /\ KeyBytes(k)[1] = KeyDomain
         /\ Len(KeyBytes(k)) = Len(k) + 1
         /\ \A i \in 1 .. Len(k) : KeyBytes(k)[1 + i] = k[i]
<1> DEFINE d == <<KeyDomain>>
<1>1. d \in Seq(Byte) /\ Len(d) = 1 /\ d[1] = KeyDomain
  BY DEF KeyDomain, Byte
<1>2. Len(k) \in Nat
  BY LenProperties
<1>3. /\ Len(d \o k) = 1 + Len(k)
      /\ \A i \in 1 .. 1 + Len(k) : (d \o k)[i] = IF i <= 1 THEN d[i] ELSE k[i - 1]
  BY <1>1, <1>2, ConcatProperties
<1>4. KeyBytes(k) = d \o k
  BY DEF KeyBytes
<1> HIDE DEF d
<1>5. ASSUME NEW i \in 1 .. Len(k) PROVE (d \o k)[1 + i] = k[i]
  <2>1. 1 + i \in 1 .. 1 + Len(k) /\ ~(1 + i <= 1) /\ (1 + i) - 1 = i
    BY <1>2
  <2> QED
    BY <1>3, <2>1
<1>6. (d \o k)[1] = KeyDomain /\ Len(d \o k) = Len(k) + 1
  BY <1>1, <1>2, <1>3
<1> QED
  BY <1>4, <1>5, <1>6

LEMMA KeyBytesApart ==
  ASSUME NEW a \in Seq(Byte), NEW b \in Seq(Byte), KeyBytes(a) = KeyBytes(b)
  PROVE  a = b
<1>1. Len(a) = Len(b) /\ Len(a) \in Nat
  BY KeyBytesAre, LenProperties
<1>2. \A k \in 1 .. Len(a) : a[k] = b[k]
  BY <1>1, KeyBytesAre
<1> QED
  BY <1>1, <1>2, SeqEqual

\* So there are as many strings as keys and positions.
LEMMA EncodingTellsApart ==
  ASSUME nodes \in SUBSET NodeIds
  PROVE  EncodingUnambiguous
<1> DEFINE P == nodes \X HashedIndexes
           A == UNION {BytesOfNode[n] : n \in nodes}
           f == [p \in P |-> NodeBytes(NodeName[p[1]], p[2])]
           g == [k \in HashedKeys |-> KeyBytes(k)]
<1>1. /\ IsFiniteSet(nodes) /\ IsFiniteSet(HashedIndexes) /\ IsFiniteSet(HashedKeys)
      /\ \A n \in nodes : n \in NodeIds /\ NodeName[n] \in Seq(Byte)
      /\ \A m, n \in nodes : NodeName[m] = NodeName[n] => m = n
  <2>1. IsFiniteSet(NodeIds)
    BY RingAssumption, FS_Interval DEF NodeIds
  <2>2. IsFiniteSet(nodes)
    BY <2>1, FS_Subset
  <2>3. \A n \in nodes : n \in NodeIds
    OBVIOUS
  <2> QED
    BY <2>2, <2>3, EncodingAssumption
<1>2. IsFiniteSet(P) /\ Cardinality(P) = Cardinality(nodes) * Cardinality(HashedIndexes)
  BY <1>1, FS_Product
<1>3. f \in Bijection(P, A)
  <2>1. A = {NodeBytes(NodeName[p[1]], p[2]) : p \in P}
    <3>1. ASSUME NEW t \in A PROVE \E p \in P : t = NodeBytes(NodeName[p[1]], p[2])
      <4>1. PICK n \in nodes, i \in HashedIndexes : t = NodeBytes(NodeName[n], i)
        <5>1. PICK n \in nodes : t \in BytesOfNode[n]
          OBVIOUS
        <5>2. BytesOfNode[n] = {NodeBytes(NodeName[n], i) : i \in HashedIndexes}
          BY <1>1 DEF BytesOfNode
        <5> QED
          BY <5>1, <5>2
      <4>2. <<n, i>> \in P /\ <<n, i>>[1] = n /\ <<n, i>>[2] = i
        OBVIOUS
      <4> QED
        BY <4>1, <4>2
    <3>2. ASSUME NEW p \in P PROVE NodeBytes(NodeName[p[1]], p[2]) \in A
      <4>1. p[1] \in nodes /\ p[1] \in NodeIds /\ p[2] \in HashedIndexes
        BY <1>1
      <4>2. NodeBytes(NodeName[p[1]], p[2]) \in BytesOfNode[p[1]]
        BY <4>1 DEF BytesOfNode
      <4> QED
        BY <4>1, <4>2
    <3> QED
      BY <3>1, <3>2
  <2>2. ASSUME NEW p \in P, NEW q \in P, f[p] = f[q] PROVE p = q
    <3>1. /\ p[1] \in nodes /\ q[1] \in nodes /\ p = <<p[1], p[2]>> /\ q = <<q[1], q[2]>>
          /\ p[2] \in [1 .. 4 -> Byte] /\ q[2] \in [1 .. 4 -> Byte]
      BY EncodingAssumption
    <3>2. NodeName[p[1]] = NodeName[q[1]] /\ p[2] = q[2]
      BY <1>1, <2>2, <3>1, NodeBytesApart
    <3> QED
      BY <1>1, <3>1, <3>2
  <2>3. f \in [P -> A] /\ \A t \in A : \E p \in P : f[p] = t
    BY <2>1
  <2> HIDE DEF f, A, P
  <2> QED
    BY <2>2, <2>3 DEF Bijection, Injection, IsInjective, Surjection
<1>4. g \in Bijection(HashedKeys, BytesOfKeys)
  <2>1. ASSUME NEW p \in HashedKeys, NEW q \in HashedKeys, g[p] = g[q] PROVE p = q
    BY <2>1, EncodingAssumption, KeyBytesApart
  <2>2. g \in [HashedKeys -> BytesOfKeys] /\ \A t \in BytesOfKeys : \E p \in HashedKeys : g[p] = t
    BY DEF BytesOfKeys
  <2> HIDE DEF g
  <2> QED
    BY <2>1, <2>2 DEF Bijection, Injection, IsInjective, Surjection
<1>5. BytesOfKeys \cap A = {}
  <2> SUFFICES ASSUME NEW k \in HashedKeys, NEW n \in nodes, NEW i \in HashedIndexes,
                      KeyBytes(k) = NodeBytes(NodeName[n], i)
               PROVE  FALSE
    BY <1>1 DEF BytesOfKeys, BytesOfNode
  <2>1. KeyBytes(k)[1] = KeyDomain
    BY EncodingAssumption, KeyBytesAre
  <2>2. NodeBytes(NodeName[n], i)[1] = NodeDomain
    BY <1>1, EncodingAssumption, NodeBytesAre
  <2> QED
    BY <2>1, <2>2 DEF KeyDomain, NodeDomain
<1> HIDE DEF P, A, f, g
<1>6. IsFiniteSet(A) /\ Cardinality(A) = Cardinality(P)
  BY <1>2, <1>3, FS_Bijection DEF ExistsBijection
<1>7. IsFiniteSet(BytesOfKeys) /\ Cardinality(BytesOfKeys) = Cardinality(HashedKeys)
  BY <1>1, <1>4, FS_Bijection DEF ExistsBijection
<1>8. /\ Cardinality(BytesOfKeys \cup A) = Cardinality(BytesOfKeys) + Cardinality(A) - Cardinality({})
      /\ Cardinality(BytesOfKeys) \in Nat /\ Cardinality(A) \in Nat /\ Cardinality({}) = 0
  BY <1>5, <1>6, <1>7, FS_Union, FS_CardinalityType, FS_EmptySet
<1>9. Cardinality(BytesOfKeys \cup A) = Cardinality(HashedKeys) + Cardinality(P)
  BY <1>6, <1>7, <1>8
<1> QED
  BY <1>2, <1>9 DEF EncodingUnambiguous, A

\* Keys and positions of members are hashed from different bytes, for any node
\* ids, keys and indexes, of any length (hash.rs:25-38).
THEOREM BytesTellApart == Spec => []EncodingUnambiguous
<1>1. RInv => EncodingUnambiguous
  BY EncodingTellsApart DEF RInv
<1> QED
  BY <1>1, PositionsInductive, PTL
-----------------------------------------------------------------------------
(* Going up, one number at a time *)

\* What holds at p, and with each number at the next, holds up to n.
LEMMA Climb ==
  ASSUME NEW p \in Nat, NEW n \in Nat, NEW G, p \in G,
         \A k \in p + 1 .. n : k - 1 \in G => k \in G
  PROVE  \A k \in p .. n : k \in G
<1> DEFINE T == (p .. n) \ G
<1> SUFFICES ASSUME T # {} PROVE FALSE
  OBVIOUS
<1>1. T \subseteq Nat
  OBVIOUS
<1>2. PICK k \in T : \A m \in T : k <= m
  BY <1>1, LeastElement
<1>3. k # p /\ k \in p + 1 .. n /\ k - 1 \in p .. n
  OBVIOUS
<1>4. k - 1 \notin T
  BY <1>2, <1>3
<1> QED
  BY <1>2, <1>3, <1>4

\* What a recursion over the numbers up to n defines there is.
Recurs(n, S, base, step) ==
  \E f \in [0 .. n -> S] : /\ f[0] = base
                           /\ \A k \in 1 .. n : f[k] = step[k][f[k - 1]]

LEMMA RecursionExists ==
  ASSUME NEW n \in Nat, NEW S, NEW base \in S, NEW step \in [1 .. n -> [S -> S]]
  PROVE  Recurs(n, S, base, step)
<1> DEFINE Good(m) == \E f \in [0 .. m -> S] : /\ f[0] = base
                                               /\ \A k \in 1 .. m : f[k] = step[k][f[k - 1]]
           G == {m \in 0 .. n : Good(m)}
<1>1. 0 \in G
  <2> DEFINE f == [k \in 0 .. 0 |-> base]
  <2>1. f \in [0 .. 0 -> S] /\ f[0] = base
    OBVIOUS
  <2>2. \A k \in 1 .. 0 : f[k] = step[k][f[k - 1]]
    OBVIOUS
  <2> HIDE DEF f
  <2>3. Good(0)
    BY <2>1, <2>2
  <2> QED
    BY <2>3
<1>2. ASSUME NEW m \in 0 + 1 .. n, m - 1 \in G PROVE m \in G
  <2>1. PICK f \in [0 .. m - 1 -> S] : /\ f[0] = base
                                       /\ \A k \in 1 .. m - 1 : f[k] = step[k][f[k - 1]]
    BY <1>2
  <2> DEFINE g == [k \in 0 .. m |-> IF k = m THEN step[m][f[m - 1]] ELSE f[k]]
  <2>2. m \in 1 .. n /\ m - 1 \in 0 .. m - 1 /\ f[m - 1] \in S
    BY <2>1
  <2>3. step[m][f[m - 1]] \in S
    BY <2>2
  <2>4. g \in [0 .. m -> S]
    BY <2>1, <2>3
  <2>5. g[0] = base
    BY <2>1, <2>2
  <2>6. ASSUME NEW k \in 1 .. m PROVE g[k] = step[k][g[k - 1]]
    <3>1. k - 1 \in 0 .. m /\ k - 1 # m /\ g[k - 1] = f[k - 1]
      BY <2>2
    <3>2. CASE k = m
      BY <3>1, <3>2
    <3>3. CASE k # m
      BY <2>1, <2>2, <3>1, <3>3
    <3> QED
      BY <3>2, <3>3
  <2> HIDE DEF g
  <2> QED
    BY <2>4, <2>5, <2>6, <1>2
<1> HIDE DEF G
<1>3. \A k \in 0 .. n : k \in G
  BY <1>1, <1>2, Climb
<1>4. n \in G
  BY <1>3
<1> QED
  BY <1>4 DEF G, Recurs

-----------------------------------------------------------------------------
(* The hash undone, step by step *)

U64 == [Word -> Byte]

LEMMA WrittenIs ==
  ASSUME NEW f
  PROVE  \A k \in Word : Written(f)[k] = f[k]
BY DEF Written, Word

LEMMA WrittenType ==
  ASSUME NEW f, \A k \in Word : f[k] \in Byte
  PROVE  Written(f) \in U64
BY DEF Written, Word, U64

Bit(x, w) == (x \div w) % 2
Weights == {1, 2, 4, 8, 16, 32, 64, 128}

\* A byte is made of its bits,
LEMMA BitsMake ==
  ASSUME NEW x \in Byte
  PROVE  /\ \A w \in Weights : x \div w \in Nat /\ Bit(x, w) \in {0, 1}
         /\ x = Bit(x, 1) + 2 * Bit(x, 2) + 4 * Bit(x, 4) + 8 * Bit(x, 8) + 16 * Bit(x, 16)
                  + 32 * Bit(x, 32) + 64 * Bit(x, 64) + 128 * Bit(x, 128)
BY DEF Bit, Byte, Weights

\* and no other bits make it.
LEMMA BitsOnly ==
  ASSUME NEW c1 \in {0, 1}, NEW c2 \in {0, 1}, NEW c3 \in {0, 1}, NEW c4 \in {0, 1},
         NEW c5 \in {0, 1}, NEW c6 \in {0, 1}, NEW c7 \in {0, 1}, NEW c8 \in {0, 1},
         NEW d1 \in {0, 1}, NEW d2 \in {0, 1}, NEW d3 \in {0, 1}, NEW d4 \in {0, 1},
         NEW d5 \in {0, 1}, NEW d6 \in {0, 1}, NEW d7 \in {0, 1}, NEW d8 \in {0, 1},
         c1 + 2 * c2 + 4 * c3 + 8 * c4 + 16 * c5 + 32 * c6 + 64 * c7 + 128 * c8 =
           d1 + 2 * d2 + 4 * d3 + 8 * d4 + 16 * d5 + 32 * d6 + 64 * d7 + 128 * d8
  PROVE  c1 = d1 /\ c2 = d2 /\ c3 = d3 /\ c4 = d4 /\ c5 = d5 /\ c6 = d6 /\ c7 = d7 /\ c8 = d8
OBVIOUS

XorBit(x, y, w) == ((x \div w) + (y \div w)) % 2

LEMMA XorBits ==
  ASSUME NEW x \in Byte, NEW y \in Byte
  PROVE  /\ \A w \in Weights : XorBit(x, y, w) \in {0, 1}
         /\ Xor(x, y) = XorBit(x, y, 1) + 2 * XorBit(x, y, 2) + 4 * XorBit(x, y, 4)
              + 8 * XorBit(x, y, 8) + 16 * XorBit(x, y, 16) + 32 * XorBit(x, y, 32)
              + 64 * XorBit(x, y, 64) + 128 * XorBit(x, y, 128)
         /\ Xor(x, y) \in Byte
<1>1. \A w \in Weights : XorBit(x, y, w) \in {0, 1}
  BY BitsMake DEF XorBit
<1>2. Xor(x, y) = XorBit(x, y, 1) + 2 * XorBit(x, y, 2) + 4 * XorBit(x, y, 4)
        + 8 * XorBit(x, y, 8) + 16 * XorBit(x, y, 16) + 32 * XorBit(x, y, 32)
        + 64 * XorBit(x, y, 64) + 128 * XorBit(x, y, 128)
  BY <1>1 DEF Xor, XorBit, Weights
<1> QED
  BY <1>1, <1>2 DEF Byte, Weights

\* The exclusive or with one byte tells the others apart.
LEMMA XorApart ==
  ASSUME NEW x \in Byte, NEW y \in Byte, NEW z \in Byte, Xor(x, z) = Xor(y, z)
  PROVE  x = y
<1>1. \A w \in Weights : XorBit(x, z, w) \in {0, 1} /\ XorBit(y, z, w) \in {0, 1}
  BY XorBits
<1>2. \A w \in Weights : XorBit(x, z, w) = XorBit(y, z, w)
  BY <1>1, XorBits, BitsOnly DEF Weights
<1>3. ASSUME NEW w \in Weights PROVE Bit(x, w) = Bit(y, w)
  <2>1. x \div w \in Nat /\ y \div w \in Nat /\ z \div w \in Nat
    BY BitsMake
  <2> QED
    BY <1>2, <2>1 DEF XorBit, Bit
<1> QED
  BY <1>3, BitsMake DEF Weights

LEMMA XorSwaps == ASSUME NEW x \in Byte, NEW y \in Byte PROVE Xor(x, y) = Xor(y, x)
<1>1. \A w \in Weights : XorBit(x, y, w) = XorBit(y, x, w)
  BY BitsMake DEF XorBit
<1> QED
  BY <1>1, XorBits DEF Weights

\* The upper half is untouched, and with it undoes the shift of the lower.
LEMMA XorShiftApart ==
  /\ \A h \in U64 : XorShift(h) \in U64
  /\ \A h, g \in U64 : XorShift(h) = XorShift(g) => h = g
<1> DEFINE of(h) == [i \in Word |-> IF i <= 4 THEN Xor(h[i], Shifted(h)[i]) ELSE h[i]]
<1>1. ASSUME NEW h \in U64, NEW i \in 1 .. 4 PROVE Shifted(h)[i] \in Byte
  <2>1. /\ i + 4 \in Word /\ (i < 4 => i + 5 \in Word)
        /\ Shifted(h)[i] = (h[i + 4] \div 2) + (IF i < 4 THEN 128 * (h[i + 5] % 2) ELSE 0)
    BY DEF Shifted, Word
  <2>2. h[i + 4] \in Byte /\ (i < 4 => h[i + 5] \in Byte)
    BY <2>1 DEF U64
  <2> QED
    BY <2>1, <2>2 DEF Byte
<1>2. ASSUME NEW h \in U64 PROVE \A i \in Word : XorShift(h)[i] = of(h)[i] /\ of(h)[i] \in Byte
  <2>1. \A i \in Word : XorShift(h)[i] = of(h)[i]
    BY WrittenIs DEF XorShift
  <2>2. ASSUME NEW i \in Word PROVE of(h)[i] \in Byte
    <3>1. h[i] \in Byte /\ (i <= 4 => i \in 1 .. 4)
      BY DEF U64, Word
    <3> QED
      BY <1>1, <3>1, XorBits
  <2> QED
    BY <2>1, <2>2
<1>3. ASSUME NEW h \in U64 PROVE XorShift(h) \in U64
  BY <1>2, WrittenType DEF XorShift
<1>4. ASSUME NEW h \in U64, NEW g \in U64, XorShift(h) = XorShift(g) PROVE h = g
  <2>1. \A i \in Word : of(h)[i] = of(g)[i]
    BY <1>2, <1>4
  <2>2. \A i \in 5 .. 8 : h[i] = g[i]
    BY <2>1 DEF Word
  <2>3. ASSUME NEW i \in 1 .. 4 PROVE h[i] = g[i]
    <3>1. Shifted(h)[i] = Shifted(g)[i]
      <4>1. i + 4 \in 5 .. 8 /\ (i < 4 => i + 5 \in 5 .. 8)
        OBVIOUS
      <4> QED
        BY <2>2, <4>1 DEF Shifted
    <3>2. i \in Word /\ i <= 4
      BY DEF Word
    <3>3. Xor(h[i], Shifted(h)[i]) = Xor(g[i], Shifted(h)[i])
      BY <2>1, <3>1, <3>2
    <3>4. h[i] \in Byte /\ g[i] \in Byte
      BY <3>2 DEF U64
    <3> QED
      BY <1>1, <3>3, <3>4, XorApart
  <2>4. \A i \in Word : h[i] = g[i]
    BY <2>2, <2>3 DEF Word
  <2> QED
    BY <2>4 DEF U64
<1> QED
  BY <1>3, <1>4

\* The factors of the hash: an odd lowest byte undoes a product's lowest byte.
OddBytes == {179, 205, 83}

LEMMA OddUndoes ==
  ASSUME NEW x \in Byte, NEW y \in Byte, NEW s \in Nat, NEW c \in OddBytes,
         (s + x * c) % 256 = (s + y * c) % 256
  PROVE  x = y
<1>1. CASE c = 179
  BY <1>1, SMTT(60) DEF Byte
<1>2. CASE c = 205
  BY <1>2, SMTT(60) DEF Byte
<1>3. CASE c = 83
  BY <1>3, SMTT(60) DEF Byte
<1> QED
  BY <1>1, <1>2, <1>3 DEF OddBytes

Part(a, m, k, i) == IF i <= k THEN a[i] * m[k - i + 1] ELSE 0

LEMMA ColumnIs ==
  ASSUME NEW a, NEW m, NEW k
  PROVE  Column(a, m, k) =
           Part(a, m, k, 1) + Part(a, m, k, 2) + Part(a, m, k, 3) + Part(a, m, k, 4)
             + Part(a, m, k, 5) + Part(a, m, k, 6) + Part(a, m, k, 7) + Part(a, m, k, 8)
BY DEF Column, Part

LEMMA PartType ==
  ASSUME NEW a \in U64, NEW m \in U64, NEW k \in Word, NEW i \in Word
  PROVE  Part(a, m, k, i) \in Nat
<1>1. CASE i <= k
  <2>1. k - i + 1 \in Word
    BY <1>1 DEF Word
  <2>2. a[i] \in Nat /\ m[k - i + 1] \in Nat
    BY <2>1 DEF U64, Byte
  <2>3. a[i] * m[k - i + 1] \in Nat
    BY <2>2
  <2> QED
    BY <1>1, <2>3 DEF Part
<1>2. CASE ~(i <= k)
  BY <1>2 DEF Part
<1> QED
  BY <1>1, <1>2

\* A column depends on the bytes up to its own, on that one by the factor's lowest.
LEMMA ColumnTells ==
  ASSUME NEW a \in U64, NEW b \in U64, NEW m \in U64, NEW k \in Word,
         \A j \in Word : j < k => a[j] = b[j]
  PROVE  \E r \in Nat : /\ Column(a, m, k) = r + a[k] * m[1]
                        /\ Column(b, m, k) = r + b[k] * m[1]
<1> DEFINE q == [i \in Word |-> IF i = k THEN 0 ELSE Part(a, m, k, i)]
           X == a[k] * m[1]
           Y == b[k] * m[1]
           r == q[1] + q[2] + q[3] + q[4] + q[5] + q[6] + q[7] + q[8]
<1>1. \A i \in Word : q[i] \in Nat
  BY PartType
<1>2. Part(a, m, k, k) = X /\ Part(b, m, k, k) = Y /\ X \in Nat /\ Y \in Nat
  <2>1. k <= k /\ k - k + 1 = 1 /\ k \in Nat
    BY DEF Word
  <2>2. Part(a, m, k, k) = X /\ Part(b, m, k, k) = Y
    BY <2>1 DEF Part
  <2> QED
    BY <2>2, PartType
<1>3. ASSUME NEW i \in Word
      PROVE  /\ Part(a, m, k, i) = IF i = k THEN X ELSE q[i]
             /\ Part(b, m, k, i) = IF i = k THEN Y ELSE q[i]
  <2>1. CASE i = k
    BY <1>2, <2>1
  <2>2. CASE i # k
    <3>1. Part(b, m, k, i) = Part(a, m, k, i)
      BY <2>2 DEF Part, Word
    <3> QED
      BY <2>2, <3>1
  <2> QED
    BY <2>1, <2>2
<1>4. q[k] = 0
  OBVIOUS
<1> HIDE DEF q, X, Y
<1>5. ASSUME NEW c \in U64, NEW Z \in Nat,
             \A i \in Word : Part(c, m, k, i) = IF i = k THEN Z ELSE q[i]
      PROVE  Column(c, m, k) = r + Z
  <2> DEFINE z == [i \in Word |-> IF i = k THEN Z ELSE 0]
  <2>1. \A i \in Word : z[i] \in Nat /\ Part(c, m, k, i) = q[i] + z[i]
    BY <1>1, <1>4, <1>5
  <2>2. z[1] + z[2] + z[3] + z[4] + z[5] + z[6] + z[7] + z[8] = Z
    BY DEF Word
  <2> HIDE DEF z
  <2> QED
    BY <1>1, <2>1, <2>2, ColumnIs DEF Word
<1>6. r \in Nat
  BY <1>1 DEF Word
<1>7. Column(a, m, k) = r + X /\ Column(b, m, k) = r + Y
  BY <1>2, <1>3, <1>5
<1> HIDE DEF r
<1> QED
  BY <1>6, <1>7 DEF X, Y

LEMMA ColumnType ==
  ASSUME NEW a \in U64, NEW m \in U64, NEW k \in Word
  PROVE  Column(a, m, k) \in Nat
BY ColumnIs, PartType DEF Word

\* The totals of a product.
LEMMA TotalsAre ==
  ASSUME NEW a \in U64, NEW m \in U64
  PROVE  /\ Totals(a, m)[0] = 0
         /\ \A k \in Word : Totals(a, m)[k] = (Totals(a, m)[k - 1] \div 256) + Column(a, m, k)
         /\ \A k \in 0 .. 8 : Totals(a, m)[k] \in Nat
<1> DEFINE step == [k \in 1 .. 8 |-> [t \in Nat |-> (t \div 256) + Column(a, m, k)]]
           T == Totals(a, m)
<1>1. step \in [1 .. 8 -> [Nat -> Nat]]
  <2>1. ASSUME NEW k \in 1 .. 8, NEW t \in Nat PROVE (t \div 256) + Column(a, m, k) \in Nat
    <3>1. Column(a, m, k) \in Nat /\ t \div 256 \in Nat
      BY ColumnType DEF Word
    <3> QED
      BY <3>1
  <2> QED
    BY <2>1
<1>2. PICK f \in [0 .. 8 -> Nat] : f[0] = 0 /\ \A k \in 1 .. 8 : f[k] = step[k][f[k - 1]]
  <2> HIDE DEF step
  <2>1. Recurs(8, Nat, 0, step)
    BY <1>1, RecursionExists
  <2> QED
    BY <2>1 DEF Recurs
<1>3. f = [k \in 0 .. 8 |-> IF k = 0 THEN 0 ELSE (f[k - 1] \div 256) + Column(a, m, k)]
  <2>1. ASSUME NEW k \in 1 .. 8 PROVE f[k] = (f[k - 1] \div 256) + Column(a, m, k)
    <3>1. k - 1 \in 0 .. 8 /\ f[k - 1] \in Nat
      OBVIOUS
    <3> QED
      BY <1>2, <3>1
  <2> QED
    BY <1>2, <2>1
<1>4. T = [k \in 0 .. 8 |-> IF k = 0 THEN 0 ELSE (T[k - 1] \div 256) + Column(a, m, k)]
  BY <1>3 DEF Totals
<1> HIDE DEF T
<1>5. T[0] = 0 /\ \A k \in Word : T[k] = (T[k - 1] \div 256) + Column(a, m, k)
  BY <1>4 DEF Word
<1>6. \A k \in 0 .. 8 : T[k] \in Nat
  <2> DEFINE G == {k \in 0 .. 8 : T[k] \in Nat}
  <2>1. 0 \in G
    BY <1>5
  <2>2. ASSUME NEW k \in 0 + 1 .. 8, k - 1 \in G PROVE k \in G
    <3>1. k \in Word /\ Column(a, m, k) \in Nat /\ T[k - 1] \in Nat
      BY <2>2, ColumnType DEF Word
    <3>2. T[k - 1] \div 256 \in Nat
      BY <3>1
    <3> QED
      BY <1>5, <2>2, <3>1, <3>2
  <2> HIDE DEF G
  <2>3. \A k \in 0 .. 8 : k \in G
    BY <2>1, <2>2, Climb
  <2> QED
    BY <2>3 DEF G
<1> QED
  BY <1>5, <1>6 DEF T

\* A product with an odd factor tells the others apart, from the lowest byte up.
LEMMA ProductApart ==
  ASSUME NEW m \in U64, m[1] \in OddBytes
  PROVE  /\ \A a \in U64 : WrappingMul(a, m) \in U64
         /\ \A a, b \in U64 : WrappingMul(a, m) = WrappingMul(b, m) => a = b
<1>1. ASSUME NEW a \in U64, NEW k \in Word
      PROVE  WrappingMul(a, m)[k] = Totals(a, m)[k] % 256 /\ Totals(a, m)[k] % 256 \in Byte
  <2>1. WrappingMul(a, m)[k] = Totals(a, m)[k] % 256
    BY WrittenIs DEF WrappingMul
  <2>2. Totals(a, m)[k] \in Nat
    BY TotalsAre DEF Word
  <2> QED
    BY <2>1, <2>2 DEF Byte
<1>2. ASSUME NEW a \in U64 PROVE WrappingMul(a, m) \in U64
  BY <1>1, WrittenType DEF WrappingMul
<1>3. ASSUME NEW a \in U64, NEW b \in U64, WrappingMul(a, m) = WrappingMul(b, m) PROVE a = b
  <2> DEFINE G == {k \in 0 .. 8 : /\ \A j \in 1 .. k : a[j] = b[j]
                                  /\ Totals(a, m)[k] = Totals(b, m)[k]}
  <2>1. 0 \in G
    BY TotalsAre
  <2>2. ASSUME NEW k \in 0 + 1 .. 8, k - 1 \in G PROVE k \in G
    <3>1. k \in Word /\ k - 1 \in 0 .. 8
      BY DEF Word
    <3>2. \A j \in Word : j < k => a[j] = b[j]
      BY <2>2 DEF Word
    <3>3. PICK r \in Nat : /\ Column(a, m, k) = r + a[k] * m[1]
                           /\ Column(b, m, k) = r + b[k] * m[1]
      BY <3>1, <3>2, ColumnTells
    <3> DEFINE s == Totals(a, m)[k - 1] \div 256
               x == a[k]
               y == b[k]
               c == m[1]
    <3>4. s \in Nat /\ s + r \in Nat /\ x \in Byte /\ y \in Byte /\ c \in OddBytes /\ c \in Nat
      <4>1. Totals(a, m)[k - 1] \in Nat
        BY <3>1, TotalsAre
      <4> QED
        BY <3>1, <3>3, <4>1 DEF U64, OddBytes
    <3>5. /\ Totals(a, m)[k] = s + (r + x * c)
          /\ Totals(b, m)[k] = s + (r + y * c)
      BY <2>2, <3>1, <3>3, TotalsAre
    <3>6. Totals(a, m)[k] % 256 = Totals(b, m)[k] % 256
      BY <1>1, <1>3, <3>1
    <3> HIDE DEF s, x, y, c
    <3>7. x * c \in Nat /\ y * c \in Nat
      BY <3>4 DEF Byte
    <3>8. s + (r + x * c) = (s + r) + x * c /\ s + (r + y * c) = (s + r) + y * c
      BY <3>4, <3>7
    <3>9. x = y
      BY <3>4, <3>5, <3>6, <3>8, OddUndoes
    <3>10. \A j \in 1 .. k : a[j] = b[j]
      BY <3>1, <3>2, <3>9 DEF x, y, Word
    <3> QED
      BY <2>2, <3>5, <3>9, <3>10
  <2> HIDE DEF G
  <2>3. \A k \in 0 .. 8 : k \in G
    BY <2>1, <2>2, Climb
  <2>4. \A j \in Word : a[j] = b[j]
    <3>1. 8 \in G
      BY <2>3
    <3> QED
      BY <3>1 DEF G, Word
  <2> QED
    BY <2>4 DEF U64
<1> QED
  BY <1>2, <1>3

LEMMA FactorsAre ==
  /\ FnvOffsetBasis \in U64
  /\ FnvPrime \in U64 /\ FnvPrime[1] \in OddBytes
  /\ FirstFactor \in U64 /\ FirstFactor[1] \in OddBytes
  /\ SecondFactor \in U64 /\ SecondFactor[1] \in OddBytes
BY DEF FnvOffsetBasis, FnvPrime, FirstFactor, SecondFactor, U64, Word, Byte, OddBytes

\* One turn of the loop over the bytes.
Turn(h, x) == WrappingMul([h EXCEPT ![1] = Xor(@, x)], FnvPrime)

LEMMA TurnType == ASSUME NEW h \in U64, NEW x \in Byte PROVE Turn(h, x) \in U64
<1>1. h[1] \in Byte
  BY DEF U64, Word
<1>2. [h EXCEPT ![1] = Xor(@, x)] \in U64
  BY <1>1, XorBits DEF U64
<1> QED
  BY <1>2, FactorsAre, ProductApart DEF Turn

\* It tells two hashes apart that go on with one byte, and one that goes on with two.
LEMMA TurnApart ==
  ASSUME NEW h \in U64, NEW g \in U64, NEW x \in Byte, NEW y \in Byte,
         Turn(h, x) = Turn(g, y), h = g \/ x = y
  PROVE  h = g /\ x = y
<1> DEFINE u == [h EXCEPT ![1] = Xor(@, x)]
           v == [g EXCEPT ![1] = Xor(@, y)]
<1>1. h[1] \in Byte /\ g[1] \in Byte
  BY DEF U64, Word
<1>2. u \in U64 /\ v \in U64
  BY <1>1, XorBits DEF U64
<1>3. u = v
  <2> HIDE DEF u, v
  <2>1. WrappingMul(u, FnvPrime) = WrappingMul(v, FnvPrime)
    BY DEF Turn, u, v
  <2> QED
    BY <1>2, <2>1, FactorsAre, ProductApart
<1>4. /\ Xor(h[1], x) = Xor(g[1], y)
      /\ \A i \in Word : i # 1 => h[i] = g[i]
  <2>1. u[1] = Xor(h[1], x) /\ v[1] = Xor(g[1], y)
    BY DEF U64, Word
  <2>2. \A i \in Word : i # 1 => u[i] = h[i] /\ v[i] = g[i]
    BY DEF U64
  <2> HIDE DEF u, v
  <2> QED
    BY <1>3, <2>1, <2>2
<1>5. CASE h = g
  <2>1. Xor(x, h[1]) = Xor(y, h[1])
    BY <1>1, <1>4, <1>5, XorSwaps
  <2> QED
    BY <1>1, <1>5, <2>1, XorApart
<1>6. CASE x = y
  <2>1. h[1] = g[1]
    BY <1>1, <1>4, <1>6, XorApart
  <2>2. \A i \in Word : h[i] = g[i]
    BY <1>4, <2>1
  <2> QED
    BY <1>6, <2>2 DEF U64
<1> QED
  BY <1>5, <1>6

LEMMA FnvIs ==
  ASSUME NEW b \in Seq(Byte)
  PROVE  /\ Fnv(b)[0] = FnvOffsetBasis
         /\ \A n \in 1 .. Len(b) : Fnv(b)[n] = Turn(Fnv(b)[n - 1], b[n])
         /\ \A n \in 0 .. Len(b) : Fnv(b)[n] \in U64
<1> DEFINE N == Len(b)
           step == [n \in 1 .. N |-> [h \in U64 |-> Turn(h, b[n])]]
           F == Fnv(b)
<1>1. N \in Nat /\ \A n \in 1 .. N : b[n] \in Byte
  BY LenProperties, ElementOfSeq
<1>2. step \in [1 .. N -> [U64 -> U64]]
  BY <1>1, TurnType
<1>3. PICK f \in [0 .. N -> U64] : /\ f[0] = FnvOffsetBasis
                                   /\ \A n \in 1 .. N : f[n] = step[n][f[n - 1]]
  <2> HIDE DEF step, N
  <2>1. Recurs(N, U64, FnvOffsetBasis, step)
    BY <1>1, <1>2, FactorsAre, RecursionExists
  <2> QED
    BY <2>1 DEF Recurs
<1>4. \A n \in 1 .. N : f[n] = Turn(f[n - 1], b[n])
  <2>1. ASSUME NEW n \in 1 .. N PROVE f[n] = Turn(f[n - 1], b[n])
    <3>1. n - 1 \in 0 .. N /\ f[n - 1] \in U64
      BY <1>1
    <3> QED
      BY <1>3, <3>1
  <2> QED
    BY <2>1
<1> HIDE DEF step
<1>5. f = [n \in 0 .. N |-> IF n = 0 THEN FnvOffsetBasis
                            ELSE WrappingMul([f[n - 1] EXCEPT ![1] = Xor(@, b[n])], FnvPrime)]
  BY <1>1, <1>3, <1>4 DEF Turn
<1>6. F = [n \in 0 .. N |-> IF n = 0 THEN FnvOffsetBasis
                            ELSE WrappingMul([F[n - 1] EXCEPT ![1] = Xor(@, b[n])], FnvPrime)]
  BY <1>5 DEF Fnv
<1> HIDE DEF F
<1>7. F[0] = FnvOffsetBasis /\ \A n \in 1 .. N : F[n] = Turn(F[n - 1], b[n])
  <2>1. 0 \in 0 .. N
    BY <1>1
  <2>2. F[0] = FnvOffsetBasis
    BY <1>6, <2>1
  <2>3. ASSUME NEW n \in 1 .. N PROVE F[n] = Turn(F[n - 1], b[n])
    <3>1. n \in 0 .. N /\ n # 0
      BY <1>1
    <3> QED
      BY <1>6, <3>1 DEF Turn
  <2> QED
    BY <2>2, <2>3
<1>8. \A n \in 0 .. N : F[n] \in U64
  <2> DEFINE G == {n \in 0 .. N : F[n] \in U64}
  <2>1. 0 \in G
    BY <1>1, <1>7, FactorsAre
  <2>2. ASSUME NEW n \in 0 + 1 .. N, n - 1 \in G PROVE n \in G
    BY <1>1, <1>7, <2>2, TurnType
  <2> HIDE DEF G
  <2>3. \A n \in 0 .. N : n \in G
    BY <1>1, <2>1, <2>2, Climb
  <2> QED
    BY <2>3 DEF G
<1> QED
  BY <1>7, <1>8 DEF F

\* The finaliser can be undone.
Finish(h) == XorShift(WrappingMul(XorShift(WrappingMul(XorShift(h), FirstFactor)), SecondFactor))

LEMMA FinishApart == ASSUME NEW h \in U64, NEW g \in U64, Finish(h) = Finish(g) PROVE h = g
<1> DEFINE s(x) == XorShift(x)
           m(x) == WrappingMul(x, FirstFactor)
           n(x) == WrappingMul(x, SecondFactor)
<1>1. \A x \in U64 : s(x) \in U64 /\ m(x) \in U64 /\ n(x) \in U64
  BY FactorsAre, ProductApart, XorShiftApart
<1>2. \A x, y \in U64 : /\ s(x) = s(y) => x = y
                        /\ m(x) = m(y) => x = y
                        /\ n(x) = n(y) => x = y
  BY FactorsAre, ProductApart, XorShiftApart
<1>3. s(n(s(m(s(h))))) = s(n(s(m(s(g)))))
  BY DEF Finish
<1> HIDE DEF s, m, n
<1>4. n(s(m(s(h)))) = n(s(m(s(g))))
  BY <1>1, <1>2, <1>3
<1>5. s(m(s(h))) = s(m(s(g)))
  BY <1>1, <1>2, <1>4
<1>6. m(s(h)) = m(s(g))
  BY <1>1, <1>2, <1>5
<1> QED
  BY <1>1, <1>2, <1>6

\* Two strings that differ in one byte have different hashes.
THEOREM OneByteTells ==
  ASSUME NEW a \in Seq(Byte), NEW b \in Seq(Byte), Len(a) = Len(b),
         NEW p \in 1 .. Len(a), a[p] # b[p],
         \A i \in 1 .. Len(a) : i # p => a[i] = b[i]
  PROVE  StableHash(a) # StableHash(b)
<1> DEFINE N == Len(a)
           A == Fnv(a)
           B == Fnv(b)
           Same == {n \in Nat : n <= N /\ A[n] = B[n]}
           Apart == {n \in Nat : n <= N /\ A[n] # B[n]}
<1>1. N \in Nat /\ p - 1 \in Nat /\ \A n \in 1 .. N : a[n] \in Byte /\ b[n] \in Byte
  BY LenProperties, ElementOfSeq
<1>2. /\ A[0] = FnvOffsetBasis /\ B[0] = FnvOffsetBasis
      /\ \A n \in 1 .. N : A[n] = Turn(A[n - 1], a[n]) /\ B[n] = Turn(B[n - 1], b[n])
      /\ \A n \in 0 .. N : A[n] \in U64 /\ B[n] \in U64
  BY FnvIs
<1> HIDE DEF A, B
<1>3. A[p - 1] = B[p - 1]
  <2>1. 0 \in Same
    BY <1>1, <1>2
  <2>2. ASSUME NEW n \in 0 + 1 .. p - 1, n - 1 \in Same PROVE n \in Same
    <3>1. n \in 1 .. N /\ n # p
      BY <1>1
    <3> QED
      BY <1>2, <2>2, <3>1
  <2> HIDE DEF Same
  <2>3. \A n \in 0 .. p - 1 : n \in Same
    BY <1>1, <2>1, <2>2, Climb
  <2>4. p - 1 \in Same
    BY <1>1, <2>3
  <2> QED
    BY <2>4 DEF Same
<1>4. A[N] # B[N]
  <2>1. p \in Apart
    <3>1. A[p - 1] \in U64 /\ p \in 0 .. N
      BY <1>1, <1>2
    <3>2. A[p] # B[p]
      BY <1>1, <1>2, <1>3, <3>1, TurnApart
    <3> QED
      BY <3>1, <3>2
  <2>2. ASSUME NEW n \in p + 1 .. N, n - 1 \in Apart PROVE n \in Apart
    <3>1. n \in 1 .. N /\ n # p /\ n - 1 \in 0 .. N
      BY <1>1
    <3>2. A[n - 1] \in U64 /\ B[n - 1] \in U64 /\ A[n - 1] # B[n - 1] /\ a[n] = b[n] /\ a[n] \in Byte
      BY <1>1, <1>2, <2>2, <3>1
    <3>3. A[n] # B[n]
      BY <1>2, <3>1, <3>2, TurnApart
    <3> QED
      BY <3>1, <3>3
  <2> HIDE DEF Apart
  <2>3. \A n \in p .. N : n \in Apart
    <3>1. p \in Nat
      BY <1>1
    <3> HIDE DEF N
    <3> QED
      BY <1>1, <2>1, <2>2, <3>1, Climb
  <2>4. N \in Apart
    BY <1>1, <2>3
  <2> QED
    BY <2>4 DEF Apart
<1>5. StableHash(a) = Finish(A[N]) /\ StableHash(b) = Finish(B[N])
  BY DEF StableHash, Finish, A, B
<1>6. A[N] \in U64 /\ B[N] \in U64
  BY <1>1, <1>2
<1> QED
  BY <1>4, <1>5, <1>6, FinishApart

\* Four bytes written out are a function on 1 .. 4.
LEMMA IndexType ==
  ASSUME NEW a \in Byte, NEW b \in Byte, NEW c \in Byte, NEW d \in Byte
  PROVE  <<a, b, c, d>> \in [1 .. 4 -> Byte]
<1>1. <<a, b, c, d>> \in Seq(Byte) /\ Len(<<a, b, c, d>>) = 4
  OBVIOUS
<1> QED
  BY <1>1, LenProperties

\* The strings of a node's positions with index bytes b differ in one byte.
LEMMA IndexApart ==
  ASSUME NEW id \in Seq(Byte), NEW b \in 0 .. 255, NEW c \in 0 .. 255,
         NodeHash(id, <<b, 0, 0, 0>>) = NodeHash(id, <<c, 0, 0, 0>>)
  PROVE  b = c
<1> DEFINE x == <<b, 0, 0, 0>>
           y == <<c, 0, 0, 0>>
           n == Len(id)
           s == NodeBytes(id, x)
           t == NodeBytes(id, y)
<1>1. /\ x \in [1 .. 4 -> Byte] /\ y \in [1 .. 4 -> Byte] /\ x[1] = b /\ y[1] = c
      /\ \A i \in 2 .. 4 : x[i] = y[i]
  <2>1. b \in Byte /\ c \in Byte /\ 0 \in Byte
    BY DEF Byte
  <2>2. x \in [1 .. 4 -> Byte] /\ y \in [1 .. 4 -> Byte]
    BY <2>1, IndexType
  <2>3. \A i \in 2 .. 4 : i = 2 \/ i = 3 \/ i = 4
    OBVIOUS
  <2>4. /\ x[1] = b /\ x[2] = 0 /\ x[3] = 0 /\ x[4] = 0
        /\ y[1] = c /\ y[2] = 0 /\ y[3] = 0 /\ y[4] = 0
    OBVIOUS
  <2> QED
    BY <2>2, <2>3, <2>4
<1>2. n \in Nat
  BY LenProperties
<1> HIDE DEF x, y
<1>3. /\ s \in Seq(Byte) /\ Len(s) = n + 5 /\ s[1] = NodeDomain
      /\ \A i \in 1 .. n : s[1 + i] = id[i]
      /\ \A i \in 1 .. 4 : s[n + 1 + i] = x[i]
  BY <1>1, NodeBytesAre
<1>4. /\ t \in Seq(Byte) /\ Len(t) = n + 5 /\ t[1] = NodeDomain
      /\ \A i \in 1 .. n : t[1 + i] = id[i]
      /\ \A i \in 1 .. 4 : t[n + 1 + i] = y[i]
  BY <1>1, NodeBytesAre
<1>5. StableHash(s) = StableHash(t)
  BY DEF NodeHash, x, y
<1> HIDE DEF s, t, n
<1>6. n + 2 \in 1 .. Len(s) /\ s[n + 2] = b /\ t[n + 2] = c
  <2>1. n + 1 + 1 = n + 2 /\ n + 2 \in 1 .. n + 5
    BY <1>2
  <2> QED
    BY <1>1, <1>3, <1>4, <2>1
<1>7. ASSUME NEW i \in 1 .. Len(s), i # n + 2 PROVE s[i] = t[i]
  <2>1. CASE i = 1
    BY <1>3, <1>4, <2>1
  <2>2. CASE i \in 2 .. n + 1
    <3>1. i - 1 \in 1 .. n /\ 1 + (i - 1) = i
      BY <1>2, <2>2
    <3> QED
      BY <1>3, <1>4, <3>1
  <2>3. CASE i > n + 2
    <3>1. i - (n + 1) \in 2 .. 4 /\ n + 1 + (i - (n + 1)) = i /\ i - (n + 1) \in 1 .. 4
      BY <1>2, <1>3, <2>3
    <3> QED
      BY <1>1, <1>3, <1>4, <3>1
  <2> QED
    BY <1>2, <1>3, <1>7, <2>1, <2>2, <2>3
<1> QED
  BY <1>3, <1>4, <1>5, <1>6, <1>7, OneByteTells

LEMMA DefaultsApart ==
  ASSUME NEW id \in Seq(Byte)
  PROVE  Cardinality({NodeHash(id, <<b, 0, 0, 0>>) : b \in 0 .. DefaultVirtualNodes - 1}) =
           DefaultVirtualNodes
<1> DEFINE S == 0 .. 255
           T == {NodeHash(id, <<b, 0, 0, 0>>) : b \in S}
           f == [b \in S |-> NodeHash(id, <<b, 0, 0, 0>>)]
<1>1. f \in [S -> T] /\ \A t \in T : \E b \in S : f[b] = t
  OBVIOUS
<1>2. \A b, c \in S : f[b] = f[c] => b = c
  BY IndexApart
<1>3. IsFiniteSet(S) /\ Cardinality(S) = 256
  <2>1. 0 \in Int /\ 255 \in Int /\ (255 - 0) + 1 = 256 /\ 0 <= 255
    OBVIOUS
  <2>2. IsFiniteSet(0 .. 255) /\ Cardinality(0 .. 255) = IF 0 > 255 THEN 0 ELSE (255 - 0) + 1
    BY <2>1, FS_Interval, Zenon
  <2> QED
    BY <2>1, <2>2
<1>4. DefaultVirtualNodes = 256 /\ 0 .. DefaultVirtualNodes - 1 = S
  BY DEF DefaultVirtualNodes
<1> HIDE DEF S, T, f
<1>5. f \in Bijection(S, T)
  BY <1>1, <1>2 DEF Bijection, Injection, IsInjective, Surjection
<1>6. Cardinality(T) = 256
  BY <1>3, <1>5, FS_Bijection DEF ExistsBijection
<1> QED
  BY <1>4, <1>6 DEF T

\* The positions that a member has by default never fall together, whatever its
\* name, since the hash can be undone (hash_ring.rs:12, hash.rs:12-23).
THEOREM DefaultPositionsApart == Spec => []PositionsApart
<1>1. ASSUME RInv PROVE PositionsApart
  <2>1. ASSUME NEW n \in nodes PROVE PositionsOfNode[n] = DefaultVirtualNodes
    <3>1. n \in NodeIds /\ NodeName[n] \in Seq(Byte)
      BY <1>1, EncodingAssumption DEF RInv
    <3> QED
      BY <3>1, DefaultsApart DEF PositionsOfNode
  <2> QED
    BY <2>1 DEF PositionsApart
<1> QED
  BY <1>1, PositionsInductive, PTL
===============================================================================
