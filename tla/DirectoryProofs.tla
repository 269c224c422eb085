--------------------------- MODULE DirectoryProofs --------------------------
(***************************************************************************)
(* The files of a data directory.  For any number of openers and of clones *)
(* it has at most one owner (DirectoryLock).  For any keys, values and     *)
(* limit, the size of the memtable is what its entries count, and what a   *)
(* flush writes out reads back as what the memtable held (TableFlush).     *)
(***************************************************************************)
EXTENDS DirectoryLock, TableFlush, OrderingProofs

-----------------------------------------------------------------------------
(* DirectoryLock *)

\* Descriptors are on the one inode LOCK ever gets: without this, two openers
\* could hold locks on different inodes.
OneInode == \A h \in Openers : fd[h] # NoInode => fd[h] = lockFile

\* Those past try_lock hold the lock, until the last field is dropped.
OwnersLock == /\ \A h \in Openers : pc[h] \in Owning => locked[h] /\ fd[h] # NoInode
              /\ \A h \in Openers : locked[h] => pc[h] \in Owning
              /\ \A h \in Openers : pc[h] = "trying" => fd[h] # NoInode
              /\ \A h \in Openers : wal[h] => pc[h] \in {"serving", "drop_wal"}

TmpListed == \A h \in Openers : flushing[h] => pc[h] = "serving"

LockInv == TypeOK /\ OneInode /\ OwnersLock /\ OneOwner /\ TmpListed /\ TmpKept
        /\ ServedWhileCloned

\* A directory nobody has opened.
LEMMA InitLockInv == Init => LockInv
  BY InodesAssumption, ClonesAssumption, SMT
  DEF Init, LockInv, TypeOK, OneInode, OwnersLock, OneOwner, TmpListed, TmpKept,
      ServedWhileCloned, Owning

\* No step takes the invariant away.
LEMMA NextLockInv == LockInv /\ [Next]_vars => LockInv'
<1> SUFFICES ASSUME LockInv, [Next]_vars PROVE LockInv'
  OBVIOUS
<1> USE InodesAssumption, ClonesAssumption
        DEF LockInv, TypeOK, OneInode, OwnersLock, OneOwner, TmpListed, TmpKept,
            ServedWhileCloned, Owning
<1>1. CASE UNCHANGED vars
  BY <1>1 DEF vars
<1>2. ASSUME NEW h \in Openers, OpenLockFile(h) PROVE LockInv'
  BY <1>2 DEF OpenLockFile, InUse
<1>3. ASSUME NEW h \in Openers, TryLock(h) PROVE LockInv'
  BY <1>3 DEF TryLock, LockedByOther
<1>4. ASSUME NEW h \in Openers, WouldBlock(h) PROVE LockInv'
  BY <1>4 DEF WouldBlock, Released
<1>5. ASSUME NEW h \in Openers, ListDirectory(h) PROVE LockInv'
  BY <1>5 DEF ListDirectory, Lists
<1>6. ASSUME NEW h \in Openers, OpenLog(h) PROVE LockInv'
  BY <1>6 DEF OpenLog
<1>7. ASSUME NEW h \in Openers, OpenFails(h) PROVE LockInv'
  BY <1>7 DEF OpenFails, Released, KeepLockFile
<1>8. ASSUME NEW h \in Openers, StartFlush(h) PROVE LockInv'
  BY <1>8 DEF StartFlush
<1>9. ASSUME NEW h \in Openers, FinishFlush(h) PROVE LockInv'
  BY <1>9 DEF FinishFlush
<1>10. ASSUME NEW h \in Openers, Clone(h) PROVE LockInv'
  BY <1>10 DEF Clone
<1>11. ASSUME NEW h \in Openers, DropClone(h) PROVE LockInv'
  BY <1>11 DEF DropClone, DropOrder, LastClone
<1>12. ASSUME NEW h \in Openers, DropField(h) PROVE LockInv'
  <2>1. CASE pc[h] = "drop_wal" /\ pc' = [pc EXCEPT ![h] = "drop_lock"] /\ DropWal(h)
    BY <1>12, <2>1 DEF DropField, DropWal
  <2>2. CASE pc[h] = "drop_lock" /\ pc' = [pc EXCEPT ![h] = "closed"] /\ DropLock(h)
    BY <1>12, <2>2 DEF DropField, DropLock, Released, KeepLockFile
  <2>3. DropOrder[1] = "drop_wal" /\ DropOrder[2] = "drop_lock"
    BY DEF DropOrder
  <2>4. PICK n \in 1..2 : /\ pc[h] = DropOrder[n]
                          /\ pc' = [pc EXCEPT ![h] = IF n = 1 THEN DropOrder[2] ELSE "closed"]
                          /\ IF pc[h] = "drop_wal" THEN DropWal(h) ELSE DropLock(h)
    BY <1>12, Zenon DEF DropField
  <2>5. CASE n = 1
    BY <2>1, <2>3, <2>4, <2>5, Zenon
  <2>6. CASE n = 2
    <3>1. pc[h] = "drop_lock"
      BY <2>3, <2>4, <2>6, Zenon
    <3>2. n # 1
      BY <2>6
    <3> QED
      BY <2>2, <2>4, <3>1, <3>2
  <2> QED
    BY <2>5, <2>6
<1>13. ASSUME NEW h \in Openers, Kill(h) PROVE LockInv'
  BY <1>13 DEF Kill, Released, KeepLockFile
<1> QED
  BY <1>1, <1>2, <1>3, <1>4, <1>5, <1>6, <1>7, <1>8, <1>9, <1>10, <1>11, <1>12,
     <1>13 DEF Next

\* The invariant holds throughout.
THEOREM LockInductive == Spec => []LockInv
<1>1. Init => LockInv
  BY InitLockInv
<1>2. LockInv /\ [Next]_vars => LockInv'
  BY NextLockInv
<1> QED
  BY <1>1, <1>2, PTL DEF Spec

\* The variables keep their types, for any openers (TypeOK).
THEOREM LockTypes == Spec => []TypeOK
  BY LockInductive, PTL DEF LockInv

\* No two openers own the directory (lsm.rs:48, LsmTree::open).
THEOREM Exclusive == Spec => []OneOwner
  BY LockInductive, PTL DEF LockInv

\* The log is only open for writing under the lock (lsm.rs:38, drop order).
THEOREM LogUnderLock == Spec => []LogGuarded
<1>1. LockInv => LogGuarded
  BY DEF LockInv, OwnersLock, LogGuarded, Owning
<1> QED
  BY <1>1, LockInductive, PTL

\* A table being written is never deleted as garbage (lsm.rs:64-70).
THEOREM WorkKept == Spec => []TmpKept
  BY LockInductive, PTL DEF LockInv

\* The directory is given up when the last clone goes (engine.rs:52).
THEOREM LastCloneFrees == Spec => []ServedWhileCloned
  BY LockInductive, PTL DEF LockInv

-----------------------------------------------------------------------------
(* Sums over finite sets *)

First(s) == CHOOSE x \in s : TRUE

\* g sums f over the parts of S, the way MapThenSumSet does.
SumsOver(g, f, S) ==
  g = [s \in SUBSET S |-> IF s = {} THEN 0 ELSE f[First(s)] + g[s \ {First(s)}]]

\* Of some parts of a finite set, one has the fewest elements.
LEMMA LeastPart ==
  ASSUME NEW S, IsFiniteSet(S), NEW T, T \subseteq SUBSET S, T # {}
  PROVE  \E s \in T : \A t \in SUBSET S : Cardinality(t) < Cardinality(s) => t \notin T
<1> DEFINE C == {Cardinality(t) : t \in T}
<1>1. \A t \in SUBSET S : Cardinality(t) \in Nat
  BY FS_Subset, FS_CardinalityType
<1>2. C \subseteq Nat /\ C # {}
  BY <1>1
<1>3. PICK n \in C : \A m \in C : n <= m
  <2> HIDE DEF C
  <2> QED
    BY <1>2, LeastElement
<1>4. PICK s \in T : Cardinality(s) = n
  BY <1>3
<1>5. ASSUME NEW t \in SUBSET S, Cardinality(t) < Cardinality(s), t \in T PROVE FALSE
  <2>1. n <= Cardinality(t)
    BY <1>3, <1>5
  <2>2. Cardinality(t) \in Nat /\ n \in Nat
    BY <1>1, <1>2
  <2> QED
    BY <1>4, <1>5, <2>1, <2>2
<1> QED
  BY <1>5

\* The first of a part, and the rest, which has one element less.
LEMMA FirstAndRest ==
  ASSUME NEW S, IsFiniteSet(S), NEW s \in SUBSET S, s # {}
  PROVE  /\ First(s) \in s
         /\ \A x \in s : /\ s \ {x} \in SUBSET S
                         /\ Cardinality(s \ {x}) \in Nat /\ Cardinality(s) \in Nat
                         /\ Cardinality(s \ {x}) = Cardinality(s) - 1
                         /\ Cardinality(s \ {x}) < Cardinality(s)
<1>1. First(s) \in s
  BY DEF First
<1>2. IsFiniteSet(s) /\ Cardinality(s) \in Nat
  BY FS_Subset, FS_CardinalityType
<1>3. ASSUME NEW x \in s
      PROVE  Cardinality(s \ {x}) = Cardinality(s) - 1 /\ Cardinality(s \ {x}) \in Nat
  BY <1>2, FS_RemoveElement, FS_CardinalityType
<1> QED
  BY <1>1, <1>2, <1>3

\* A finite set has its sums.
LEMMA SumsExist ==
  ASSUME NEW S, IsFiniteSet(S), NEW f, \A x \in S : f[x] \in Int
  PROVE  \E g : SumsOver(g, f, S) /\ g \in [SUBSET S -> Int]
<1> DEFINE Right(g, s) == g[s] = IF s = {} THEN 0 ELSE f[First(s)] + g[s \ {First(s)}]
           Good(n) == \E g \in [SUBSET S -> Int] :
                        \A s \in SUBSET S : Cardinality(s) <= n => Right(g, s)
           c == Cardinality(S)
           T == {n \in 0 .. c : ~Good(n)}
<1>1. /\ c \in Nat
      /\ \A s \in SUBSET S : Cardinality(s) \in 0 .. c /\ (Cardinality(s) = 0 <=> s = {})
  <2>1. c \in Nat
    BY FS_CardinalityType
  <2>2. ASSUME NEW s \in SUBSET S
        PROVE  Cardinality(s) \in 0 .. c /\ (Cardinality(s) = 0 <=> s = {})
    <3>1. IsFiniteSet(s) /\ Cardinality(s) <= c
      BY FS_Subset
    <3>2. Cardinality(s) \in Nat /\ (Cardinality(s) = 0 <=> s = {})
      BY <3>1, FS_CardinalityType, FS_EmptySet
    <3> QED
      BY <2>1, <3>1, <3>2
  <2> QED
    BY <2>1, <2>2
<1>2. Good(0)
  <2> DEFINE zero == [s \in SUBSET S |-> 0]
  <2>1. zero \in [SUBSET S -> Int]
    OBVIOUS
  <2>2. \A s \in SUBSET S : Cardinality(s) <= 0 => Right(zero, s)
    <3>1. \A s \in SUBSET S : Cardinality(s) <= 0 => s = {}
      BY <1>1
    <3> QED
      BY <3>1
  <2> QED
    BY <2>1, <2>2
<1>3. ASSUME NEW n \in 0 .. c, n # 0, Good(n - 1) PROVE Good(n)
  <2>1. PICK g \in [SUBSET S -> Int] : \A s \in SUBSET S : Cardinality(s) <= n - 1 => Right(g, s)
    BY <1>3
  <2> DEFINE h == [s \in SUBSET S |-> IF Cardinality(s) = n
                                        THEN f[First(s)] + g[s \ {First(s)}] ELSE g[s]]
  <2>2. ASSUME NEW s \in SUBSET S, s # {}
        PROVE  /\ First(s) \in S /\ s \ {First(s)} \in SUBSET S
               /\ Cardinality(s \ {First(s)}) = Cardinality(s) - 1
               /\ Cardinality(s) \in Nat
    BY <2>2, FirstAndRest
  <2>3. ASSUME NEW s \in SUBSET S PROVE h[s] \in Int
    <3>1. CASE Cardinality(s) = n
      <4>1. s # {}
        BY <1>1, <1>3, <3>1
      <4>2. f[First(s)] \in Int /\ g[s \ {First(s)}] \in Int
        BY <2>2, <4>1
      <4>3. h[s] = f[First(s)] + g[s \ {First(s)}]
        BY <3>1
      <4> HIDE DEF h
      <4> QED
        BY <4>2, <4>3
    <3>2. CASE Cardinality(s) # n
      <4>1. h[s] = g[s]
        BY <3>2
      <4> QED
        BY <4>1
    <3> QED
      BY <3>1, <3>2
  <2>4. h \in [SUBSET S -> Int]
    BY <2>3
  <2>5. ASSUME NEW s \in SUBSET S, Cardinality(s) <= n PROVE Right(h, s)
    <3>1. Cardinality(s) \in Nat /\ n \in Nat
      BY <1>1
    <3>2. CASE s = {}
      <4>1. Cardinality(s) # n /\ Cardinality(s) <= n - 1
        BY <1>1, <1>3, <3>1, <3>2
      <4>2. h[s] = g[s]
        BY <4>1
      <4>3. g[s] = 0
        BY <2>1, <3>2, <4>1
      <4> QED
        BY <3>2, <4>2, <4>3
    <3>3. CASE s # {}
      <4> DEFINE r == s \ {First(s)}
      <4>1. r \in SUBSET S /\ Cardinality(r) = Cardinality(s) - 1
        BY <2>2, <3>3
      <4>2. Cardinality(r) # n
        BY <2>5, <3>1, <4>1
      <4>3. h[r] = g[r]
        BY <4>1, <4>2
      <4>4. CASE Cardinality(s) = n
        <5>1. h[s] = f[First(s)] + g[r]
          BY <4>4
        <5> QED
          BY <3>3, <4>3, <5>1
      <4>5. CASE Cardinality(s) # n
        <5>1. Cardinality(s) <= n - 1 /\ h[s] = g[s]
          BY <2>5, <3>1, <4>5
        <5>2. g[s] = f[First(s)] + g[r]
          BY <2>1, <3>3, <5>1
        <5> QED
          BY <3>3, <4>3, <5>1, <5>2
      <4> QED
        BY <4>4, <4>5
    <3> QED
      BY <3>2, <3>3
  <2> HIDE DEF h, Right
  <2> QED
    BY <2>4, <2>5
<1>4. T = {}
  <2> SUFFICES ASSUME T # {} PROVE FALSE
    OBVIOUS
  <2>1. PICK k \in T : \A m \in T : k <= m
    <3>1. T \subseteq Nat
      BY <1>1
    <3> HIDE DEF T
    <3> QED
      BY <3>1, LeastElement
  <2> HIDE DEF Good
  <2>2. k \in 0 .. c /\ ~Good(k) /\ \A m \in 0 .. c : ~Good(m) => k <= m
    BY <2>1
  <2> HIDE DEF T, c
  <2>3. k # 0
    BY <1>2, <2>2
  <2>4. k - 1 \in 0 .. c /\ ~(k <= k - 1)
    BY <1>1, <2>2, <2>3
  <2> QED
    BY <1>3, <2>2, <2>3, <2>4
<1>5. PICK g \in [SUBSET S -> Int] : \A s \in SUBSET S : Cardinality(s) <= c => Right(g, s)
  <2>1. c \in 0 .. c
    BY <1>1
  <2>2. Good(c)
    <3> HIDE DEF Good, c
    <3> QED
      BY <1>4, <2>1
  <2> QED
    BY <2>2
<1>6. \A s \in SUBSET S : Right(g, s)
  <2>1. \A s \in SUBSET S : Cardinality(s) <= c
    BY <1>1
  <2> HIDE DEF Right, c
  <2> QED
    BY <1>5, <2>1
<1>7. SumsOver(g, f, S)
  BY <1>6 DEF SumsOver
<1> QED
  BY <1>7

\* What sums are made of.
LEMMA SumIs ==
  ASSUME NEW S, NEW f, NEW g, SumsOver(g, f, S), NEW s \in SUBSET S
  PROVE  g[s] = IF s = {} THEN 0 ELSE f[First(s)] + g[s \ {First(s)}]
<1> DEFINE G == [t \in SUBSET S |-> IF t = {} THEN 0 ELSE f[First(t)] + g[t \ {First(t)}]]
<1>1. G[s] = IF s = {} THEN 0 ELSE f[First(s)] + g[s \ {First(s)}]
  OBVIOUS
<1>2. g = G
  BY DEF SumsOver
<1> QED
  BY <1>1, <1>2

\* Functions that agree on a set have the same sum over it.
LEMMA SumsAgree ==
  ASSUME NEW S, IsFiniteSet(S), NEW f, NEW g, SumsOver(g, f, S),
         NEW R, NEW d, NEW h, SumsOver(h, d, R),
         NEW A, A \subseteq S, A \subseteq R, \A x \in A : f[x] = d[x]
  PROVE  g[A] = h[A]
<1> DEFINE T == {s \in SUBSET A : g[s] # h[s]}
<1>0. IsFiniteSet(A)
  BY FS_Subset
<1>1. T = {}
  <2> SUFFICES ASSUME T # {} PROVE FALSE
    OBVIOUS
  <2>1. PICK s \in T : \A t \in SUBSET A : Cardinality(t) < Cardinality(s) => t \notin T
    <3>1. T \subseteq SUBSET A
      OBVIOUS
    <3> HIDE DEF T
    <3> QED
      BY <1>0, <3>1, LeastPart
  <2>2. s \in SUBSET A /\ g[s] # h[s] /\ s \in SUBSET S /\ s \in SUBSET R
    OBVIOUS
  <2> HIDE DEF T
  <2>3. /\ g[s] = IF s = {} THEN 0 ELSE f[First(s)] + g[s \ {First(s)}]
        /\ h[s] = IF s = {} THEN 0 ELSE d[First(s)] + h[s \ {First(s)}]
    <3>1. \A t \in SUBSET S : g[t] = IF t = {} THEN 0 ELSE f[First(t)] + g[t \ {First(t)}]
      BY SumIs
    <3>2. \A t \in SUBSET R : h[t] = IF t = {} THEN 0 ELSE d[First(t)] + h[t \ {First(t)}]
      BY SumIs
    <3> QED
      BY <2>2, <3>1, <3>2
  <2>4. s # {}
    BY <2>2, <2>3
  <2>5. First(s) \in s /\ s \ {First(s)} \in SUBSET A
        /\ Cardinality(s \ {First(s)}) < Cardinality(s)
    BY <1>0, <2>2, <2>4, FirstAndRest
  <2>6. g[s \ {First(s)}] = h[s \ {First(s)}]
    BY <2>1, <2>5 DEF T
  <2>7. f[First(s)] = d[First(s)]
    BY <2>2, <2>5
  <2> QED
    BY <2>2, <2>3, <2>4, <2>6, <2>7
<1> QED
  BY <1>1

Splits(g, f, A, a) == g[A] = f[a] + g[A \ {a}]

\* The sum over a set is that of any of its elements and the rest.
LEMMA SumSplits ==
  ASSUME NEW S, IsFiniteSet(S), NEW f, NEW g, SumsOver(g, f, S),
         g \in [SUBSET S -> Int], \A x \in S : f[x] \in Int
  PROVE  \A A \in SUBSET S : \A a \in A : Splits(g, f, A, a)
<1> DEFINE Fine(s) == \A x \in s : g[s] = f[x] + g[s \ {x}]
           T == {s \in SUBSET S : ~Fine(s)}
<1>1. T = {}
  <2> SUFFICES ASSUME T # {} PROVE FALSE
    OBVIOUS
  <2>1. PICK s \in T : \A t \in SUBSET S : Cardinality(t) < Cardinality(s) => t \notin T
    <3>1. T \subseteq SUBSET S
      OBVIOUS
    <3> HIDE DEF T
    <3> QED
      BY <3>1, LeastPart
  <2>2. /\ s \in SUBSET S /\ ~Fine(s)
        /\ \A t \in SUBSET S : Cardinality(t) < Cardinality(s) => Fine(t)
    <3> HIDE DEF Fine
    <3> QED
      BY <2>1
  <2>3. PICK x \in s : g[s] # f[x] + g[s \ {x}]
    BY <2>2
  <2> HIDE DEF T
  <2> DEFINE y == First(s)
  <2>4. /\ y \in s
        /\ s \ {x} \in SUBSET S /\ Cardinality(s \ {x}) < Cardinality(s)
        /\ s \ {y} \in SUBSET S /\ Cardinality(s \ {y}) < Cardinality(s)
    BY <2>2, FirstAndRest
  <2>5. g[s] = f[y] + g[s \ {y}]
    BY <2>2, SumIs
  <2> HIDE DEF y
  <2>6. x # y
    BY <2>3, <2>5
  <2>7. Fine(s \ {x}) /\ Fine(s \ {y})
    <3> HIDE DEF Fine
    <3> QED
      BY <2>2, <2>4
  <2> DEFINE r == (s \ {x}) \ {y}
  <2>8. r = (s \ {y}) \ {x} /\ y \in s \ {x} /\ x \in s \ {y} /\ r \in SUBSET S
    BY <2>2, <2>4, <2>6
  <2>9. g[s \ {x}] = f[y] + g[r] /\ g[s \ {y}] = f[x] + g[r]
    BY <2>7, <2>8
  <2>10. f[x] \in Int /\ f[y] \in Int /\ g[r] \in Int
    BY <2>2, <2>4, <2>8
  <2> HIDE DEF r
  <2> QED
    BY <2>3, <2>5, <2>9, <2>10
<1>2. \A A \in SUBSET S : Fine(A)
  <2> HIDE DEF Fine
  <2> QED
    BY <1>1
<1> QED
  BY <1>2 DEF Splits

-----------------------------------------------------------------------------
(* Readers that go from one place to the next *)

\* fr reads the item at each place and goes on with the next one, up to e.
Onward(fr, item, next, e) ==
  [p \in Nat |-> IF p >= e THEN <<>> ELSE <<item[p]>> \o fr[next[p]]]

\* There is a function that does, since the next place is always further on.
LEMMA OnwardExists ==
  ASSUME NEW item, NEW next \in [Nat -> Nat], NEW e \in Nat,
         \A p \in Nat : p < next[p]
  PROVE  \E fr : fr = Onward(fr, item, next, e)
<1> DEFINE To(g, m) == \A p \in Nat : p >= e - m =>
                         g[p] = IF p >= e THEN <<>> ELSE <<item[p]>> \o g[next[p]]
           Good(m) == \E g : g = [p \in Nat |-> g[p]] /\ To(g, m)
           T == {m \in 0 .. e : ~Good(m)}
<1>1. T = {}
  <2> SUFFICES ASSUME T # {} PROVE FALSE
    OBVIOUS
  <2>1. PICK m \in T : \A k \in T : m <= k
    <3>1. T \subseteq Nat
      OBVIOUS
    <3> HIDE DEF T
    <3> QED
      BY <3>1, LeastElement
  <2>2. m \in 0 .. e /\ ~Good(m) /\ \A k \in 0 .. e : k < m => Good(k)
    <3>1. m \in 0 .. e /\ ~Good(m) /\ \A k \in 0 .. e : ~Good(k) => m <= k
      BY <2>1
    <3> HIDE DEF T, Good
    <3> QED
      BY <3>1
  <2> HIDE DEF T
  <2>3. CASE m = 0
    <3> DEFINE none == [p \in Nat |-> <<>>]
    <3>1. none = [p \in Nat |-> none[p]]
      OBVIOUS
    <3>2. To(none, 0)
      OBVIOUS
    <3> HIDE DEF none
    <3> QED
      BY <2>2, <2>3, <3>1, <3>2
  <2>4. CASE m # 0
    <3>1. m - 1 \in 0 .. e /\ m - 1 < m /\ m \in Nat /\ e - m \in Nat /\ e - m < e
      <4> HIDE DEF Good
      <4> QED
        BY <2>2, <2>4
    <3>2. PICK g : g = [p \in Nat |-> g[p]] /\ To(g, m - 1)
      BY <2>2, <3>1
    <3> DEFINE at == e - m
               h == [p \in Nat |-> IF p = at THEN <<item[at]>> \o g[next[at]] ELSE g[p]]
    <3>3. at \in Nat /\ at < e
      BY <3>1
    <3> HIDE DEF Good
    <3>4. \A p \in Nat : p >= at => next[p] \in Nat /\ next[p] # at
      BY <3>3
    <3>5. \A p \in Nat : p >= at => h[next[p]] = g[next[p]]
      BY <3>4
    <3>6. \A p \in Nat : p >= at /\ p # at => p >= e - (m - 1)
      BY <3>1, <3>3
    <3>7. ASSUME NEW p \in Nat, p >= at
          PROVE  h[p] = IF p >= e THEN <<>> ELSE <<item[p]>> \o h[next[p]]
      <4>1. CASE p = at
        <5>1. ~(p >= e)
          BY <3>3, <4>1
        <5>2. h[p] = <<item[p]>> \o g[next[p]]
          BY <4>1
        <5> QED
          BY <3>5, <3>7, <5>1, <5>2
      <4>2. CASE p # at
        <5>1. h[p] = g[p] /\ p >= e - (m - 1)
          BY <3>6, <3>7, <4>2
        <5>2. g[p] = IF p >= e THEN <<>> ELSE <<item[p]>> \o g[next[p]]
          BY <3>2, <5>1
        <5> QED
          BY <3>5, <3>7, <5>1, <5>2
      <4> QED
        BY <4>1, <4>2
    <3>8. h = [p \in Nat |-> h[p]]
      OBVIOUS
    <3>9. To(h, m)
      BY <3>7
    <3> HIDE DEF h
    <3>10. Good(m)
      BY <3>8, <3>9 DEF Good
    <3> QED
      BY <2>2, <3>10
  <2> QED
    BY <2>3, <2>4
<1>2. e \in 0 .. e
  OBVIOUS
<1>3. PICK g : g = [p \in Nat |-> g[p]] /\ To(g, e)
  BY <1>1, <1>2
<1>4. \A p \in Nat : g[p] = IF p >= e THEN <<>> ELSE <<item[p]>> \o g[next[p]]
  <2>1. \A p \in Nat : p >= e - e
    OBVIOUS
  <2> HIDE DEF T
  <2> QED
    BY <1>3, <2>1
<1>5. g = Onward(g, item, next, e)
  BY <1>3, <1>4 DEF Onward
<1> QED
  BY <1>5

\* The items of a list are at its places, each followed by the next.
Along(at, want, item, next, e) ==
  /\ at \in [1 .. Len(want) + 1 -> Nat] /\ at[Len(want) + 1] >= e
  /\ \A i \in 1 .. Len(want) : at[i] < e /\ next[at[i]] = at[i + 1] /\ item[at[i]] = want[i]

\* It reads what there is at the places of a list, from the first on.
LEMMA OnwardReads ==
  ASSUME NEW W, NEW want \in Seq(W), NEW item, NEW next, NEW e \in Nat, NEW at, NEW fr,
         Along(at, want, item, next, e), fr = Onward(fr, item, next, e)
  PROVE  fr[at[1]] = want
<1> USE DEF Along
<1> DEFINE n == Len(want)
           T == {k \in 0 .. n : fr[at[n + 1 - k]] # SubSeq(want, n + 1 - k, n)}
<1>0. n \in Nat
  BY LenProperties
<1>1. \A p \in Nat : fr[p] = IF p >= e THEN <<>> ELSE <<item[p]>> \o fr[next[p]]
  <2>1. \A p \in Nat : Onward(fr, item, next, e)[p] =
                         IF p >= e THEN <<>> ELSE <<item[p]>> \o fr[next[p]]
    BY DEF Onward
  <2> QED
    BY <2>1
<1>2. T = {}
  <2> SUFFICES ASSUME T # {} PROVE FALSE
    OBVIOUS
  <2>1. PICK k \in T : \A m \in T : k <= m
    <3>1. T \subseteq Nat
      BY <1>0
    <3> HIDE DEF T
    <3> QED
      BY <3>1, LeastElement
  <2> DEFINE i == n + 1 - k
  <2>2. /\ k \in 0 .. n /\ fr[at[i]] # SubSeq(want, i, n)
        /\ \A m \in 0 .. n : m < k => fr[at[n + 1 - m]] = SubSeq(want, n + 1 - m, n)
    <3> DEFINE Bad(m) == fr[at[n + 1 - m]] # SubSeq(want, n + 1 - m, n)
    <3>1. k \in 0 .. n /\ Bad(k) /\ \A m \in 0 .. n : Bad(m) => k <= m
      BY <2>1
    <3> HIDE DEF T, n, Bad
    <3>2. \A m \in 0 .. n : m < k => ~Bad(m)
      BY <1>0, <3>1
    <3> QED
      BY <3>1, <3>2 DEF Bad
  <2> HIDE DEF T, n
  <2>3. CASE k = 0
    <3>1. i = n + 1 /\ at[i] \in Nat /\ at[i] >= e
      <4>1. n + 1 \in 1 .. Len(want) + 1 /\ i = n + 1
        BY <1>0, <2>3 DEF n
      <4> QED
        BY <4>1 DEF n
    <3>2. fr[at[i]] = <<>>
      BY <1>1, <3>1
    <3>3. SubSeq(want, i, n) = <<>>
      BY <1>0, <3>1, SubSeqEmpty
    <3> QED
      BY <2>2, <3>2, <3>3
  <2>4. CASE k # 0
    <3>1. /\ i \in 1 .. n /\ i + 1 = n + 1 - (k - 1)
          /\ k - 1 \in 0 .. n /\ k - 1 < k
      <4>1. k \in 1 .. n
        BY <1>0, <2>2, <2>4
      <4> QED
        BY <1>0, <4>1
    <3>2. fr[at[i + 1]] = SubSeq(want, i + 1, n)
      BY <2>2, <3>1
    <3>3. at[i] \in Nat /\ ~(at[i] >= e) /\ next[at[i]] = at[i + 1] /\ item[at[i]] = want[i]
      <4>1. i \in 1 .. Len(want) /\ i \in 1 .. Len(want) + 1
        BY <1>0, <3>1 DEF n
      <4> HIDE DEF i
      <4>2. at[i] < e /\ at[i] \in Nat
        BY <4>1
      <4> QED
        BY <4>1, <4>2
    <3>4. fr[at[i]] = <<want[i]>> \o SubSeq(want, i + 1, n)
      <4> DEFINE p == at[i]
      <4>1. p \in Nat /\ ~(p >= e) /\ fr[next[p]] = SubSeq(want, i + 1, n) /\ item[p] = want[i]
        BY <3>2, <3>3
      <4> HIDE DEF p
      <4>2. fr[p] = <<item[p]>> \o fr[next[p]]
        BY <1>1, <4>1
      <4> QED
        BY <4>1, <4>2 DEF p
    <3>5. SubSeq(want, i, n) = <<want[i]>> \o SubSeq(want, i + 1, n)
      <4>1. n \in i .. Len(want) /\ i \in 1 .. Len(want)
        BY <1>0, <3>1 DEF n
      <4> HIDE DEF i
      <4> QED
        BY <4>1, SubSeqRecursiveFirst
    <3> QED
      BY <2>2, <3>4, <3>5
  <2> QED
    BY <2>3, <2>4
<1>3. n \in 0 .. n /\ n + 1 - n = 1
  <2> HIDE DEF T, n
  <2> QED
    BY <1>0
<1>4. fr[at[1]] = SubSeq(want, 1, n)
  BY <1>2, <1>3
<1> QED
  BY <1>4, SubSeqFull

-----------------------------------------------------------------------------
(* Where sequences laid one after another stand *)

\* Up to e, f holds the sequences, the i-th of them after at[i] cells.
Stand(f, at, seqs, e) ==
  /\ at \in [1 .. Len(seqs) + 1 -> Nat] /\ at[Len(seqs) + 1] = e /\ e <= Len(f)
  /\ \A i \in 1 .. Len(seqs) :
       /\ at[i + 1] = at[i] + Len(seqs[i]) /\ at[i + 1] <= e
       /\ \A j \in 1 .. Len(seqs[i]) : f[at[i] + j] = seqs[i][j]

\* They stay when something is written behind them.
LEMMA StandOn ==
  ASSUME NEW S, NEW f \in Seq(S), NEW x \in Seq(S), NEW seqs \in Seq(Seq(S)),
         NEW at, NEW e, Stand(f, at, seqs, e)
  PROVE  Stand(f \o x, at, seqs, e)
<1>1. /\ Len(f) \in Nat /\ Len(x) \in Nat /\ Len(f \o x) = Len(f) + Len(x)
      /\ \A p \in 1 .. Len(f) : (f \o x)[p] = f[p]
  BY ConcatProperties, LenProperties
<1>2. e \in Nat /\ Len(seqs) \in Nat
  <2>1. Len(seqs) \in Nat
    BY LenProperties
  <2>2. Len(seqs) + 1 \in 1 .. Len(seqs) + 1
    BY <2>1
  <2> QED
    BY <2>1, <2>2 DEF Stand
<1>3. e <= Len(f \o x)
  BY <1>1, <1>2 DEF Stand
<1>4. ASSUME NEW i \in 1 .. Len(seqs), NEW j \in 1 .. Len(seqs[i])
      PROVE  (f \o x)[at[i] + j] = seqs[i][j]
  <2>1. seqs[i] \in Seq(S) /\ Len(seqs[i]) \in Nat
    BY ElementOfSeq, LenProperties
  <2>2. at[i] \in Nat /\ at[i] + Len(seqs[i]) <= Len(f) /\ f[at[i] + j] = seqs[i][j]
    <3>1. i \in 1 .. Len(seqs) + 1
      BY <1>2
    <3>2. at[i] \in Nat /\ at[i + 1] = at[i] + Len(seqs[i]) /\ at[i + 1] <= e /\ e <= Len(f)
      BY <3>1 DEF Stand
    <3>3. f[at[i] + j] = seqs[i][j]
      BY DEF Stand
    <3> QED
      BY <1>1, <1>2, <2>1, <3>2, <3>3
  <2>3. at[i] + j \in 1 .. Len(f)
    BY <1>1, <2>1, <2>2
  <2> QED
    BY <1>1, <2>2, <2>3
<1> HIDE DEF Stand
<1>5. /\ at \in [1 .. Len(seqs) + 1 -> Nat] /\ at[Len(seqs) + 1] = e
      /\ \A i \in 1 .. Len(seqs) : at[i + 1] = at[i] + Len(seqs[i]) /\ at[i + 1] <= e
  BY DEF Stand
<1> QED
  BY <1>3, <1>4, <1>5 DEF Stand

\* One more is written behind them.
LEMMA StandMore ==
  ASSUME NEW S, NEW f \in Seq(S), NEW x \in Seq(S), NEW seqs \in Seq(Seq(S)),
         NEW at, Stand(f, at, seqs, Len(f)),
         NEW more, more = [i \in 1 .. Len(seqs) + 2 |->
                             IF i <= Len(seqs) + 1 THEN at[i] ELSE Len(f) + Len(x)]
  PROVE  Stand(f \o x, more, Append(seqs, x), Len(f \o x))
<1> DEFINE n == Len(seqs)
           all == Append(seqs, x)
           g == f \o x
<1>1. /\ n \in Nat /\ all \in Seq(Seq(S)) /\ Len(all) = n + 1
      /\ \A i \in 1 .. n : all[i] = seqs[i]
      /\ all[n + 1] = x
  BY AppendProperties, LenProperties
<1>2. /\ Len(f) \in Nat /\ Len(x) \in Nat /\ Len(g) = Len(f) + Len(x)
      /\ \A p \in 1 .. Len(f) + Len(x) : g[p] = IF p <= Len(f) THEN f[p] ELSE x[p - Len(f)]
  BY ConcatProperties, LenProperties
<1>3. Stand(g, at, seqs, Len(f))
  BY StandOn
<1>4. /\ at \in [1 .. n + 1 -> Nat] /\ at[n + 1] = Len(f)
      /\ \A i \in 1 .. n :
           /\ at[i + 1] = at[i] + Len(seqs[i]) /\ at[i + 1] <= Len(f)
           /\ \A j \in 1 .. Len(seqs[i]) : g[at[i] + j] = seqs[i][j]
  BY <1>3 DEF Stand
<1> HIDE DEF n, all, g
<1>5. /\ more \in [1 .. n + 2 -> Nat] /\ more[n + 2] = Len(g)
      /\ \A i \in 1 .. n + 1 : more[i] = at[i]
  <2>1. more = [i \in 1 .. n + 2 |-> IF i <= n + 1 THEN at[i] ELSE Len(f) + Len(x)]
    BY DEF n
  <2>2. \A i \in 1 .. n + 2 : i <= n + 1 => i \in 1 .. n + 1
    BY <1>1
  <2>3. more \in [1 .. n + 2 -> Nat]
    BY <1>2, <1>4, <2>1, <2>2
  <2>4. /\ n + 2 \in 1 .. n + 2 /\ ~(n + 2 <= n + 1)
        /\ \A i \in 1 .. n + 1 : i \in 1 .. n + 2 /\ i <= n + 1
    BY <1>1
  <2> QED
    BY <1>2, <2>1, <2>3, <2>4
<1>6. ASSUME NEW i \in 1 .. n + 1
      PROVE  /\ more[i + 1] = more[i] + Len(all[i]) /\ more[i + 1] <= Len(g)
             /\ \A j \in 1 .. Len(all[i]) : g[more[i] + j] = all[i][j]
  <2>1. CASE i = n + 1
    <3>1. more[i] = Len(f) /\ more[i + 1] = Len(f) + Len(x) /\ all[i] = x
      <4>1. i + 1 = n + 2 /\ n + 1 \in 1 .. n + 1
        BY <1>1, <2>1
      <4> QED
        BY <1>1, <1>2, <1>4, <1>5, <2>1, <4>1
    <3>2. \A j \in 1 .. Len(x) : /\ Len(f) + j \in 1 .. Len(f) + Len(x)
                                 /\ ~(Len(f) + j <= Len(f)) /\ (Len(f) + j) - Len(f) = j
      BY <1>2
    <3>3. \A j \in 1 .. Len(x) : g[Len(f) + j] = x[j]
      BY <1>2, <3>2
    <3>4. more[i + 1] = more[i] + Len(all[i])
      BY <3>1
    <3>5. more[i + 1] <= Len(g)
      BY <1>2, <3>1
    <3>6. \A j \in 1 .. Len(all[i]) : g[more[i] + j] = all[i][j]
      BY <3>1, <3>3
    <3> QED
      BY <3>4, <3>5, <3>6
  <2>2. CASE i # n + 1
    <3>1. i \in 1 .. n /\ i + 1 \in 1 .. n + 1
      BY <1>1, <2>2
    <3>2. more[i] = at[i] /\ more[i + 1] = at[i + 1] /\ all[i] = seqs[i]
      BY <1>1, <1>5, <3>1
    <3>3. at[i + 1] <= Len(f) /\ at[i + 1] \in Nat
      BY <1>4, <3>1
    <3>4. at[i + 1] <= Len(g)
      BY <1>2, <3>3
    <3> QED
      BY <1>4, <3>1, <3>2, <3>4
  <2> QED
    BY <2>1, <2>2
<1>7. Len(all) + 1 = n + 2
  BY <1>1
<1>8. Len(g) <= Len(g)
  BY <1>2
<1>9. Stand(g, more, all, Len(g))
  BY <1>1, <1>5, <1>6, <1>7, <1>8 DEF Stand
<1> QED
  BY <1>9 DEF g, all

\* What FlattenSeq makes of them, behind f.
LEMMA StandFlat ==
  ASSUME NEW S, NEW f \in Seq(S), NEW seqs \in Seq(Seq(S))
  PROVE  \E at : /\ at[1] = Len(f)
                 /\ Stand(f \o FlattenSeq(seqs), at, seqs, Len(f \o FlattenSeq(seqs)))
<1> DEFINE some(n) == SubSeq(seqs, 1, n)
           with(n) == f \o FlattenSeq(some(n))
           Good(n) == \E at : at[1] = Len(f) /\ Stand(with(n), at, some(n), Len(with(n)))
           T == {n \in 0 .. Len(seqs) : ~Good(n)}
<1>0. Len(seqs) \in Nat /\ Len(f) \in Nat
  BY LenProperties
<1>1. ASSUME NEW n \in 0 .. Len(seqs)
      PROVE  some(n) \in Seq(Seq(S)) /\ Len(some(n)) = n
  <2>1. n \in Nat /\ \A i \in 1 .. n : seqs[i] \in Seq(S)
    BY <1>0, ElementOfSeq
  <2> DEFINE q == some(n)
  <2>2. q \in Seq(Seq(S)) /\ Len(q) = IF 1 <= n THEN n - 1 + 1 ELSE 0
    BY <2>1, SubSeqProperties
  <2> HIDE DEF q
  <2>3. Len(q) = n
    BY <2>1, <2>2
  <2> QED
    BY <2>2, <2>3 DEF q
<1>2. Good(0)
  <2> DEFINE at == [i \in 1 .. 1 |-> Len(f)]
  <2>1. some(0) = <<>> /\ FlattenSeq(<<>>) = <<>> /\ f \o <<>> = f
    BY SubSeqEmpty, ConcatEmptySeq DEF FlattenSeq
  <2>2. with(0) = f
    BY <2>1
  <2>3. at \in [1 .. 1 -> Nat] /\ at[1] = Len(f) /\ Len(<<>>) = 0 /\ Len(f) <= Len(f)
    BY <1>0
  <2>4. Stand(f, at, <<>>, Len(f))
    BY <2>3 DEF Stand
  <2> QED
    BY <2>1, <2>2, <2>3, <2>4
<1>3. ASSUME NEW n \in 0 .. Len(seqs), n # 0, Good(n - 1) PROVE Good(n)
  <2> DEFINE m == n - 1
             x == seqs[n]
             before == some(m)
             g == with(m)
  <2>1. m \in 0 .. Len(seqs) /\ n \in 1 .. Len(seqs) /\ m + 1 = n /\ m + 2 = n + 1 /\ x \in Seq(S)
    <3>1. m \in 0 .. Len(seqs) /\ n \in 1 .. Len(seqs) /\ m + 1 = n /\ m + 2 = n + 1
      BY <1>0, <1>3
    <3> QED
      BY <3>1, ElementOfSeq
  <2>2. before \in Seq(Seq(S)) /\ Len(before) = m
    BY <1>1, <2>1
  <2>3. some(n) = Append(before, x)
    <3>1. 1 \in 1 .. Len(seqs) /\ n \in 1 .. Len(seqs)
      BY <1>0, <2>1
    <3>2. SubSeq(seqs, 1, n) = SubSeq(seqs, 1, n - 1) \o <<seqs[n]>>
      BY <3>1, SubSeqRecursiveSecond
    <3> HIDE DEF before, x
    <3>3. Append(before, x) = before \o <<x>>
      BY <2>1, <2>2, AppendIsConcat
    <3> QED
      BY <3>2, <3>3 DEF before, x
  <2> HIDE DEF before, x
  <2>4. /\ FlattenSeq(before) \in Seq(S)
        /\ FlattenSeq(Append(before, x)) = FlattenSeq(before) \o x
    BY <2>1, <2>2, FlattenAppend
  <2>5. with(n) = g \o x /\ g \in Seq(S)
    <3>1. (f \o FlattenSeq(before)) \o x = f \o (FlattenSeq(before) \o x)
      <4> DEFINE laid == FlattenSeq(before)
      <4>1. laid \in Seq(S) /\ x \in Seq(S) /\ f \in Seq(S)
        BY <2>1, <2>4
      <4> HIDE DEF laid
      <4>2. (f \o laid) \o x = f \o (laid \o x)
        BY <4>1, ConcatAssociative
      <4> QED
        BY <4>2 DEF laid
    <3>2. g = f \o FlattenSeq(before) /\ with(n) = f \o FlattenSeq(some(n))
      BY DEF before
    <3> QED
      BY <2>3, <2>4, <3>1, <3>2, ConcatProperties
  <2>6. PICK at : at[1] = Len(f) /\ Stand(g, at, before, Len(g))
    BY <1>3 DEF before
  <2> DEFINE more == [i \in 1 .. Len(before) + 2 |->
                        IF i <= Len(before) + 1 THEN at[i] ELSE Len(g) + Len(x)]
  <2>7. more[1] = Len(f)
    <3>1. 1 \in 1 .. Len(before) + 2 /\ 1 <= Len(before) + 1
      BY <2>1, <2>2
    <3> QED
      BY <2>6, <3>1
  <2> HIDE DEF g
  <2>8. Stand(g \o x, more, Append(before, x), Len(g \o x))
    BY <2>1, <2>2, <2>5, <2>6, StandMore
  <2> HIDE DEF more
  <2>9. Stand(with(n), more, some(n), Len(with(n)))
    <3> HIDE DEF with, some
    <3> QED
      BY <2>3, <2>5, <2>8
  <2> QED
    BY <2>7, <2>9
<1> HIDE DEF Good
<1>4. T = {}
  <2> SUFFICES ASSUME T # {} PROVE FALSE
    OBVIOUS
  <2>1. PICK k \in T : \A m \in T : k <= m
    <3>1. T \subseteq Nat
      BY <1>0
    <3> HIDE DEF T
    <3> QED
      BY <3>1, LeastElement
  <2>2. k \in 0 .. Len(seqs) /\ ~Good(k) /\ \A m \in 0 .. Len(seqs) : ~Good(m) => k <= m
    BY <2>1
  <2> HIDE DEF T
  <2>3. k # 0
    BY <1>2, <2>2
  <2>4. k - 1 \in 0 .. Len(seqs) /\ ~(k <= k - 1)
    BY <1>0, <2>2, <2>3
  <2>5. Good(k - 1)
    BY <2>2, <2>4
  <2> QED
    BY <1>3, <2>2, <2>3, <2>5
<1>5. Good(Len(seqs))
  <2>1. Len(seqs) \in 0 .. Len(seqs)
    BY <1>0
  <2> QED
    BY <1>4, <2>1
<1>6. some(Len(seqs)) = seqs
  BY SubSeqFull
<1> QED
  BY <1>5, <1>6 DEF Good

-----------------------------------------------------------------------------
(* The size of the memtable *)

MemTypes == /\ memtable \in [ToSet(Keys) -> Values \cup {NoValue, Absent}]
            /\ size \in Int
            /\ call \in {"replay", "idle", "inserted", "flushing"}

\* The entries there are and what each counts.
Present == {k \in ToSet(Keys) : memtable[k] # Absent}
Weight == [k \in ToSet(Keys) |-> M!EntrySize(k, memtable[k])]

\* SizeExact, with a sum that can be reasoned about.
Counted == \E g \in [SUBSET Present -> Int] : SumsOver(g, Weight, Present) /\ size = g[Present]

\* The keys are finitely many.
LEMMA KeysFinite == IsFiniteSet(ToSet(Keys))
<1>1. Keys \in [1 .. Len(Keys) -> Seq(Nat)] /\ Len(Keys) \in Nat
  BY KeysAssumption, LenProperties
<1>2. ToSet(Keys) = {Keys[i] : i \in 1 .. Len(Keys)}
  BY <1>1 DEF ToSet
<1>3. /\ Keys \in [1 .. Len(Keys) -> ToSet(Keys)]
      /\ \A k \in ToSet(Keys) : \E i \in 1 .. Len(Keys) : Keys[i] = k
  <2>1. Keys = [i \in 1 .. Len(Keys) |-> Keys[i]]
    BY <1>1
  <2> QED
    BY <1>2, <2>1
<1>4. Keys \in Surjection(1 .. Len(Keys), ToSet(Keys))
  BY <1>3 DEF Surjection
<1>5. IsFiniteSet(1 .. Len(Keys))
  BY <1>1, FS_Interval
<1> QED
  BY <1>4, <1>5, FS_Surjection

\* So are the entries.
LEMMA PresentFinite == IsFiniteSet(Present)
<1>1. Present \in SUBSET ToSet(Keys)
  BY DEF Present
<1> QED
  BY <1>1, KeysFinite, FS_Subset

\* What an entry counts is its lengths.
LEMMA Weighs ==
  ASSUME NEW k \in ToSet(Keys), NEW v \in Values \cup {NoValue}
  PROVE  /\ M!EntrySize(k, v) = Len(k) + (IF v = NoValue THEN 0 ELSE Len(v))
         /\ M!EntrySize(k, v) \in Nat
<1>1. k \in Seq(Nat)
  <2>1. PICK i \in DOMAIN Keys : k = Keys[i]
    BY DEF ToSet
  <2> QED
    BY <2>1, KeysAssumption, ElementOfSeq, LenProperties
<1>2. M!EntrySize(k, v) = Len(k) + (IF v = NoValue THEN 0 ELSE Len(v))
  <2>1. v # NoValue => v \in Values
    OBVIOUS
  <2> QED
    BY <2>1 DEF M!EntrySize
<1>3. Len(k) \in Nat /\ (v # NoValue => Len(v) \in Nat)
  BY <1>1, ValuesAssumption, LenProperties
<1> QED
  BY <1>2, <1>3

\* What an entry counts is a number.
LEMMA WeightTypes == MemTypes => \A k \in Present : Weight[k] \in Int
<1> SUFFICES ASSUME MemTypes, NEW k \in Present PROVE Weight[k] \in Int
  OBVIOUS
<1>1. k \in ToSet(Keys) /\ memtable[k] \in Values \cup {NoValue}
  BY DEF MemTypes, Present
<1>2. Weight[k] = M!EntrySize(k, memtable[k])
  BY <1>1 DEF Weight
<1> QED
  BY <1>1, <1>2, Weighs

\* The sum of SizeExact, its definitions expanded.
LEMMA SizeExactIs ==
  M!SizeExact <=> size = (CHOOSE g : g = [s \in SUBSET Present |->
     IF s = {} THEN 0
     ELSE M!EntrySize(First(s), memtable[First(s)]) + g[s \ {First(s)}]])[Present]
BY DEF M!SizeExact, M!MapThenSumSet, M!MapThenFoldSet, Present, First

\* Counted says what SizeExact does.
LEMMA SizeCounted == MemTypes => (M!SizeExact <=> Counted)
<1> SUFFICES ASSUME MemTypes PROVE M!SizeExact <=> Counted
  OBVIOUS
<1> DEFINE body(g) == [s \in SUBSET Present |->
             IF s = {} THEN 0 ELSE M!EntrySize(First(s), memtable[First(s)]) + g[s \ {First(s)}]]
           c == CHOOSE g : g = body(g)
<1>1. M!SizeExact <=> size = c[Present]
  BY SizeExactIs
<1>2. ASSUME NEW g PROVE g = body(g) <=> SumsOver(g, Weight, Present)
  <2> DEFINE sums == [s \in SUBSET Present |->
                        IF s = {} THEN 0 ELSE Weight[First(s)] + g[s \ {First(s)}]]
  <2>1. ASSUME NEW s \in SUBSET Present, s # {}
        PROVE  Weight[First(s)] = M!EntrySize(First(s), memtable[First(s)])
    <3>1. First(s) \in s
      BY <2>1 DEF First
    <3>2. First(s) \in ToSet(Keys)
      BY <3>1 DEF Present
    <3> QED
      BY <3>2 DEF Weight
  <2>2. body(g) = sums
    BY <2>1
  <2>3. SumsOver(g, Weight, Present) <=> g = sums
    BY DEF SumsOver
  <2> HIDE DEF body, sums
  <2> QED
    BY <2>2, <2>3
<1>3. PICK g : SumsOver(g, Weight, Present) /\ g \in [SUBSET Present -> Int]
  BY PresentFinite, WeightTypes, SumsExist
<1>4. c = body(c)
  <2>1. g = body(g)
    BY <1>2, <1>3
  <2> HIDE DEF body
  <2> QED
    BY <2>1
<1> HIDE DEF c, body
<1>5. SumsOver(c, Weight, Present)
  BY <1>2, <1>4
<1>6. ASSUME NEW h, SumsOver(h, Weight, Present) PROVE h[Present] = c[Present]
  BY <1>5, <1>6, PresentFinite, SumsAgree
<1>7. g[Present] = c[Present]
  BY <1>3, <1>6
<1>8. M!SizeExact => Counted
  BY <1>1, <1>3, <1>7 DEF Counted
<1>9. Counted => M!SizeExact
  BY <1>1, <1>6 DEF Counted
<1> QED
  BY <1>8, <1>9

\* Adding what an entry counts, and taking off what it replaces, keeps the total.
LEMMA InsertCounts ==
  ASSUME MemTypes, Counted, NEW k \in ToSet(Keys), NEW v \in Values \cup {NoValue},
         M!Insert(k, v)
  PROVE  /\ memtable' \in [ToSet(Keys) -> Values \cup {NoValue, Absent}]
         /\ size' \in Int /\ Present' # {}
         /\ MemTypes' => Counted'
<1>1. /\ memtable' = [memtable EXCEPT ![k] = v]
      /\ size' = size + M!EntrySize(k, v) - M!Removed(k)
  BY DEF M!Insert
<1>2. memtable' \in [ToSet(Keys) -> Values \cup {NoValue, Absent}]
  BY <1>1 DEF MemTypes
<1>3. v # Absent
  BY ValuesAssumption
<1>4. Present' = Present \cup {k} /\ Present \subseteq ToSet(Keys)
  BY <1>1, <1>3 DEF Present, MemTypes
<1> DEFINE rest == Present \ {k}
<1>5. PICK g \in [SUBSET Present -> Int] : SumsOver(g, Weight, Present) /\ size = g[Present]
  BY DEF Counted
<1>6. \A j \in Present : Weight[j] \in Int
  BY WeightTypes
<1>7. M!EntrySize(k, v) \in Int
  BY Weighs
<1>8. g[Present] = M!Removed(k) + g[rest] /\ M!Removed(k) \in Int /\ g[rest] \in Int
  <2>1. rest \in SUBSET Present
    OBVIOUS
  <2>2. CASE k \in Present
    <3>1. g[Present] = Weight[k] + g[rest]
      <4>1. \A A \in SUBSET Present : \A a \in A : Splits(g, Weight, A, a)
        BY <1>5, <1>6, PresentFinite, SumSplits
      <4> QED
        BY <2>2, <4>1 DEF Splits
    <3>2. M!Removed(k) = Weight[k]
      BY <2>2 DEF M!Removed, Weight, Present
    <3> QED
      BY <1>6, <2>1, <2>2, <3>1, <3>2
  <2>3. CASE k \notin Present
    <3>1. rest = Present /\ M!Removed(k) = 0
      BY <2>3 DEF M!Removed, Present
    <3> HIDE DEF rest
    <3> QED
      BY <2>1, <3>1
  <2> QED
    BY <2>2, <2>3
<1>9. size' \in Int
  BY <1>1, <1>7, <1>8 DEF MemTypes
<1>10. ASSUME MemTypes' PROVE Counted'
  <2>1. /\ IsFiniteSet(Present') /\ k \in Present' /\ rest = Present' \ {k}
        /\ rest \in SUBSET Present' /\ rest \in SUBSET Present
    <3>1. IsFiniteSet(Present \cup {k})
      BY PresentFinite, FS_AddElement
    <3> QED
      BY <1>4, <3>1
  <2>2. Weight'[k] = M!EntrySize(k, v) /\ \A j \in rest : Weight'[j] = Weight[j]
    <3>1. Weight' = [j \in ToSet(Keys) |-> M!EntrySize(j, memtable'[j])]
      BY DEF Weight, M!EntrySize
    <3>2. \A j \in ToSet(Keys) : /\ Weight'[j] = M!EntrySize(j, memtable'[j])
                                 /\ Weight[j] = M!EntrySize(j, memtable[j])
      BY <3>1 DEF Weight
    <3>3. memtable'[k] = v /\ \A j \in rest : j \in ToSet(Keys) /\ memtable'[j] = memtable[j]
      BY <1>1, <1>4 DEF MemTypes
    <3> QED
      BY <3>2, <3>3
  <2>3. \A j \in Present' : Weight'[j] \in Int
    <3>1. \A j \in Present' : j = k \/ j \in rest
      BY <2>1
    <3>2. \A j \in rest : j \in Present
      OBVIOUS
    <3> HIDE DEF rest
    <3> QED
      BY <1>6, <1>7, <2>2, <3>1, <3>2
  <2>4. PICK h : SumsOver(h, Weight', Present') /\ h \in [SUBSET Present' -> Int]
    BY <2>1, <2>3, SumsExist
  <2>5. h[Present'] = Weight'[k] + h[rest]
    <3>1. ASSUME NEW P, P = Present', NEW w, w = Weight'
          PROVE  \A A \in SUBSET P : \A a \in A : Splits(h, w, A, a)
      BY <2>1, <2>3, <2>4, <3>1, SumSplits
    <3> HIDE DEF rest
    <3> QED
      BY <2>1, <3>1 DEF Splits
  <2>6. h[rest] = g[rest]
    <3>1. rest \subseteq Present /\ rest \subseteq Present'
      BY <2>1
    <3> HIDE DEF rest
    <3> QED
      BY <1>5, <2>1, <2>2, <2>4, <3>1, PresentFinite, SumsAgree
  <2>7. h[Present'] = size'
    <3> HIDE DEF rest
    <3> QED
      BY <1>1, <1>5, <1>7, <1>8, <2>2, <2>5, <2>6
  <2> QED
    BY <2>4, <2>7 DEF Counted
<1>11. Present' # {}
  BY <1>4
<1> QED
  BY <1>2, <1>9, <1>10, <1>11

\* An empty memtable counts nothing.
LEMMA EmptyCounts ==
  ASSUME memtable = M!Cleared, size = 0
  PROVE  /\ memtable \in [ToSet(Keys) -> Values \cup {NoValue, Absent}]
         /\ size \in Int /\ Counted
<1>1. memtable = [k \in ToSet(Keys) |-> Absent]
  BY DEF M!Cleared
<1>2. Present = {}
  BY <1>1 DEF Present
<1>3. PICK g : SumsOver(g, Weight, Present) /\ g \in [SUBSET Present -> Int]
  <2>1. \A k \in Present : Weight[k] \in Int
    BY <1>2
  <2> QED
    BY <2>1, PresentFinite, SumsExist
<1>4. g[Present] = 0
  <2>1. Present \in SUBSET Present
    OBVIOUS
  <2> QED
    BY <1>2, <1>3, <2>1, SumIs
<1>5. Counted
  BY <1>3, <1>4 DEF Counted
<1> QED
  BY <1>1, <1>5

\* What every step keeps of the memtable: a table is written while nothing else
\* is done with it, and never of an empty one.
MemInv == /\ MemTypes /\ Counted
          /\ stage # "none" <=> call = "flushing"
          /\ call = "flushing" => Present # {}

\* An empty memtable is as every step keeps it.
LEMMA StartMemInv == Start => MemInv
<1> SUFFICES ASSUME Start PROVE MemInv
  OBVIOUS
<1>1. memtable = M!Cleared /\ size = 0 /\ call = "replay" /\ stage = "none"
  BY DEF Start, NoFile, M!Init, M!Cleared
<1> QED
  BY <1>1, EmptyCounts DEF MemInv, MemTypes

\* A memtable that has been cleared counts nothing.
LEMMA Cleared ==
  (memtable = M!Cleared /\ size = 0
     => /\ memtable \in [ToSet(Keys) -> Values \cup {NoValue, Absent}]
        /\ size \in Int /\ Counted)'
<1>1. memtable = M!Cleared /\ size = 0
        => /\ memtable \in [ToSet(Keys) -> Values \cup {NoValue, Absent}]
           /\ size \in Int /\ Counted
  BY EmptyCounts
<1> QED
  BY <1>1, PTL

\* Every step keeps it so.
LEMMA NextMemInv == MemInv /\ [FlushNext]_<<writer, source>> => MemInv'
<1> SUFFICES ASSUME MemInv, [FlushNext]_<<writer, source>> PROVE MemInv'
  OBVIOUS
<1>0. /\ MemTypes /\ Counted
      /\ stage # "none" <=> call = "flushing"
      /\ call = "flushing" => Present # {}
  BY DEF MemInv
<1>1. ASSUME UNCHANGED <<memtable, size>>
      PROVE  /\ Counted' /\ Present' = Present
             /\ memtable' \in [ToSet(Keys) -> Values \cup {NoValue, Absent}] /\ size' \in Int
  <2>1. Present' = Present /\ Weight' = Weight
    BY <1>1 DEF Present, Weight, M!EntrySize
  <2> QED
    BY <1>0, <1>1, <2>1 DEF Counted, MemTypes
<1>2. CASE UNCHANGED <<writer, source>>
  <2>1. UNCHANGED <<memtable, size, call, stage>>
    BY <1>2 DEF writer, source
  <2> QED
    BY <1>0, <1>1, <2>1 DEF MemInv, MemTypes
<1>3. ASSUME NEW k \in ToSet(Keys), NEW v \in Values \cup {NoValue},
             M!Replay(k, v) \/ M!Write(k, v), UNCHANGED writer
      PROVE  MemInv'
  <2>1. M!Insert(k, v) /\ call' \in {"replay", "inserted"} /\ stage = "none" /\ stage' = stage
    BY <1>0, <1>3 DEF M!Replay, M!Write, writer
  <2> QED
    BY <1>0, <2>1, InsertCounts DEF MemInv, MemTypes
<1>4. ASSUME M!Opened \/ M!StaysBelow, UNCHANGED writer PROVE MemInv'
  <2>1. UNCHANGED <<memtable, size>> /\ call' = "idle" /\ stage = "none" /\ stage' = stage
    BY <1>0, <1>4 DEF M!Opened, M!StaysBelow, writer
  <2> QED
    BY <1>1, <2>1 DEF MemInv, MemTypes
<1>5. CASE FlushStarts
  <2>1. UNCHANGED <<memtable, size>> /\ call' = "flushing" /\ stage' = "entries" /\ Present # {}
    BY <1>5 DEF FlushStarts, M!Flushes, M!IsEmpty, Create, NewFile, Present
  <2> QED
    BY <1>1, <2>1 DEF MemInv, MemTypes
<1>6. CASE WriteTable
  <2>1. /\ UNCHANGED <<memtable, size, call>>
        /\ stage # "none" /\ stage' # "none"
    BY <1>6 DEF WriteTable, Write, WriteEntry, WriteIndex, WriteFooter, source
  <2> QED
    BY <1>0, <1>1, <2>1 DEF MemInv, MemTypes
<1>7. CASE FlushReturns
  <2>1. (memtable = M!Cleared /\ size = 0)' /\ call' = "idle" /\ stage' = "none"
    BY <1>7 DEF FlushReturns, M!FlushReturns, M!Cleared, Close, NewFile
  <2> QED
    BY <2>1, Cleared DEF MemInv, MemTypes
<1>8. CASE FlushFails
  <2>1. UNCHANGED <<memtable, size>> /\ call' = "idle" /\ stage' = "none"
    BY <1>8 DEF FlushFails, M!FlushFails, Close, NewFile
  <2> QED
    BY <1>1, <2>1 DEF MemInv, MemTypes
<1> QED
  BY <1>2, <1>3, <1>4, <1>5, <1>6, <1>7, <1>8 DEF FlushNext, Use

\* The memtable is so throughout.
THEOREM MemInductive == FlushSpec => []MemInv
  BY StartMemInv, NextMemInv, PTL DEF FlushSpec

\* The memtable's size is what its entries count, after any sequence of inserts,
\* overwrites, deletes and flushes, failed ones among them (memtable.rs:43).
THEOREM SizeKept == FlushSpec => []SizeExact
<1>1. MemInv => SizeExact
  BY SizeCounted DEF MemInv, SizeExact
<1> QED
  BY <1>1, MemInductive, PTL

\* A write that returns Ok leaves the memtable below its limit (lsm.rs:242).
THEOREM WritesStayBelow == FlushSpec => BelowLimitAfterWrite
<1>1. MemInv /\ [FlushNext]_<<writer, source>>
        => [M!CallReturns /\ MaxSize > 0 => size' < MaxSize]_<<memtable, size, call>>
  <2> SUFFICES ASSUME MemInv, [FlushNext]_<<writer, source>>, M!CallReturns, MaxSize > 0
               PROVE  size' < MaxSize
    OBVIOUS
  <2>1. call \in {"inserted", "flushing"} /\ call' = "idle" /\ ~M!FlushFails
    BY DEF M!CallReturns
  <2>2. size \in Int /\ MaxSize \in Nat
    BY MaxSizeAssumption DEF MemInv, MemTypes
  <2>3. CASE M!StaysBelow
    BY <2>2, <2>3 DEF M!StaysBelow, M!IsFull
  <2>4. CASE M!FlushReturns
    BY <2>2, <2>4 DEF M!FlushReturns
  <2>5. M!StaysBelow \/ M!FlushReturns
    <3>1. call' # call
      BY <2>1
    <3> QED
      BY <2>1, <3>1 DEF FlushNext, Use, FlushStarts, WriteTable, FlushReturns, FlushFails,
         M!Replay, M!Write, M!Opened, M!Flushes, writer, source
  <2> QED
    BY <2>3, <2>4, <2>5
<1> QED
  BY <1>1, MemInductive, PTL DEF FlushSpec, BelowLimitAfterWrite, M!BelowLimitAfterWrite, M!vars

-----------------------------------------------------------------------------
(* What is written *)

EntryCells(entry) == KeyCells(entry[1]) \o ValueCells(entry[2])
IndexCells(item) == Append(KeyCells(item[1]), item[2])

Entry == ToSet(Keys) \X (Values \cup {NoValue})
IndexItem == ToSet(Keys) \X Nat

Laid == [n \in 1 .. written |-> EntryCells(entries[n])]
Listing == [n \in 1 .. written |-> IndexCells(index[n])]

\* A key is written as its length and its bytes.
LEMMA KeyCellsAre ==
  ASSUME NEW k \in ToSet(Keys)
  PROVE  /\ k \in Seq(Nat) /\ Len(k) \in Nat
         /\ KeyCells(k) = <<Len(k)>> \o k
         /\ KeyCells(k) \in Seq(Nat) /\ Len(KeyCells(k)) = 1 + Len(k)
         /\ KeyCells(k)[1] = Len(k)
         /\ \A j \in 1 .. Len(k) : KeyCells(k)[1 + j] = k[j]
<1>1. k \in Seq(Nat)
  <2>1. PICK i \in DOMAIN Keys : k = Keys[i]
    BY DEF ToSet
  <2> QED
    BY <2>1, KeysAssumption, ElementOfSeq, LenProperties
<1>2. Len(k) \in Nat /\ Len(k) < Wrap /\ Wrap \in Nat
  BY <1>1, KeysAssumption, WrapAssumption, LenProperties
<1>3. Length(k) = Len(k)
  BY <1>2 DEF Length
<1>4. KeyCells(k) = <<Len(k)>> \o k
  BY <1>3 DEF KeyCells
<1>5. <<Len(k)>> \in Seq(Nat) /\ Len(<<Len(k)>>) = 1 /\ <<Len(k)>>[1] = Len(k)
  BY <1>2
<1> DEFINE c == <<Len(k)>> \o k
<1>6. /\ c \in Seq(Nat) /\ Len(c) = 1 + Len(k)
      /\ \A i \in 1 .. 1 + Len(k) : c[i] = IF i <= 1 THEN <<Len(k)>>[i] ELSE k[i - 1]
  BY <1>1, <1>5, ConcatProperties
<1> HIDE DEF c
<1>7. c[1] = Len(k)
  BY <1>2, <1>5, <1>6
<1>8. ASSUME NEW j \in 1 .. Len(k) PROVE c[1 + j] = k[j]
  <2>1. 1 + j \in 1 .. 1 + Len(k) /\ ~(1 + j <= 1) /\ (1 + j) - 1 = j
    BY <1>2
  <2> QED
    BY <1>6, <2>1
<1> QED
  BY <1>1, <1>2, <1>4, <1>6, <1>7, <1>8 DEF c

\* A value is written as its length, cut to 32 bits, and its bytes, a tombstone as the
\* length no value has.
LEMMA ValueCellsAre ==
  ASSUME NEW v \in Values \cup {NoValue}
  PROVE  /\ ValueCells(v) \in Seq(Nat) /\ Len(ValueCells(v)) = ValueSize(v)
         /\ ValueSize(v) \in Nat /\ ValueSize(v) >= 1
         /\ v = NoValue => ValueCells(v)[1] = TOMBSTONE
         /\ v # NoValue => /\ v \in Seq(Nat) /\ ValueCells(v)[1] = Length(v)
                           /\ \A j \in 1 .. Len(v) : ValueCells(v)[1 + j] = v[j]
<1>0. Wrap \in Nat /\ Wrap > 0
  BY WrapAssumption
<1>1. CASE v = NoValue
  <2>1. ValueCells(v) = <<TOMBSTONE>> /\ ValueSize(v) = 1 /\ TOMBSTONE \in Nat
    BY <1>0, <1>1 DEF ValueCells, ValueSize, TOMBSTONE
  <2> QED
    BY <1>1, <2>1
<1>2. CASE v # NoValue
  <2>1. v \in Seq(Nat)
    BY <1>2, ValuesAssumption
  <2>2. Len(v) \in Nat
    BY <2>1, LenProperties
  <2>3. Length(v) \in Nat
    BY <1>0, <2>2 DEF Length
  <2> DEFINE c == <<Length(v)>> \o v
  <2>4. ValueCells(v) = c /\ ValueSize(v) = 1 + Len(v)
    BY <1>2 DEF ValueCells, ValueSize
  <2>5. <<Length(v)>> \in Seq(Nat) /\ Len(<<Length(v)>>) = 1 /\ <<Length(v)>>[1] = Length(v)
    BY <2>3
  <2>6. /\ c \in Seq(Nat) /\ Len(c) = 1 + Len(v)
        /\ \A i \in 1 .. 1 + Len(v) : c[i] = IF i <= 1 THEN <<Length(v)>>[i] ELSE v[i - 1]
    BY <2>1, <2>5, ConcatProperties
  <2> HIDE DEF c
  <2>7. c[1] = Length(v)
    BY <2>2, <2>5, <2>6
  <2>8. ASSUME NEW j \in 1 .. Len(v) PROVE c[1 + j] = v[j]
    <3>1. 1 + j \in 1 .. 1 + Len(v) /\ ~(1 + j <= 1) /\ (1 + j) - 1 = j
      BY <2>2
    <3> QED
      BY <2>6, <3>1
  <2>9. ValueSize(v) \in Nat /\ ValueSize(v) >= 1
    BY <2>2, <2>4
  <2> QED
    BY <1>2, <2>1, <2>4, <2>6, <2>7, <2>8, <2>9
<1> QED
  BY <1>1, <1>2

\* An entry is as long as the writer counts.
LEMMA EntryCellsAre ==
  ASSUME NEW e \in Entry
  PROVE  /\ EntryCells(e) \in Seq(Nat)
         /\ Len(EntryCells(e)) = 1 + Len(e[1]) + ValueSize(e[2])
<1>1. e[1] \in ToSet(Keys) /\ e[2] \in Values \cup {NoValue}
  BY DEF Entry
<1>2. /\ KeyCells(e[1]) \in Seq(Nat) /\ Len(KeyCells(e[1])) = 1 + Len(e[1])
      /\ ValueCells(e[2]) \in Seq(Nat) /\ Len(ValueCells(e[2])) = ValueSize(e[2])
  BY <1>1, KeyCellsAre, ValueCellsAre
<1> DEFINE a == KeyCells(e[1])
           b == ValueCells(e[2])
<1>3. EntryCells(e) = a \o b
  BY DEF EntryCells
<1> HIDE DEF a, b
<1>4. a \in Seq(Nat) /\ b \in Seq(Nat) /\ Len(a) = 1 + Len(e[1]) /\ Len(b) = ValueSize(e[2])
  BY <1>2 DEF a, b
<1>5. a \o b \in Seq(Nat) /\ Len(a \o b) = Len(a) + Len(b)
  BY <1>4, ConcatProperties
<1> QED
  BY <1>3, <1>4, <1>5

\* An item of the index is a key as in an entry, and an offset.
LEMMA IndexCellsAre ==
  ASSUME NEW x \in IndexItem
  PROVE  /\ IndexCells(x) \in Seq(Nat)
         /\ Len(IndexCells(x)) = 2 + Len(x[1])
         /\ \A j \in 1 .. 1 + Len(x[1]) : IndexCells(x)[j] = KeyCells(x[1])[j]
         /\ IndexCells(x)[2 + Len(x[1])] = x[2]
<1>1. x[1] \in ToSet(Keys) /\ x[2] \in Nat
  BY DEF IndexItem
<1>2. KeyCells(x[1]) \in Seq(Nat) /\ Len(KeyCells(x[1])) = 1 + Len(x[1]) /\ Len(x[1]) \in Nat
  BY <1>1, KeyCellsAre
<1> DEFINE c == KeyCells(x[1])
<1>3. /\ Append(c, x[2]) \in Seq(Nat) /\ Len(Append(c, x[2])) = Len(c) + 1
      /\ \A j \in 1 .. Len(c) : Append(c, x[2])[j] = c[j]
      /\ Append(c, x[2])[Len(c) + 1] = x[2]
  <2> HIDE DEF c
  <2>1. c \in Seq(Nat)
    BY <1>2 DEF c
  <2> QED
    BY <1>1, <2>1, AppendProperties
<1>4. Len(c) + 1 = 2 + Len(x[1]) /\ Len(c) = 1 + Len(x[1])
  BY <1>2
<1> QED
  BY <1>3, <1>4 DEF IndexCells

\* The order that write_sorted asks for, of entries and so of an index.
Ascend(list) == \A m, n \in DOMAIN list : m < n => Precedes(list[m][1], list[n][1])

\* The entries of a memtable, in key order, each with what the memtable says.
LEMMA SortedIs ==
  MemTypes => /\ Sorted \in Seq(Entry) /\ Ascend(Sorted)
              /\ \A n \in 1 .. Len(Sorted) : Sorted[n][2] = memtable[Sorted[n][1]]
              /\ \A k \in ToSet(Keys) : memtable[k] # Absent
                   => \E n \in 1 .. Len(Sorted) : Sorted[n][1] = k
<1> SUFFICES ASSUME MemTypes
             PROVE  /\ Sorted \in Seq(Entry) /\ Ascend(Sorted)
                    /\ \A n \in 1 .. Len(Sorted) : Sorted[n][2] = memtable[Sorted[n][1]]
                    /\ \A k \in ToSet(Keys) : memtable[k] # Absent
                         => \E n \in 1 .. Len(Sorted) : Sorted[n][1] = k
  OBVIOUS
<1> DEFINE K == {i \in DOMAIN Keys : Listed(Keys[i])}
           q == Ordered(K)
           c == Cardinality(K)
<1>1. DOMAIN Keys = 1 .. Len(Keys) /\ Len(Keys) \in Nat
  BY KeysAssumption, LenProperties
<1>2. K \in SUBSET Nat /\ IsFiniteSet(K)
  <2>1. IsFiniteSet(1 .. Len(Keys)) /\ K \in SUBSET (1 .. Len(Keys))
    BY <1>1, FS_Interval
  <2> QED
    BY <2>1, FS_Subset
<1>3. /\ c \in Nat /\ q \in [1 .. c -> K] /\ \A x \in K : \E i \in 1 .. c : q[i] = x
      /\ \A i, j \in 1 .. c : i < j => q[i] < q[j]
  <2> HIDE DEF K
  <2> QED
    BY <1>2, AscendingList
<1>4. ASSUME NEW i \in K
      PROVE  Keys[i] \in ToSet(Keys) /\ memtable[Keys[i]] \in Values \cup {NoValue}
  <2>1. Keys[i] \in ToSet(Keys) /\ memtable[Keys[i]] # Absent
    BY DEF ToSet, Listed
  <2> QED
    BY <2>1 DEF MemTypes
<1>5. Sorted = [n \in 1 .. c |-> <<Keys[q[n]], memtable[Keys[q[n]]]>>]
  <2>1. DOMAIN q = 1 .. c
    <3> HIDE DEF q, c
    <3> QED
      BY <1>3
  <2> QED
    BY <2>1 DEF Sorted
<1> HIDE DEF q, c
<1>6. \A n \in 1 .. c : q[n] \in K
  BY <1>3
<1>7. Sorted \in [1 .. c -> Entry]
  <2>1. \A n \in 1 .. c : <<Keys[q[n]], memtable[Keys[q[n]]]>> \in Entry
    <3> HIDE DEF K
    <3> QED
      BY <1>4, <1>6 DEF Entry
  <2> QED
    BY <1>5, <2>1
<1>8. Sorted \in Seq(Entry) /\ Len(Sorted) = c
  BY <1>3, <1>7, IsSequence
<1>9. \A n \in 1 .. c : Sorted[n] = <<Keys[q[n]], memtable[Keys[q[n]]]>>
  BY <1>5
<1>10. ASSUME NEW k \in ToSet(Keys), memtable[k] # Absent
       PROVE  \E n \in 1 .. c : Sorted[n][1] = k
  <2>1. PICK i \in DOMAIN Keys : k = Keys[i]
    BY DEF ToSet
  <2>2. i \in K
    BY <1>10, <2>1 DEF Listed
  <2>3. PICK n \in 1 .. c : q[n] = i
    BY <1>3, <2>2
  <2> QED
    BY <1>9, <2>1, <2>3
<1>11. Ascend(Sorted)
  <2> SUFFICES ASSUME NEW m \in 1 .. c, NEW n \in 1 .. c, m < n
               PROVE  Precedes(Sorted[m][1], Sorted[n][1])
    BY <1>7 DEF Ascend
  <2>1. q[m] \in DOMAIN Keys /\ q[n] \in DOMAIN Keys /\ q[m] < q[n]
    BY <1>3, <1>6
  <2>2. Precedes(Keys[q[m]], Keys[q[n]])
    BY <2>1, KeysAssumption
  <2> QED
    BY <1>9, <2>2
<1> QED
  BY <1>8, <1>9, <1>10, <1>11

-----------------------------------------------------------------------------
(* How a table file comes about *)

FileTypes ==
  /\ entries \in Seq(Entry) /\ written \in 0 .. Len(entries)
  /\ index \in Seq(IndexItem) /\ Len(index) = written
  /\ file \in Seq(Nat) /\ offset \in Nat
  /\ stage \in {"none", "entries", "footer", "done"}

\* The file begins with the entries written, each where the index says.
EntriesLaid ==
  /\ \A n \in 1 .. written : index[n][1] = entries[n][1]
  /\ \E at : /\ at[1] = 0 /\ \A n \in 1 .. written : at[n] = index[n][2]
             /\ Stand(file, at, Laid, offset)
  /\ stage \in {"none", "entries"} => Len(file) = offset

\* Then comes the index, of all the entries, and last where it begins.
IndexEnd == IF stage = "done" THEN Len(file) - 1 ELSE Len(file)
IndexLaid ==
  /\ stage \in {"footer", "done"} =>
       /\ written = Len(entries)
       /\ \E at : at[1] = offset /\ Stand(file, at, Listing, IndexEnd)
  /\ stage = "done" => Len(file) > 0 /\ file[Len(file)] = offset

\* What is written is what the memtable holds.
OfTheMemtable == stage # "none" => entries = Sorted

FileLaid == FileTypes /\ EntriesLaid /\ IndexLaid
FileInv == FileLaid /\ OfTheMemtable

\* What is laid down is as many sequences as entries were written,
LEMMA LaidIs ==
  FileTypes => Laid \in Seq(Seq(Nat)) /\ Len(Laid) = written
<1> SUFFICES ASSUME FileTypes PROVE Laid \in Seq(Seq(Nat)) /\ Len(Laid) = written
  OBVIOUS
<1>1. written \in Nat /\ \A n \in 1 .. written : entries[n] \in Entry
  <2>1. written \in Nat /\ Len(entries) \in Nat /\ \A n \in 1 .. written : n \in 1 .. Len(entries)
    BY LenProperties DEF FileTypes
  <2> QED
    BY <2>1, ElementOfSeq DEF FileTypes
<1>2. Laid \in [1 .. written -> Seq(Nat)]
  BY <1>1, EntryCellsAre DEF Laid
<1> QED
  BY <1>1, <1>2, IsSequence

\* and so is what the index will be.
LEMMA ListingIs ==
  FileTypes => Listing \in Seq(Seq(Nat)) /\ Len(Listing) = written
<1> SUFFICES ASSUME FileTypes PROVE Listing \in Seq(Seq(Nat)) /\ Len(Listing) = written
  OBVIOUS
<1>1. written \in Nat /\ \A n \in 1 .. written : index[n] \in IndexItem
  BY ElementOfSeq, LenProperties DEF FileTypes
<1>2. Listing \in [1 .. written -> Seq(Nat)]
  BY <1>1, IndexCellsAre DEF Listing
<1> QED
  BY <1>1, <1>2, IsSequence

\* A file that has just been begun.
LEMMA BegunFile ==
  ASSUME entries \in Seq(Entry), stage \in {"none", "entries"},
         written = 0, file = <<>>, index = <<>>, offset = 0
  PROVE  FileTypes /\ EntriesLaid /\ IndexLaid
<1>1. /\ Len(entries) \in Nat /\ <<>> \in Seq(IndexItem) /\ <<>> \in Seq(Nat) /\ Len(<<>>) = 0
  BY LenProperties
<1>2. FileTypes
  BY <1>1 DEF FileTypes
<1> DEFINE at == [i \in 1 .. 1 |-> 0]
<1>3. Laid \in Seq(Seq(Nat)) /\ Len(Laid) = 0
  BY <1>2, LaidIs
<1>4. at \in [1 .. 1 -> Nat] /\ at[1] = 0
  OBVIOUS
<1>5. Stand(file, at, Laid, offset)
  <2> HIDE DEF at
  <2> QED
    BY <1>1, <1>3, <1>4 DEF Stand
<1>6. EntriesLaid
  <2> HIDE DEF at
  <2> QED
    BY <1>1, <1>4, <1>5 DEF EntriesLaid
<1> QED
  BY <1>2, <1>6 DEF IndexLaid

-----------------------------------------------------------------------------
(* Each step of the writer *)

\* One more entry stands at the end, and the index says where.
LEMMA EntryWritten ==
  ASSUME FileTypes, EntriesLaid, IndexLaid, WriteEntry
  PROVE  FileTypes' /\ EntriesLaid' /\ IndexLaid'
<1> DEFINE n == written
           e == entries[n + 1]
           x == EntryCells(e)
           item == <<e[1], offset>>
<1>1. /\ stage = "entries" /\ n < Len(entries) /\ stage' = stage /\ entries' = entries
      /\ index' = Append(index, item)
      /\ file' = file \o KeyCells(e[1]) \o ValueCells(e[2])
      /\ offset' = offset + 1 + Len(e[1]) + ValueSize(e[2])
      /\ written' = n + 1
  BY DEF WriteEntry
<1>2. /\ n \in Nat /\ Len(entries) \in Nat
      /\ n + 1 \in 1 .. Len(entries) /\ n + 1 \in 0 .. Len(entries)
      /\ index \in Seq(IndexItem) /\ Len(index) = n /\ file \in Seq(Nat) /\ offset \in Nat
      /\ entries \in Seq(Entry) /\ Len(file) = offset
  <2>1. Len(entries) \in Nat
    BY LenProperties DEF FileTypes
  <2> QED
    BY <1>1, <2>1 DEF FileTypes, EntriesLaid
<1>3. e \in Entry
  BY <1>2, ElementOfSeq
<1> HIDE DEF e
<1>4. /\ e[1] \in ToSet(Keys) /\ e[2] \in Values \cup {NoValue} /\ item \in IndexItem
      /\ item[1] = e[1] /\ item[2] = offset
  BY <1>2, <1>3 DEF Entry, IndexItem
<1> HIDE DEF item
<1>5. x \in Seq(Nat) /\ Len(x) = 1 + Len(e[1]) + ValueSize(e[2]) /\ Len(x) \in Nat
  BY <1>3, EntryCellsAre, LenProperties
<1>6. file' = file \o x
  <2>1. KeyCells(e[1]) \in Seq(Nat) /\ ValueCells(e[2]) \in Seq(Nat)
    BY <1>4, KeyCellsAre, ValueCellsAre
  <2> DEFINE a == KeyCells(e[1])
             b == ValueCells(e[2])
  <2>2. x = a \o b /\ file' = file \o a \o b /\ a \in Seq(Nat) /\ b \in Seq(Nat)
    BY <1>1, <2>1 DEF EntryCells
  <2> HIDE DEF a, b, x
  <2>3. (file \o a) \o b = file \o (a \o b)
    <3>1. \A f \in Seq(Nat) : (f \o a) \o b = f \o (a \o b)
      BY <2>2, ConcatAssociative
    <3> QED
      BY <1>2, <3>1
  <2> QED
    BY <2>2, <2>3
<1> HIDE DEF x
<1>7. file' \in Seq(Nat) /\ Len(file') = Len(file) + Len(x)
  BY <1>2, <1>5, <1>6, ConcatProperties
<1>8. offset' = Len(file') /\ offset' \in Nat
  <2>1. e[1] \in Seq(Nat) /\ Len(e[1]) \in Nat /\ ValueSize(e[2]) \in Nat
    BY <1>4, KeyCellsAre, ValueCellsAre
  <2> DEFINE l == Len(e[1])
             v == ValueSize(e[2])
  <2>2. l \in Nat /\ v \in Nat /\ offset \in Nat /\ offset' = offset + 1 + l + v
    BY <1>1, <1>2, <2>1
  <2>3. Len(file') = offset + (1 + l + v)
    BY <1>2, <1>5, <1>7
  <2> HIDE DEF l, v
  <2> QED
    BY <2>2, <2>3
<1>9. /\ index' \in Seq(IndexItem) /\ Len(index') = n + 1
      /\ \A i \in 1 .. n : index'[i] = index[i]
      /\ index'[n + 1] = item
  <2>1. index \in Seq(IndexItem) /\ item \in IndexItem /\ Len(index) = n
    BY <1>2, <1>4
  <2>2. /\ Append(index, item) \in Seq(IndexItem)
        /\ Len(Append(index, item)) = Len(index) + 1
        /\ \A i \in 1 .. Len(index) : Append(index, item)[i] = index[i]
        /\ Append(index, item)[Len(index) + 1] = item
    BY <2>1, AppendProperties
  <2>3. index' = Append(index, item)
    BY <1>1
  <2> HIDE DEF n
  <2> QED
    BY <2>1, <2>2, <2>3
<1>10. FileTypes'
  <2>1. /\ entries' \in Seq(Entry) /\ written' \in 0 .. Len(entries')
        /\ stage' \in {"none", "entries", "footer", "done"}
    BY <1>1, <1>2
  <2>2. index' \in Seq(IndexItem) /\ Len(index') = written'
    BY <1>1, <1>9
  <2>3. FileTypes' <=> /\ entries' \in Seq(Entry) /\ written' \in 0 .. Len(entries')
                       /\ index' \in Seq(IndexItem) /\ Len(index') = written'
                       /\ file' \in Seq(Nat) /\ offset' \in Nat
                       /\ stage' \in {"none", "entries", "footer", "done"}
    BY DEF FileTypes, IndexItem, Entry
  <2> QED
    BY <1>7, <1>8, <2>1, <2>2, <2>3, Zenon
<1>11. Laid \in Seq(Seq(Nat)) /\ Len(Laid) = n
  BY LaidIs
<1>12. Laid' = Append(Laid, x)
  <2>1. Laid' = [m \in 1 .. n + 1 |-> EntryCells(entries[m])]
    BY <1>1 DEF Laid, EntryCells, KeyCells, ValueCells, Length, TOMBSTONE
  <2>2. /\ Append(Laid, x) \in Seq(Seq(Nat)) /\ Len(Append(Laid, x)) = n + 1
        /\ \A m \in 1 .. n : Append(Laid, x)[m] = Laid[m]
        /\ Append(Laid, x)[n + 1] = x
    BY <1>5, <1>11, AppendProperties
  <2>3. \A m \in 1 .. n : Laid[m] = EntryCells(entries[m])
    BY DEF Laid
  <2>4. EntryCells(entries[n + 1]) = x
    BY DEF x, e
  <2> DEFINE p == Append(Laid, x)
  <2>5. p \in [1 .. n + 1 -> Seq(Nat)]
    <3>1. p \in Seq(Seq(Nat)) /\ Len(p) = n + 1
      BY <2>2
    <3> HIDE DEF p
    <3> QED
      BY <3>1, LenProperties
  <2>6. \A m \in 1 .. n + 1 : p[m] = EntryCells(entries[m])
    <3>1. \A m \in 1 .. n + 1 : m \in 1 .. n \/ m = n + 1
      BY <1>2
    <3>2. \A m \in 1 .. n : p[m] = EntryCells(entries[m])
      BY <2>2, <2>3
    <3>3. p[n + 1] = EntryCells(entries[n + 1])
      BY <2>2, <2>4
    <3> HIDE DEF p
    <3> QED
      BY <3>1, <3>2, <3>3
  <2> HIDE DEF p
  <2>7. p = [m \in 1 .. n + 1 |-> EntryCells(entries[m])]
    BY <2>5, <2>6
  <2> QED
    BY <2>1, <2>7 DEF p
<1>13. PICK at : /\ at[1] = 0 /\ \A i \in 1 .. n : at[i] = index[i][2]
                 /\ Stand(file, at, Laid, offset)
  BY DEF EntriesLaid
<1> DEFINE more == [i \in 1 .. Len(Laid) + 2 |->
                      IF i <= Len(Laid) + 1 THEN at[i] ELSE Len(file) + Len(x)]
<1>14. Stand(file \o x, more, Append(Laid, x), Len(file \o x))
  BY <1>2, <1>5, <1>11, <1>13, StandMore
<1>15. \A i \in 1 .. n + 1 : more[i] = at[i]
  <2>1. \A i \in 1 .. n + 1 : i \in 1 .. n + 2 /\ i <= n + 1
    BY <1>2
  <2> QED
    BY <1>11, <2>1
<1> HIDE DEF more
<1>16. Stand(file', more, Laid', offset')
  BY <1>6, <1>8, <1>12, <1>14
<1>17. at[n + 1] = offset
  BY <1>11, <1>13 DEF Stand
<1>18. \A i \in 1 .. n + 1 : more[i] = index'[i][2]
  <2>1. \A i \in 1 .. n : more[i] = index'[i][2]
    <3>1. \A i \in 1 .. n : i \in 1 .. n + 1
      BY <1>2
    <3> QED
      BY <1>9, <1>13, <1>15, <3>1
  <2>2. more[n + 1] = index'[n + 1][2]
    <3>1. n + 1 \in 1 .. n + 1
      BY <1>2
    <3> QED
      BY <1>4, <1>9, <1>15, <1>17, <3>1
  <2> QED
    BY <1>2, <2>1, <2>2
<1>19. more[1] = 0
  <2>1. 1 \in 1 .. n + 1
    BY <1>2
  <2> QED
    BY <1>13, <1>15, <2>1
<1>20. \A i \in 1 .. n + 1 : index'[i][1] = entries'[i][1]
  <2>1. \A i \in 1 .. n : index'[i][1] = entries'[i][1]
    BY <1>1, <1>9 DEF EntriesLaid
  <2>2. index'[n + 1][1] = entries'[n + 1][1]
    BY <1>1, <1>4, <1>9 DEF e
  <2>3. \A i \in 1 .. n + 1 : i \in 1 .. n \/ i = n + 1
    BY <1>2
  <2> QED
    BY <2>1, <2>2, <2>3
<1>21. EntriesLaid'
  <2>1. written' = n + 1
    BY <1>1
  <2> QED
    BY <1>8, <1>16, <1>18, <1>19, <1>20, <2>1 DEF EntriesLaid
<1>22. IndexLaid'
  BY <1>1 DEF IndexLaid
<1> QED
  BY <1>10, <1>21, <1>22

\* The index stands behind the entries.
LEMMA IndexWritten ==
  ASSUME FileTypes, EntriesLaid, IndexLaid, WriteIndex
  PROVE  FileTypes' /\ EntriesLaid' /\ IndexLaid'
<1> DEFINE x == FlattenSeq(Listing)
<1>1. /\ stage = "entries" /\ stage' = "footer" /\ written = Len(entries)
      /\ UNCHANGED <<entries, written, index, offset>>
      /\ file' = file \o FlattenSeq([n \in DOMAIN index |->
                                       Append(KeyCells(index[n][1]), index[n][2])])
  BY DEF WriteIndex
<1>2. /\ Listing \in Seq(Seq(Nat)) /\ file \in Seq(Nat) /\ Len(file) = offset
      /\ Laid \in Seq(Seq(Nat))
  BY <1>1, LaidIs, ListingIs DEF FileTypes, EntriesLaid
<1>3. file' = file \o x
  <2>1. DOMAIN index = 1 .. written
    BY LenProperties DEF FileTypes
  <2> QED
    BY <1>1, <2>1 DEF Listing, IndexCells
<1>4. x \in Seq(Nat)
  <2>1. <<>> \in Seq(Nat) /\ Listing \in Seq(Seq(Nat))
    BY <1>2
  <2> QED
    BY <2>1, FlattenAppend
<1>5. PICK at : at[1] = Len(file) /\ Stand(file \o x, at, Listing, Len(file \o x))
  BY <1>2, StandFlat
<1> HIDE DEF x
<1>6. file' \in Seq(Nat)
  BY <1>2, <1>3, <1>4, ConcatProperties
<1>7. FileTypes'
  BY <1>1, <1>6 DEF FileTypes
<1>8. Laid' = Laid /\ Listing' = Listing
  BY <1>1 DEF Laid, Listing, EntryCells, IndexCells, KeyCells, ValueCells, Length, TOMBSTONE
<1>9. PICK where : /\ where[1] = 0 /\ \A n \in 1 .. written : where[n] = index[n][2]
                   /\ Stand(file, where, Laid, offset)
  BY DEF EntriesLaid
<1>10. Stand(file \o x, where, Laid, offset)
  BY <1>2, <1>4, <1>9, StandOn
<1>11. EntriesLaid'
  <2>1. /\ \A n \in 1 .. written' : index'[n][1] = entries'[n][1]
        /\ \A n \in 1 .. written' : where[n] = index'[n][2]
        /\ stage' \notin {"none", "entries"}
    BY <1>1, <1>9 DEF EntriesLaid
  <2>2. Stand(file', where, Laid', offset')
    BY <1>1, <1>3, <1>8, <1>10
  <2> QED
    BY <1>9, <2>1, <2>2 DEF EntriesLaid
<1>12. IndexLaid'
  <2>1. IndexEnd' = Len(file') /\ stage' # "done" /\ written' = Len(entries')
    BY <1>1 DEF IndexEnd
  <2>2. at[1] = offset' /\ Stand(file', at, Listing', IndexEnd')
    BY <1>1, <1>2, <1>3, <1>5, <1>8, <2>1
  <2> QED
    BY <2>1, <2>2 DEF IndexLaid
<1> QED
  BY <1>7, <1>11, <1>12

\* The footer is the last cell and says where the index begins.
LEMMA FooterWritten ==
  ASSUME FileTypes, EntriesLaid, IndexLaid, WriteFooter
  PROVE  FileTypes' /\ EntriesLaid' /\ IndexLaid'
<1> DEFINE x == <<offset>>
<1>1. /\ stage = "footer" /\ stage' = "done" /\ file' = Append(file, offset)
      /\ UNCHANGED <<entries, written, index, offset>>
  BY DEF WriteFooter
<1>2. /\ Listing \in Seq(Seq(Nat)) /\ Laid \in Seq(Seq(Nat))
      /\ file \in Seq(Nat) /\ offset \in Nat /\ Len(file) \in Nat
  BY LaidIs, ListingIs, LenProperties DEF FileTypes
<1>3. file' = file \o x /\ x \in Seq(Nat)
  BY <1>1, <1>2, AppendIsConcat
<1>4. file' \in Seq(Nat) /\ Len(file') = Len(file) + 1 /\ file'[Len(file) + 1] = offset
  BY <1>1, <1>2, AppendProperties
<1> HIDE DEF x
<1>5. FileTypes'
  BY <1>1, <1>4 DEF FileTypes
<1>6. Laid' = Laid /\ Listing' = Listing
  BY <1>1 DEF Laid, Listing, EntryCells, IndexCells, KeyCells, ValueCells, Length, TOMBSTONE
<1>7. PICK where : /\ where[1] = 0 /\ \A n \in 1 .. written : where[n] = index[n][2]
                   /\ Stand(file, where, Laid, offset)
  BY DEF EntriesLaid
<1>8. PICK at : at[1] = offset /\ Stand(file, at, Listing, Len(file))
  <2>1. IndexEnd = Len(file)
    BY <1>1 DEF IndexEnd
  <2> QED
    BY <1>1, <2>1 DEF IndexLaid
<1>9. Stand(file \o x, where, Laid, offset)
  BY <1>2, <1>3, <1>7, StandOn
<1>10. Stand(file \o x, at, Listing, Len(file))
  BY <1>2, <1>3, <1>8, StandOn
<1>11. EntriesLaid'
  <2>1. /\ \A n \in 1 .. written' : index'[n][1] = entries'[n][1]
        /\ \A n \in 1 .. written' : where[n] = index'[n][2]
        /\ stage' \notin {"none", "entries"}
    BY <1>1, <1>7 DEF EntriesLaid
  <2>2. Stand(file', where, Laid', offset')
    BY <1>1, <1>3, <1>6, <1>9
  <2> QED
    BY <1>7, <2>1, <2>2 DEF EntriesLaid
<1>12. IndexLaid'
  <2>1. IndexEnd' = Len(file) /\ written' = Len(entries')
    <3>1. IndexEnd' = Len(file') - 1
      BY <1>1 DEF IndexEnd
    <3> QED
      BY <1>1, <1>2, <1>4, <3>1 DEF IndexLaid
  <2>2. at[1] = offset' /\ Stand(file', at, Listing', IndexEnd')
    BY <1>1, <1>3, <1>6, <1>8, <1>10, <2>1
  <2>3. Len(file') > 0 /\ file'[Len(file')] = offset'
    BY <1>1, <1>2, <1>4
  <2> QED
    BY <2>1, <2>2, <2>3 DEF IndexLaid
<1> QED
  BY <1>5, <1>11, <1>12

-----------------------------------------------------------------------------
(* Every step of TableFlush *)

\* A file is begun empty.
LEMMA Begun ==
  (entries \in Seq(Entry) /\ stage \in {"none", "entries"} /\ written = 0 /\ file = <<>>
     /\ index = <<>> /\ offset = 0 => FileTypes /\ EntriesLaid /\ IndexLaid)'
<1>1. entries \in Seq(Entry) /\ stage \in {"none", "entries"} /\ written = 0 /\ file = <<>>
        /\ index = <<>> /\ offset = 0 => FileTypes /\ EntriesLaid /\ IndexLaid
  BY BegunFile
<1> QED
  BY <1>1, PTL

\* There is no file at first,
LEMMA StartFileInv == Start => FileInv
<1> SUFFICES ASSUME Start PROVE FileInv
  OBVIOUS
<1>1. /\ entries = <<>> /\ stage = "none"
      /\ written = 0 /\ file = <<>> /\ index = <<>> /\ offset = 0
      /\ <<>> \in Seq(Entry)
  BY DEF Start, NoFile
<1> QED
  BY <1>1, BegunFile DEF FileInv, FileLaid, OfTheMemtable

\* a step of the writer leaves it laid out,
LEMMA WriterKeepsLaid ==
  ASSUME FileLaid, UNCHANGED writer \/ Write
  PROVE  FileLaid'
<1>0. FileTypes /\ EntriesLaid /\ IndexLaid
  BY DEF FileLaid
<1>1. ASSUME UNCHANGED writer PROVE FileTypes' /\ EntriesLaid' /\ IndexLaid'
  <2>1. UNCHANGED <<entries, written, file, index, offset, stage>>
    BY <1>1 DEF writer
  <2>2. Laid' = Laid /\ Listing' = Listing /\ IndexEnd' = IndexEnd
    BY <2>1 DEF Laid, Listing, IndexEnd, EntryCells, IndexCells, KeyCells, ValueCells, Length,
                TOMBSTONE
  <2>3. FileTypes'
    BY <1>0, <2>1 DEF FileTypes
  <2>4. EntriesLaid'
    BY <1>0, <2>1, <2>2 DEF EntriesLaid
  <2>5. IndexLaid'
    BY <1>0, <2>1, <2>2 DEF IndexLaid
  <2> QED
    BY <2>3, <2>4, <2>5
<1>2. ASSUME Write PROVE FileTypes' /\ EntriesLaid' /\ IndexLaid'
  BY <1>0, <1>2, EntryWritten, IndexWritten, FooterWritten DEF Write
<1> QED
  BY <1>1, <1>2 DEF FileLaid

\* and so do beginning a file and giving one up.
LEMMA BegunLaid ==
  ASSUME entries' \in Seq(Entry), NewFile("entries") \/ NewFile("none")
  PROVE  FileLaid'
<1>1. (entries \in Seq(Entry) /\ stage \in {"none", "entries"} /\ written = 0 /\ file = <<>>
         /\ index = <<>> /\ offset = 0)'
  BY DEF NewFile, Entry
<1> QED
  BY <1>1, Begun DEF FileLaid

\* Each step leaves it as FileInv says.
LEMMA NextFileInv ==
  ASSUME MemInv, FileInv, [FlushNext]_<<writer, source>>
  PROVE  FileInv'
<1>0. FileLaid /\ OfTheMemtable
  BY DEF FileInv
<1>2. ASSUME UNCHANGED memtable PROVE Sorted' = Sorted
  BY <1>2 DEF Sorted, Listed
<1>3. CASE UNCHANGED <<writer, source>>
  <2>1. UNCHANGED writer /\ UNCHANGED memtable /\ UNCHANGED <<entries, stage>>
    BY <1>3 DEF writer, source
  <2>2. OfTheMemtable'
    BY <1>0, <1>2, <2>1 DEF OfTheMemtable
  <2> QED
    BY <1>0, <2>1, <2>2, WriterKeepsLaid DEF FileInv
<1>4. CASE Use
  <2>1. UNCHANGED writer /\ stage' = stage /\ stage = "none"
    BY <1>4 DEF Use, M!Replay, M!Write, M!Opened, M!StaysBelow, MemInv, writer
  <2>2. OfTheMemtable'
    BY <2>1 DEF OfTheMemtable
  <2> QED
    BY <1>0, <2>1, <2>2, WriterKeepsLaid DEF FileInv
<1>5. CASE FlushStarts
  <2>1. entries' = Sorted /\ NewFile("entries") /\ UNCHANGED memtable
    BY <1>5 DEF FlushStarts, Create, M!Flushes
  <2>2. entries' \in Seq(Entry)
    BY <2>1, SortedIs DEF MemInv
  <2>3. OfTheMemtable'
    BY <1>2, <2>1 DEF OfTheMemtable
  <2> QED
    BY <2>1, <2>2, <2>3, BegunLaid DEF FileInv
<1>6. CASE WriteTable
  <2>1. UNCHANGED <<entries, memtable>> /\ stage # "none"
    BY <1>6 DEF WriteTable, Write, WriteEntry, WriteIndex, WriteFooter, source
  <2>2. OfTheMemtable'
    BY <1>0, <1>2, <2>1 DEF OfTheMemtable
  <2> QED
    BY <1>0, <1>6, <2>2, WriterKeepsLaid DEF WriteTable, FileInv
<1>7. ASSUME Close PROVE FileInv'
  <2>1. entries' \in Seq(Entry) /\ NewFile("none")
    BY <1>7 DEF Close, Entry
  <2>2. stage' = "none"
    BY <1>7 DEF Close, NewFile
  <2> QED
    BY <2>1, <2>2, BegunLaid DEF FileInv, OfTheMemtable
<1> QED
  BY <1>3, <1>4, <1>5, <1>6, <1>7 DEF FlushNext, FlushReturns, FlushFails

\* A table file always holds what was written so far where the index says.
THEOREM FileInductive == FlushSpec => [](MemInv /\ FileInv)
<1>1. MemInv /\ FileInv /\ [FlushNext]_<<writer, source>> => FileInv'
  BY NextFileInv
<1> QED
  BY <1>1, StartFileInv, MemInductive, PTL DEF FlushSpec

-----------------------------------------------------------------------------
(* What a reader makes of a table file *)

\* No value is so long that its length wraps or reads as a tombstone: of 4 GiB.
\* Nothing in the code rejects one that is.
ValuesFit == \A v \in Values : Len(v) < TOMBSTONE

\* What is read is a cell.
LEMMA ReadCell ==
  ASSUME file \in Seq(Nat), NEW p \in Nat
  PROVE  Cell(p) \in Nat /\ (p + 1 <= Len(file) => Cell(p) = file[p + 1])
<1>1. /\ Len(file) \in Nat /\ DOMAIN file = 1 .. Len(file)
      /\ \A i \in 1 .. Len(file) : file[i] \in Nat
  BY LenProperties, ElementOfSeq
<1> QED
  BY <1>1 DEF Cell

\* What is read is as many cells as were asked for.
LEMMA CellsType ==
  ASSUME file \in Seq(Nat), NEW p \in Nat, NEW n \in Nat
  PROVE  /\ Cells(p, n) \in Seq(Nat) /\ Len(Cells(p, n)) = n
         /\ \A i \in 1 .. n : Cells(p, n)[i] = Cell(p + i - 1)
<1>1. \A i \in 1 .. n : p + i - 1 \in Nat
  OBVIOUS
<1>2. \A i \in 1 .. n : Cell(p + i - 1) \in Nat
  BY <1>1, ReadCell
<1>3. Cells(p, n) \in [1 .. n -> Nat]
  BY <1>2 DEF Cells
<1>4. \A i \in 1 .. n : Cells(p, n)[i] = Cell(p + i - 1)
  BY DEF Cells
<1> QED
  BY <1>3, <1>4, IsSequence

\* Where a sequence stands, reading its length yields it.
LEMMA ReadCells ==
  ASSUME file \in Seq(Nat), NEW p \in Nat, NEW s \in Seq(Nat), p + Len(s) <= Len(file),
         \A j \in 1 .. Len(s) : file[p + j] = s[j]
  PROVE  Cells(p, Len(s)) = s
<1> DEFINE n == Len(s)
           c == Cells(p, n)
<1>1. n \in Nat /\ Len(file) \in Nat
  BY LenProperties
<1>2. c \in Seq(Nat) /\ Len(c) = n /\ \A i \in 1 .. n : c[i] = Cell(p + i - 1)
  <2> HIDE DEF n
  <2> QED
    BY <1>1, CellsType
<1>3. ASSUME NEW i \in 1 .. n PROVE Cell(p + i - 1) = s[i]
  <2>1. p + i - 1 \in Nat /\ (p + i - 1) + 1 = p + i /\ p + i <= Len(file)
    BY <1>1
  <2>2. Cell(p + i - 1) = file[p + i]
    BY <2>1, ReadCell
  <2> QED
    BY <2>2
<1> HIDE DEF c
<1>4. \A i \in 1 .. Len(c) : c[i] = s[i]
  BY <1>2, <1>3
<1>5. c = s
  BY <1>2, <1>4, SeqEqual
<1> QED
  BY <1>5 DEF c

\* Where a key stands, it is read,
LEMMA KeyRead ==
  ASSUME file \in Seq(Nat), NEW p \in Nat, NEW k \in ToSet(Keys), p + 1 + Len(k) <= Len(file),
         \A j \in 1 .. 1 + Len(k) : file[p + j] = KeyCells(k)[j]
  PROVE  Cell(p) = Len(k) /\ Cells(p + 1, Len(k)) = k
<1>1. /\ k \in Seq(Nat) /\ Len(k) \in Nat /\ KeyCells(k)[1] = Len(k)
      /\ \A j \in 1 .. Len(k) : KeyCells(k)[1 + j] = k[j]
  BY KeyCellsAre
<1>2. Len(file) \in Nat
  BY LenProperties
<1>3. Cell(p) = Len(k)
  <2>1. 1 \in 1 .. 1 + Len(k) /\ p + 1 <= Len(file)
    BY <1>1, <1>2
  <2> QED
    BY <1>1, <2>1, ReadCell
<1>4. ASSUME NEW j \in 1 .. Len(k) PROVE file[(p + 1) + j] = k[j]
  <2>1. 1 + j \in 1 .. 1 + Len(k) /\ (p + 1) + j = p + (1 + j)
    BY <1>1
  <2> QED
    BY <1>1, <2>1
<1>5. p + 1 \in Nat /\ (p + 1) + Len(k) <= Len(file)
  BY <1>1, <1>2
<1> QED
  BY <1>1, <1>3, <1>4, <1>5, ReadCells

\* and so is a value, and a tombstone,
LEMMA ValueRead ==
  ASSUME file \in Seq(Nat), ValuesFit, NEW p \in Nat, NEW v \in Values \cup {NoValue},
         p + ValueSize(v) <= Len(file),
         \A j \in 1 .. ValueSize(v) : file[p + j] = ValueCells(v)[j]
  PROVE  ValueAt(p) = v
<1>0. Len(file) \in Nat /\ ValueSize(v) \in Nat /\ ValueSize(v) >= 1
  BY LenProperties, ValueCellsAre
<1>1. Cell(p) = ValueCells(v)[1]
  <2>1. 1 \in 1 .. ValueSize(v) /\ p + 1 <= Len(file)
    BY <1>0
  <2> QED
    BY <2>1, ReadCell
<1>2. CASE v = NoValue
  BY <1>1, <1>2, ValueCellsAre DEF ValueAt
<1>3. CASE v # NoValue
  <2>1. /\ v \in Values /\ v \in Seq(Nat) /\ ValueCells(v)[1] = Length(v)
        /\ \A j \in 1 .. Len(v) : ValueCells(v)[1 + j] = v[j]
    BY <1>3, ValueCellsAre
  <2>2. Len(v) \in Nat /\ ValueSize(v) = 1 + Len(v)
    BY <1>3, <2>1, LenProperties DEF ValueSize
  <2>3. Len(v) < TOMBSTONE /\ TOMBSTONE = Wrap - 1 /\ Wrap \in Nat
    BY <2>1, WrapAssumption DEF ValuesFit, TOMBSTONE
  <2>4. Length(v) = Len(v) /\ Len(v) # TOMBSTONE
    <3>1. Len(v) \in Nat /\ Wrap \in Nat /\ Len(v) < Wrap
      BY <2>2, <2>3
    <3>2. Length(v) = Len(v)
      BY <3>1 DEF Length
    <3>3. Len(v) # TOMBSTONE
      BY <2>2, <2>3
    <3> QED
      BY <3>2, <3>3
  <2>5. ASSUME NEW j \in 1 .. Len(v) PROVE file[(p + 1) + j] = v[j]
    <3>1. 1 + j \in 1 .. ValueSize(v) /\ (p + 1) + j = p + (1 + j)
      BY <2>2
    <3> QED
      BY <2>1, <3>1
  <2>6. p + 1 \in Nat /\ (p + 1) + Len(v) <= Len(file)
    BY <1>0, <2>2
  <2>7. Cells(p + 1, Len(v)) = v
    BY <2>1, <2>5, <2>6, ReadCells
  <2>8. Cell(p) = Len(v)
    BY <1>1, <2>1, <2>4
  <2> QED
    BY <2>4, <2>7, <2>8 DEF ValueAt
<1> QED
  BY <1>2, <1>3

\* and an entry.
LEMMA EntryRead ==
  ASSUME file \in Seq(Nat), ValuesFit, NEW p \in Nat, NEW e \in Entry,
         p + Len(EntryCells(e)) <= Len(file),
         \A j \in 1 .. Len(EntryCells(e)) : file[p + j] = EntryCells(e)[j]
  PROVE  /\ Cell(p) = Len(e[1]) /\ Cells(p + 1, Cell(p)) = e[1]
         /\ ValueAt(p + 1 + Cell(p)) = e[2]
         /\ Len(EntryCells(e)) = 1 + Len(e[1]) + ValueSize(e[2])
         /\ Len(e[1]) \in Nat
<1> DEFINE a == KeyCells(e[1])
           b == ValueCells(e[2])
           l == Len(e[1])
           v == ValueSize(e[2])
<1>1. e[1] \in ToSet(Keys) /\ e[2] \in Values \cup {NoValue}
  BY DEF Entry
<1>2. a \in Seq(Nat) /\ Len(a) = 1 + l /\ l \in Nat /\ b \in Seq(Nat) /\ Len(b) = v /\ v \in Nat
  BY <1>1, KeyCellsAre, ValueCellsAre
<1>3. Len(file) \in Nat
  BY LenProperties
<1>4. EntryCells(e) = a \o b
  BY DEF EntryCells
<1> HIDE DEF a, b, v
<1>5. /\ Len(a \o b) = (1 + l) + v
      /\ \A j \in 1 .. (1 + l) + v : (a \o b)[j] = IF j <= 1 + l THEN a[j] ELSE b[j - (1 + l)]
  <2>1. /\ Len(a \o b) = Len(a) + Len(b)
        /\ \A j \in 1 .. Len(a) + Len(b) : (a \o b)[j] = IF j <= Len(a) THEN a[j] ELSE b[j - Len(a)]
    <3>1. a \in Seq(Nat) /\ b \in Seq(Nat)
      BY <1>2
    <3> QED
      BY <3>1, ConcatProperties
  <2>2. Len(a) = 1 + l /\ Len(b) = v
    BY <1>2
  <2> HIDE DEF l
  <2> QED
    BY <2>1, <2>2
<1>6. /\ p + ((1 + l) + v) <= Len(file)
      /\ \A j \in 1 .. (1 + l) + v : file[p + j] = IF j <= 1 + l THEN a[j] ELSE b[j - (1 + l)]
  BY <1>4, <1>5
<1> HIDE DEF l
<1>7. \A j \in 1 .. 1 + l : file[p + j] = a[j]
  <2>1. \A j \in 1 .. 1 + l : j \in 1 .. (1 + l) + v /\ j <= 1 + l
    BY <1>2
  <2> QED
    BY <1>6, <2>1
<1>8. ASSUME NEW j \in 1 .. v PROVE file[(p + 1 + l) + j] = b[j]
  <2>1. /\ 1 + l + j \in 1 .. (1 + l) + v /\ ~(1 + l + j <= 1 + l)
        /\ p + (1 + l + j) = (p + 1 + l) + j /\ (1 + l + j) - (1 + l) = j
    BY <1>2
  <2> QED
    BY <1>6, <2>1
<1>9. p + 1 + l <= Len(file) /\ p + 1 + l \in Nat /\ (p + 1 + l) + v <= Len(file)
  BY <1>2, <1>3, <1>6
<1>10. Cell(p) = l /\ Cells(p + 1, l) = e[1]
  BY <1>1, <1>7, <1>9, KeyRead DEF l, a
<1>11. ValueAt(p + 1 + l) = e[2]
  <2> DEFINE q == p + 1 + l
  <2>1. q \in Nat /\ q + ValueSize(e[2]) <= Len(file)
        /\ \A j \in 1 .. ValueSize(e[2]) : file[q + j] = ValueCells(e[2])[j]
    BY <1>8, <1>9 DEF v, b
  <2> HIDE DEF q
  <2>2. ValueAt(q) = e[2]
    BY <1>1, <2>1, ValueRead
  <2> QED
    BY <2>2 DEF q
<1>12. Len(EntryCells(e)) = 1 + l + v
  BY <1>2, <1>4, <1>5
<1> QED
  BY <1>2, <1>10, <1>11, <1>12 DEF l, v

\* Where the entries stand, they are read as they were written.
LEMMA IteratedIs ==
  ASSUME FileLaid, ValuesFit, stage = "done"
  PROVE  Iterated = entries
<1> DEFINE item == [p \in Nat |-> <<Cells(p + 1, Cell(p)), ValueAt(p + 1 + Cell(p))>>]
           len(p) == IF ValueAt(p) = NoValue THEN 0 ELSE Len(ValueAt(p))
           next == [p \in Nat |-> p + 1 + Cell(p) + 1 + len(p + 1 + Cell(p))]
           body(fr) == [p \in Nat |->
             IF p >= offset THEN <<>>
             ELSE <<<<Cells(p + 1, Cell(p)), ValueAt(p + 1 + Cell(p))>>>>
                    \o fr[p + 1 + Cell(p) + 1 + len(p + 1 + Cell(p))]]
           from == CHOOSE fr : fr = body(fr)
<1>1. Iterated = from[0]
  BY DEF Iterated, Until
<1>2. file \in Seq(Nat) /\ offset \in Nat /\ entries \in Seq(Entry) /\ Len(entries) \in Nat
  BY LenProperties DEF FileLaid, FileTypes
<1>3. ASSUME NEW fr PROVE body(fr) = Onward(fr, item, next, offset)
  BY DEF Onward
<1>4. \A p \in Nat : Cell(p) \in Nat
  BY <1>2, ReadCell
<1>5. ASSUME NEW p \in Nat PROVE len(p) \in Nat
  <2>1. Len(Cells(p + 1, Cell(p))) \in Nat
    <3>1. p + 1 \in Nat /\ Cell(p) \in Nat
      BY <1>4
    <3>2. Len(Cells(p + 1, Cell(p))) = Cell(p)
      BY <1>2, <3>1, CellsType
    <3> QED
      BY <3>1, <3>2
  <2>2. ValueAt(p) = NoValue \/ ValueAt(p) = Cells(p + 1, Cell(p))
    BY DEF ValueAt
  <2> QED
    BY <2>1, <2>2
<1> HIDE DEF len
<1>6. next \in [Nat -> Nat] /\ \A p \in Nat : p < next[p]
  <2>1. ASSUME NEW p \in Nat
        PROVE  LET n == p + 1 + Cell(p) + 1 + len(p + 1 + Cell(p)) IN n \in Nat /\ p < n
    <3>1. Cell(p) \in Nat /\ p + 1 + Cell(p) \in Nat
      BY <1>4
    <3>2. len(p + 1 + Cell(p)) \in Nat
      BY <1>5, <3>1
    <3> QED
      BY <3>1, <3>2
  <2> QED
    BY <2>1
<1>7. \A p \in Nat : /\ item[p] = <<Cells(p + 1, Cell(p)), ValueAt(p + 1 + Cell(p))>>
                     /\ next[p] = p + 1 + Cell(p) + 1 + len(p + 1 + Cell(p))
  OBVIOUS
<1> HIDE DEF item, next, body
<1>8. from = Onward(from, item, next, offset)
  <2>1. PICK fr : fr = Onward(fr, item, next, offset)
    BY <1>2, <1>6, OnwardExists
  <2>2. fr = body(fr)
    BY <1>3, <2>1
  <2>3. from = body(from)
    BY <2>2
  <2> HIDE DEF from
  <2> QED
    BY <1>3, <2>3
<1> HIDE DEF from
<1>9. written = Len(entries)
  BY DEF FileLaid, IndexLaid
<1>10. PICK at : at[1] = 0 /\ Stand(file, at, Laid, offset)
  BY DEF FileLaid, EntriesLaid
<1>11. Len(Laid) = Len(entries) /\ \A i \in 1 .. Len(entries) : Laid[i] = EntryCells(entries[i])
  <2>1. FileTypes
    BY DEF FileLaid
  <2> QED
    BY <1>9, <2>1, LaidIs DEF Laid
<1>12. /\ at \in [1 .. Len(entries) + 1 -> Nat] /\ at[Len(entries) + 1] = offset
       /\ offset <= Len(file)
       /\ \A i \in 1 .. Len(entries) :
            /\ at[i + 1] = at[i] + Len(EntryCells(entries[i])) /\ at[i + 1] <= offset
            /\ \A j \in 1 .. Len(EntryCells(entries[i])) :
                 file[at[i] + j] = EntryCells(entries[i])[j]
  <2> DEFINE n == Len(entries)
  <2>1. /\ at \in [1 .. n + 1 -> Nat] /\ at[n + 1] = offset /\ offset <= Len(file)
        /\ \A i \in 1 .. n : /\ at[i + 1] = at[i] + Len(Laid[i]) /\ at[i + 1] <= offset
                             /\ \A j \in 1 .. Len(Laid[i]) : file[at[i] + j] = Laid[i][j]
    <3>1. Len(Laid) = n
      BY <1>11
    <3> HIDE DEF n
    <3> QED
      BY <1>10, <3>1 DEF Stand
  <2>2. \A i \in 1 .. n : Laid[i] = EntryCells(entries[i])
    BY <1>11
  <2> HIDE DEF n
  <2>3. \A i \in 1 .. n : /\ at[i + 1] = at[i] + Len(EntryCells(entries[i])) /\ at[i + 1] <= offset
                          /\ \A j \in 1 .. Len(EntryCells(entries[i])) :
                               file[at[i] + j] = EntryCells(entries[i])[j]
    BY <2>1, <2>2
  <2> QED
    BY <2>1, <2>3 DEF n
<1>13. ASSUME NEW i \in 1 .. Len(entries)
       PROVE  at[i] < offset /\ next[at[i]] = at[i + 1] /\ item[at[i]] = entries[i]
  <2> DEFINE p == at[i]
             e == entries[i]
  <2>1. e \in Entry
    BY <1>2, ElementOfSeq
  <2>2. p \in Nat /\ Len(file) \in Nat /\ Len(EntryCells(e)) \in Nat
    <3>1. i \in 1 .. Len(entries) + 1
      BY <1>2
    <3>2. EntryCells(e) \in Seq(Nat)
      BY <2>1, EntryCellsAre
    <3> QED
      BY <1>2, <1>12, <3>1, <3>2, LenProperties
  <2>3. /\ at[i + 1] = p + Len(EntryCells(e)) /\ at[i + 1] <= offset
        /\ \A j \in 1 .. Len(EntryCells(e)) : file[p + j] = EntryCells(e)[j]
    BY <1>12
  <2> HIDE DEF p, e
  <2>4. p + Len(EntryCells(e)) <= Len(file)
    BY <1>2, <1>12, <2>2, <2>3
  <2>5. /\ Cell(p) = Len(e[1]) /\ Cells(p + 1, Cell(p)) = e[1]
        /\ ValueAt(p + 1 + Cell(p)) = e[2]
        /\ Len(EntryCells(e)) = 1 + Len(e[1]) + ValueSize(e[2])
        /\ Len(e[1]) \in Nat
    BY <1>2, <2>1, <2>2, <2>3, <2>4, EntryRead
  <2>6. item[p] = e
    <3>1. e = <<e[1], e[2]>>
      BY <2>1 DEF Entry
    <3> QED
      BY <1>7, <2>2, <2>5, <3>1
  <2>7. e[2] \in Values \cup {NoValue}
    BY <2>1 DEF Entry
  <2>8. ValueSize(e[2]) = 1 + len(p + 1 + Cell(p)) /\ len(p + 1 + Cell(p)) \in Nat
    <3>1. ValueSize(e[2]) = 1 + len(p + 1 + Cell(p))
      BY <2>5 DEF ValueSize, len
    <3>2. p + 1 + Cell(p) \in Nat
      <4>1. Cell(p) \in Nat
        BY <1>4, <2>2
      <4> QED
        BY <2>2, <4>1
    <3> QED
      BY <1>5, <3>1, <3>2
  <2>9. next[p] = at[i + 1] /\ p < offset
    <3> DEFINE l == Len(e[1])
               v == len(p + 1 + Cell(p))
               c == Cell(p)
    <3>1. next[p] = p + 1 + c + 1 + v
      BY <1>7, <2>2
    <3>2. c = l /\ l \in Nat /\ v \in Nat /\ p \in Nat
      BY <2>2, <2>5, <2>8
    <3>3. at[i + 1] = p + (1 + l + (1 + v))
      BY <2>3, <2>5, <2>8
    <3>4. offset \in Nat /\ at[i + 1] <= offset
      BY <1>2, <2>3
    <3> HIDE DEF l, v, c
    <3> QED
      BY <3>1, <3>2, <3>3, <3>4
  <2> QED
    BY <2>6, <2>9 DEF p, e
<1>14. Along(at, entries, item, next, offset)
  <2>1. at[Len(entries) + 1] >= offset
    BY <1>2, <1>12
  <2> QED
    BY <1>12, <1>13, <2>1 DEF Along
<1>15. from[at[1]] = entries
  BY <1>2, <1>8, <1>14, OnwardReads
<1> QED
  BY <1>1, <1>10, <1>15

\* So is the index.
LEMMA OpenedIndexIs ==
  ASSUME FileLaid, stage = "done"
  PROVE  OpenedIndex = index
<1> DEFINE end == Len(file) - 1
           item == [p \in Nat |-> <<Cells(p + 1, Cell(p)), Cell(p + 1 + Cell(p))>>]
           next == [p \in Nat |-> p + 2 + Cell(p)]
           body(fr) == [p \in Nat |->
             IF p >= Len(file) - 1 THEN <<>>
             ELSE <<<<Cells(p + 1, Cell(p)), Cell(p + 1 + Cell(p))>>>> \o fr[p + 2 + Cell(p)]]
           from == CHOOSE fr : fr = body(fr)
<1>1. OpenedIndex = from[Footer]
  BY DEF OpenedIndex
<1>2. /\ file \in Seq(Nat) /\ Len(file) \in Nat /\ Len(file) > 0 /\ offset \in Nat
      /\ index \in Seq(IndexItem) /\ Len(index) = written /\ written \in Nat
      /\ file[Len(file)] = offset /\ end \in Nat
  <2>1. file \in Seq(Nat) /\ index \in Seq(IndexItem) /\ offset \in Nat /\ Len(index) = written
    BY DEF FileLaid, FileTypes
  <2>2. Len(file) > 0 /\ file[Len(file)] = offset
    BY DEF FileLaid, IndexLaid
  <2>3. Len(file) \in Nat /\ Len(index) \in Nat
    BY <2>1, LenProperties
  <2> QED
    BY <2>1, <2>2, <2>3
<1>3. ASSUME NEW fr PROVE body(fr) = Onward(fr, item, next, end)
  BY DEF Onward
<1>4. \A p \in Nat : Cell(p) \in Nat
  BY <1>2, ReadCell
<1>5. next \in [Nat -> Nat] /\ \A p \in Nat : p < next[p]
  BY <1>4
<1>6. \A p \in Nat : /\ item[p] = <<Cells(p + 1, Cell(p)), Cell(p + 1 + Cell(p))>>
                     /\ next[p] = p + 2 + Cell(p)
  OBVIOUS
<1>7. Footer = offset
  <2>1. end + 1 = Len(file) /\ end + 1 <= Len(file)
    BY <1>2
  <2>2. Cell(end) = file[Len(file)]
    <3> HIDE DEF end
    <3> QED
      BY <1>2, <2>1, ReadCell
  <2> QED
    BY <1>2, <2>2 DEF Footer
<1>8. IndexEnd = end
  BY DEF IndexEnd
<1> HIDE DEF item, next, body, end
<1>9. from = Onward(from, item, next, end)
  <2>1. PICK fr : fr = Onward(fr, item, next, end)
    BY <1>2, <1>5, OnwardExists
  <2>2. fr = body(fr)
    BY <1>3, <2>1
  <2>3. from = body(from)
    BY <2>2
  <2> HIDE DEF from
  <2> QED
    BY <1>3, <2>3
<1> HIDE DEF from
<1>10. PICK at : at[1] = offset /\ Stand(file, at, Listing, end)
  BY <1>8 DEF FileLaid, IndexLaid
<1> DEFINE n == Len(index)
<1>11. Len(Listing) = n /\ \A i \in 1 .. n : Listing[i] = IndexCells(index[i])
  <2>1. FileTypes
    BY DEF FileLaid
  <2> QED
    BY <1>2, <2>1, ListingIs DEF Listing
<1>12. /\ at \in [1 .. n + 1 -> Nat] /\ at[n + 1] = end /\ end <= Len(file)
       /\ \A i \in 1 .. n : /\ at[i + 1] = at[i] + Len(Listing[i]) /\ at[i + 1] <= end
                            /\ \A j \in 1 .. Len(Listing[i]) : file[at[i] + j] = Listing[i][j]
  <2> HIDE DEF n
  <2> QED
    BY <1>10, <1>11 DEF Stand
<1>13. ASSUME NEW i \in 1 .. n
       PROVE  at[i] < end /\ next[at[i]] = at[i + 1] /\ item[at[i]] = index[i]
  <2> DEFINE p == at[i]
             x == index[i]
             k == x[1]
             l == Len(k)
  <2>1. x \in IndexItem
    BY <1>2, ElementOfSeq
  <2>2. k \in ToSet(Keys) /\ x[2] \in Nat /\ x = <<k, x[2]>>
    BY <2>1 DEF IndexItem
  <2>3. l \in Nat /\ p \in Nat
    <3>1. i \in 1 .. n + 1
      BY <1>2
    <3> QED
      BY <1>12, <2>2, <3>1, KeyCellsAre
  <2>4. /\ Len(IndexCells(x)) = 2 + l
        /\ \A j \in 1 .. 1 + l : IndexCells(x)[j] = KeyCells(k)[j]
        /\ IndexCells(x)[2 + l] = x[2]
    <3> HIDE DEF x
    <3> QED
      BY <2>1, IndexCellsAre
  <2>5. /\ at[i + 1] = p + Len(IndexCells(x)) /\ at[i + 1] <= end
        /\ \A j \in 1 .. Len(IndexCells(x)) : file[p + j] = IndexCells(x)[j]
    <3>1. Listing[i] = IndexCells(x)
      BY <1>11
    <3> HIDE DEF x
    <3> QED
      BY <1>12, <3>1
  <2> HIDE DEF n, p, x, l
  <2>6. /\ at[i + 1] = p + (2 + l) /\ at[i + 1] <= end
        /\ \A j \in 1 .. 2 + l : file[p + j] = IndexCells(x)[j]
    BY <2>4, <2>5
  <2>7. \A j \in 1 .. 1 + l : file[p + j] = KeyCells(k)[j]
    <3>1. \A j \in 1 .. 1 + l : j \in 1 .. 2 + l
      BY <2>3
    <3> QED
      BY <2>4, <2>6, <3>1
  <2>8. file[p + (2 + l)] = x[2]
    <3>1. 2 + l \in 1 .. 2 + l
      BY <2>3
    <3> QED
      BY <2>4, <2>6, <3>1
  <2>9. p + 1 + l <= Len(file) /\ (p + 1 + l) + 1 <= Len(file) /\ p < end
        /\ p + 1 + l \in Nat /\ (p + 1 + l) + 1 = p + (2 + l)
    BY <1>2, <1>12, <2>3, <2>6
  <2>10. Cell(p) = l /\ Cells(p + 1, l) = k
    <3> HIDE DEF k
    <3> QED
      BY <1>2, <2>2, <2>3, <2>7, <2>9, KeyRead DEF l
  <2>11. Cell(p + 1 + l) = x[2]
    <3>1. Cell(p + 1 + l) = file[(p + 1 + l) + 1]
      BY <1>2, <2>9, ReadCell
    <3> QED
      BY <2>8, <2>9, <3>1
  <2>12. item[p] = x
    BY <1>6, <2>2, <2>3, <2>10, <2>11
  <2>13. next[p] = at[i + 1]
    <3>1. next[p] = p + 2 + l
      BY <1>6, <2>3, <2>10
    <3> QED
      BY <2>3, <2>6, <3>1
  <2> QED
    BY <2>9, <2>12, <2>13 DEF p, x
<1>14. Along(at, index, item, next, end)
  <2>1. at[n + 1] >= end
    BY <1>2, <1>12
  <2> QED
    BY <1>12, <1>13, <2>1 DEF Along
<1>15. from[at[1]] = index
  BY <1>2, <1>9, <1>14, OnwardReads
<1> QED
  BY <1>1, <1>7, <1>10, <1>15

-----------------------------------------------------------------------------
(* The binary search *)

\* A part of 1 .. e, as its first place and its length.
Part(e) == Nat \X (0 .. e)
\* fr goes on with the next part until one place is left.
Halving(fr, next, e) == [p \in Part(e) |-> IF p[2] <= 1 THEN p[1] ELSE fr[next[p]]]

\* There is a function that does, since the next part is always shorter.
LEMMA HalvingExists ==
  ASSUME NEW e \in Nat, NEW next \in [Part(e) -> Part(e)],
         \A p \in Part(e) : p[2] > 1 => next[p][2] < p[2]
  PROVE  \E fr : fr = Halving(fr, next, e)
<1> DEFINE To(g, m) == \A p \in Part(e) : p[2] <= m =>
                         g[p] = IF p[2] <= 1 THEN p[1] ELSE g[next[p]]
           Good(m) == \E g : To(g, m)
           T == {m \in 0 .. e : ~Good(m)}
<1>0. \A p \in Part(e) : p[1] \in Nat /\ p[2] \in 0 .. e /\ next[p] \in Part(e)
  BY DEF Part
<1>1. T = {}
  <2> SUFFICES ASSUME T # {} PROVE FALSE
    OBVIOUS
  <2>1. PICK m \in T : \A k \in T : m <= k
    <3>1. T \subseteq Nat
      OBVIOUS
    <3> HIDE DEF T
    <3> QED
      BY <3>1, LeastElement
  <2>2. m \in 0 .. e /\ ~Good(m) /\ \A k \in 0 .. e : k < m => Good(k)
    <3>1. m \in 0 .. e /\ ~Good(m) /\ \A k \in 0 .. e : ~Good(k) => m <= k
      BY <2>1
    <3> HIDE DEF T, Good
    <3> QED
      BY <3>1
  <2> HIDE DEF T
  <2>3. CASE m = 0
    <3> DEFINE first == [p \in Part(e) |-> p[1]]
    <3>1. To(first, 0)
      BY <1>0
    <3> HIDE DEF first
    <3> QED
      BY <2>2, <2>3, <3>1
  <2>4. CASE m # 0
    <3>1. m - 1 \in 0 .. e /\ m - 1 < m /\ m \in Nat
      <4> HIDE DEF Good
      <4> QED
        BY <2>2, <2>4
    <3>2. PICK g : To(g, m - 1)
      BY <2>2, <3>1
    <3> DEFINE at(p) == IF p[2] <= 1 THEN p[1] ELSE g[next[p]]
               h == [p \in Part(e) |-> IF p[2] = m THEN at(p) ELSE g[p]]
    <3> HIDE DEF Good
    <3>3. \A p \in Part(e) : p[2] < m => h[p] = g[p]
      BY <1>0, <3>1
    <3>4. ASSUME NEW p \in Part(e), p[2] <= m
          PROVE  h[p] = IF p[2] <= 1 THEN p[1] ELSE h[next[p]]
      <4>1. h[p] = at(p)
        <5>1. CASE p[2] = m
          BY <5>1
        <5>2. CASE p[2] # m
          <6> HIDE DEF h, at
          <6>1. p[2] \in Nat
            BY <1>0
          <6>2. p[2] <= m - 1 /\ p[2] < m
            BY <3>1, <3>4, <5>2, <6>1
          <6> QED
            BY <3>2, <3>3, <6>2 DEF at
        <5> QED
          BY <5>1, <5>2
      <4>2. CASE p[2] <= 1
        <5> HIDE DEF h
        <5> QED
          BY <4>1, <4>2
      <4>3. CASE ~(p[2] <= 1)
        <5>1. next[p] \in Part(e) /\ next[p][2] < m
          BY <1>0, <3>1, <3>4, <4>3
        <5> HIDE DEF h
        <5> QED
          BY <3>3, <4>1, <4>3, <5>1
      <4> HIDE DEF h
      <4> QED
        BY <4>2, <4>3
    <3> HIDE DEF h
    <3>5. To(h, m)
      BY <3>4
    <3>6. Good(m)
      BY <3>5 DEF Good
    <3> QED
      BY <2>2, <3>6
  <2> QED
    BY <2>3, <2>4
<1>2. e \in 0 .. e
  OBVIOUS
<1>3. PICK g : To(g, e)
  BY <1>1, <1>2
<1> DEFINE f == [p \in Part(e) |-> g[p]]
<1>4. \A p \in Part(e) : f[p] = IF p[2] <= 1 THEN p[1] ELSE f[next[p]]
  BY <1>0, <1>3
<1>5. f = [p \in Part(e) |-> f[p]]
  OBVIOUS
<1> HIDE DEF f, T
<1>6. f = Halving(f, next, e)
  BY <1>4, <1>5 DEF Halving
<1> QED
  BY <1>6

\* Place n is in the part p of 1 .. e.
Within(n, p, e) == 1 <= p[1] /\ p[1] <= n /\ n < p[1] + p[2] /\ p[1] + p[2] <= e + 1

\* Where each next part holds the place, it is the one that is left.
LEMMA HalvingFinds ==
  ASSUME NEW e \in Nat, NEW next \in [Part(e) -> Part(e)], NEW n \in Nat, NEW fr,
         \A p \in Part(e) : p[2] > 1 => next[p][2] < p[2],
         \A p \in Part(e) : p[2] > 1 /\ Within(n, p, e) => Within(n, next[p], e),
         fr = Halving(fr, next, e)
  PROVE  \A p \in Part(e) : Within(n, p, e) => fr[p] = n
<1> DEFINE Bad(m) == \E p \in Part(e) : p[2] = m /\ Within(n, p, e) /\ fr[p] # n
           T == {m \in 0 .. e : Bad(m)}
<1>0. \A p \in Part(e) : p[1] \in Nat /\ p[2] \in 0 .. e /\ next[p] \in Part(e)
  BY DEF Part
<1>1. \A p \in Part(e) : fr[p] = IF p[2] <= 1 THEN p[1] ELSE fr[next[p]]
  <2>1. \A p \in Part(e) : Halving(fr, next, e)[p] = IF p[2] <= 1 THEN p[1] ELSE fr[next[p]]
    BY DEF Halving
  <2> QED
    BY <2>1
<1>2. T = {}
  <2> SUFFICES ASSUME T # {} PROVE FALSE
    OBVIOUS
  <2>1. PICK m \in T : \A k \in T : m <= k
    <3>1. T \subseteq Nat
      OBVIOUS
    <3> HIDE DEF T
    <3> QED
      BY <3>1, LeastElement
  <2>2. m \in 0 .. e /\ Bad(m) /\ \A k \in 0 .. e : Bad(k) => m <= k
    BY <2>1
  <2>3. PICK p \in Part(e) : p[2] = m /\ Within(n, p, e) /\ fr[p] # n
    BY <2>2
  <2> HIDE DEF T, Bad
  <2>4. CASE p[2] <= 1
    <3>1. p[1] = n
      BY <1>0, <2>3, <2>4 DEF Within
    <3> QED
      BY <1>1, <2>3, <2>4, <3>1
  <2>5. CASE ~(p[2] <= 1)
    <3>1. p[2] > 1
      BY <1>0, <2>5
    <3>2. /\ next[p] \in Part(e) /\ next[p][2] \in 0 .. e /\ next[p][2] < m
          /\ Within(n, next[p], e) /\ fr[p] = fr[next[p]]
      BY <1>0, <1>1, <2>3, <2>5, <3>1
    <3>3. Bad(next[p][2])
      BY <2>3, <3>2 DEF Bad
    <3> QED
      BY <2>2, <3>2, <3>3
  <2> QED
    BY <2>4, <2>5
<1> QED
  BY <1>0, <1>2

\* The half of a length that can be halved.
LEMMA HalfOf ==
  ASSUME NEW l \in Nat, l > 1
  PROVE  l \div 2 \in Nat /\ l \div 2 >= 1 /\ l \div 2 <= l - l \div 2
OBVIOUS

\* In such an index the search finds each key at its place.
LEMMA SearchFinds ==
  ASSUME NEW idx \in Seq(Seq(Nat) \X Nat), Ascend(idx), NEW n \in 1 .. Len(idx)
  PROVE  Search(idx, idx[n][1]) = n
<1> DEFINE e == Len(idx)
           key == idx[n][1]
           next == [p \in Part(e) |-> IF p[2] > 1 THEN Halved(idx, key, p) ELSE p]
           body(fr) == [part \in Nat \X (0 .. Len(idx)) |->
             IF part[2] <= 1 THEN part[1] ELSE fr[Halved(idx, key, part)]]
           left == CHOOSE fr : fr = body(fr)
<1>1. Search(idx, key) = left[<<1, e>>]
  BY DEF Search
<1>2. e \in Nat /\ n \in Nat /\ DOMAIN idx = 1 .. e /\ \A i \in 1 .. e : idx[i][1] \in Seq(Nat)
  BY LenProperties, ElementOfSeq
<1>0. e \in Nat /\ n \in Nat
  BY <1>2
<1> HIDE DEF e
<1>3. ASSUME NEW a \in Nat, NEW l \in 0 .. e, l > 1
      PROVE  \E h \in Part(e) : /\ Halved(idx, key, <<a, l>>) = h /\ h[2] < l
                                /\ Within(n, <<a, l>>, e) => Within(n, h, e)
  <2> DEFINE half == l \div 2
             middle == a + half
             start == IF Precedes(key, idx[middle][1]) THEN a ELSE middle
  <2>1. half \in Nat /\ half >= 1 /\ half <= l - half
    <3>1. l \in Nat
      BY <1>0
    <3> QED
      BY <1>3, <3>1, HalfOf
  <2>2. Halved(idx, key, <<a, l>>) = <<start, l - half>>
    BY DEF Halved, Beyond
  <2> HIDE DEF half
  <2>3. middle \in Nat /\ l - half \in 0 .. e /\ l - half < l
    BY <1>2, <2>1
  <2> HIDE DEF middle
  <2>4. start \in Nat
    BY <2>3
  <2>5. ASSUME Within(n, <<a, l>>, e) PROVE Within(n, <<start, l - half>>, e)
    <3>1. 1 <= a /\ a <= n /\ n < a + l /\ a + l <= e + 1
      BY <2>5 DEF Within
    <3>2. middle \in 1 .. e
      <4> HIDE DEF key, start
      <4>1. a + half >= 1 /\ a + half <= e
        BY <1>0, <2>1, <3>1
      <4> QED
        BY <1>0, <2>3, <4>1 DEF middle
    <3> DEFINE there == idx[middle][1]
    <3>3. /\ n \in DOMAIN idx /\ middle \in DOMAIN idx
          /\ key \in Seq(Nat) /\ there \in Seq(Nat)
      BY <1>2, <3>2
    <3>4. /\ n < middle => Precedes(key, there)
          /\ middle < n => Precedes(there, key)
      BY <3>3 DEF Ascend
    <3> HIDE DEF key, there
    <3>5. Precedes(key, there) => n < middle
      <4> SUFFICES ASSUME Precedes(key, there), ~(n < middle) PROVE FALSE
        OBVIOUS
      <4>1. CASE n = middle
        <5>1. key = there
          BY <4>1 DEF key, there
        <5> QED
          BY <3>3, <5>1, PrecedesStrictly
      <4>2. CASE middle < n
        BY <3>3, <3>4, <4>2, PrecedesStrictly
      <4> QED
        BY <1>0, <2>3, <4>1, <4>2
    <3>6. CASE n < middle
      <4>1. start = a
        BY <3>4, <3>6 DEF there
      <4>2. n < a + (l - half)
        BY <1>0, <2>1, <3>6 DEF middle
      <4>3. a + (l - half) <= e + 1
        BY <1>0, <2>1, <3>1
      <4> QED
        BY <3>1, <4>1, <4>2, <4>3 DEF Within
    <3>7. CASE ~(n < middle)
      <4>1. start = middle
        BY <3>5, <3>7 DEF there
      <4>2. middle + (l - half) = a + l
        BY <1>0, <2>1 DEF middle
      <4>3. 1 <= middle /\ middle <= n
        BY <1>0, <3>2, <3>7
      <4> QED
        BY <3>1, <4>1, <4>2, <4>3 DEF Within
    <3> QED
      BY <3>6, <3>7
  <2>6. <<start, l - half>> \in Part(e)
    BY <2>3, <2>4 DEF Part
  <2> HIDE DEF start
  <2> QED
    BY <2>2, <2>3, <2>5, <2>6
<1>4. ASSUME NEW p \in Part(e)
      PROVE  /\ p[2] > 1 => next[p] = Halved(idx, key, p) /\ next[p][2] < p[2]
             /\ p[2] > 1 /\ Within(n, p, e) => Within(n, next[p], e)
             /\ next[p] \in Part(e) /\ (~(p[2] > 1) <=> p[2] <= 1)
  <2>1. PICK a \in Nat, l \in 0 .. e : p = <<a, l>>
    BY DEF Part
  <2>2. p[2] = l /\ (~(l > 1) <=> l <= 1)
    BY <1>2, <2>1
  <2>3. l > 1 => next[p] = Halved(idx, key, <<a, l>>)
    BY <2>1
  <2>4. ~(l > 1) => next[p] = p
    BY <2>1
  <2> HIDE DEF next, key
  <2>5. CASE l > 1
    BY <1>3, <2>1, <2>2, <2>3, <2>5
  <2> QED
    BY <2>1, <2>2, <2>4, <2>5
<1>5. next \in [Part(e) -> Part(e)]
  BY <1>4
<1>6. ASSUME NEW fr PROVE body(fr) = Halving(fr, next, e)
  <2>1. \A p \in Part(e) : ~(p[2] <= 1) => next[p] = Halved(idx, key, p)
    BY <1>4
  <2> HIDE DEF next, key
  <2> QED
    BY <2>1 DEF Halving, Part, e
<1> HIDE DEF next, body, key
<1>7. left = Halving(left, next, e)
  <2>1. PICK fr : fr = Halving(fr, next, e)
    BY <1>2, <1>4, <1>5, HalvingExists
  <2>2. fr = body(fr)
    BY <1>6, <2>1
  <2>3. left = body(left)
    BY <2>2
  <2> HIDE DEF left
  <2> QED
    BY <1>6, <2>3
<1> HIDE DEF left
<1>8. <<1, e>> \in Part(e) /\ Within(n, <<1, e>>, e)
  <2> DEFINE all == <<1, e>>
  <2>1. all[1] = 1 /\ all[2] = e /\ all \in Part(e) /\ n <= e /\ 1 <= n
    BY <1>0 DEF Part, e
  <2> HIDE DEF all
  <2> QED
    BY <1>0, <2>1 DEF Within, all
<1>9. left[<<1, e>>] = n
  <2>1. \A p \in Part(e) : p[2] > 1 => next[p][2] < p[2]
    BY <1>4
  <2>2. \A p \in Part(e) : p[2] > 1 /\ Within(n, p, e) => Within(n, next[p], e)
    BY <1>4
  <2>3. \A p \in Part(e) : Within(n, p, e) => left[p] = n
    BY <1>0, <1>5, <1>7, <2>1, <2>2, HalvingFinds
  <2> QED
    BY <1>8, <2>3
<1> QED
  BY <1>1, <1>9 DEF key

\* Where the index says an entry is, there it is.
LEMMA EntryThere ==
  ASSUME FileLaid, stage = "done", NEW n \in 1 .. Len(entries)
  PROVE  /\ index[n][1] = entries[n][1] /\ index[n][2] \in Nat
         /\ entries[n] \in Entry
         /\ index[n][2] + Len(EntryCells(entries[n])) <= Len(file)
         /\ \A j \in 1 .. Len(EntryCells(entries[n])) :
              file[index[n][2] + j] = EntryCells(entries[n])[j]
<1>1. /\ written = Len(entries) /\ written \in Nat /\ entries[n] \in Entry
      /\ file \in Seq(Nat) /\ Len(file) \in Nat /\ offset \in Nat
  <2>1. written = Len(entries) /\ entries \in Seq(Entry) /\ file \in Seq(Nat) /\ offset \in Nat
    BY DEF FileLaid, FileTypes, IndexLaid
  <2>2. Len(entries) \in Nat /\ Len(file) \in Nat
    BY <2>1, LenProperties
  <2>3. entries[n] \in Entry
    BY <2>1, ElementOfSeq
  <2> QED
    BY <2>1, <2>2, <2>3
<1>2. PICK at : /\ \A m \in 1 .. written : at[m] = index[m][2]
                /\ Stand(file, at, Laid, offset)
  BY DEF FileLaid, EntriesLaid
<1>3. Len(Laid) = written /\ Laid[n] = EntryCells(entries[n])
  <2>1. FileTypes
    BY DEF FileLaid
  <2> QED
    BY <1>1, <2>1, LaidIs DEF Laid
<1> DEFINE p == at[n]
           c == Laid[n]
<1>4. /\ p \in Nat /\ at[n + 1] = p + Len(c) /\ at[n + 1] <= offset /\ offset <= Len(file)
      /\ \A j \in 1 .. Len(c) : file[p + j] = c[j]
  <2>1. n \in 1 .. Len(Laid) /\ n \in 1 .. Len(Laid) + 1
    BY <1>1, <1>3
  <2> QED
    BY <1>2, <2>1 DEF Stand
<1>5. Len(c) \in Nat
  BY <1>1, <1>3, EntryCellsAre, LenProperties
<1>6. p = index[n][2] /\ index[n][1] = entries[n][1]
  BY <1>1, <1>2 DEF FileLaid, EntriesLaid
<1> HIDE DEF p, c
<1>7. p + Len(c) <= Len(file)
  BY <1>1, <1>4, <1>5
<1> QED
  BY <1>1, <1>3, <1>4, <1>6, <1>7 DEF c

\* The index answers with what was written.
LEMMA IndexAnswers ==
  ASSUME FileLaid, Ascend(entries), ValuesFit, stage = "done", NEW k \in ToSet(Keys)
  PROVE  /\ Get(index, k) = Found(k)
         /\ \A n \in 1 .. Len(entries) : entries[n][1] = k => Found(k) = entries[n][2]
         /\ (~\E n \in 1 .. Len(entries) : entries[n][1] = k) => Found(k) = Absent
<1>1. /\ DOMAIN entries = 1 .. Len(entries) /\ DOMAIN index = 1 .. Len(entries)
      /\ file \in Seq(Nat)
  <2>1. /\ entries \in Seq(Entry) /\ index \in Seq(IndexItem)
        /\ file \in Seq(Nat) /\ Len(index) = Len(entries)
    BY DEF FileLaid, FileTypes, IndexLaid
  <2>2. DOMAIN entries = 1 .. Len(entries) /\ DOMAIN index = 1 .. Len(index)
    BY <2>1, LenProperties
  <2> QED
    BY <2>1, <2>2
<1>2. \A n \in 1 .. Len(entries) : index[n][1] = entries[n][1]
  BY EntryThere
<1>3. ASSUME NEW n \in 1 .. Len(entries), entries[n][1] = k
      PROVE  ValueAt(SeekTo(index[n][2], k)) = entries[n][2]
  <2> DEFINE p == index[n][2]
             e == entries[n]
  <2>1. /\ p \in Nat /\ e \in Entry /\ p + Len(EntryCells(e)) <= Len(file)
        /\ \A j \in 1 .. Len(EntryCells(e)) : file[p + j] = EntryCells(e)[j]
    BY EntryThere
  <2>2. e[1] = k
    BY <1>3
  <2> HIDE DEF p, e
  <2>3. Cell(p) = Len(e[1]) /\ ValueAt(p + 1 + Cell(p)) = e[2]
    BY <1>1, <2>1, EntryRead
  <2>4. SeekTo(p, k) = p + 1 + Cell(p)
    BY <2>2, <2>3 DEF SeekTo
  <2> QED
    BY <2>3, <2>4 DEF p, e
<1>4. index \in Seq(Seq(Nat) \X Nat) /\ Ascend(index)
  <2>1. index \in Seq(IndexItem) /\ IndexItem \subseteq Seq(Nat) \X Nat
    BY KeyCellsAre DEF FileLaid, FileTypes, IndexItem
  <2>2. index \in Seq(Seq(Nat) \X Nat)
    <3>1. \A n \in 1 .. Len(entries) : index[n] \in Seq(Nat) \X Nat
      BY <1>1, <2>1, ElementOfSeq, LenProperties
    <3>2. Len(entries) \in Nat /\ index = [n \in 1 .. Len(entries) |-> index[n]]
      BY <1>1, <2>1, LenProperties DEF FileLaid, FileTypes
    <3> QED
      BY <3>1, <3>2, IsSequence
  <2>3. Ascend(index)
    BY <1>1, <1>2 DEF Ascend
  <2> QED
    BY <2>2, <2>3
<1>5. ASSUME NEW n \in 1 .. Len(entries), entries[n][1] = k
      PROVE  Search(index, k) = n
  <2>1. n \in 1 .. Len(index) /\ index[n][1] = k
    BY <1>1, <1>2, <1>4, <1>5, LenProperties
  <2> QED
    BY <1>4, <2>1, SearchFinds
<1> DEFINE hits == {n \in DOMAIN entries : entries[n][1] = k}
           h == CHOOSE n \in hits : TRUE
           s == Search(index, k)
<1>6. /\ Found(k) = IF hits = {} THEN Absent ELSE entries[h][2]
      /\ Get(index, k) = IF s \in DOMAIN index /\ index[s][1] = k
                           THEN ValueAt(SeekTo(index[s][2], k)) ELSE Absent
  BY DEF Found, Get
<1>7. CASE hits = {}
  <2>1. ~\E n \in 1 .. Len(entries) : entries[n][1] = k
    BY <1>1, <1>7
  <2>2. ~(s \in DOMAIN index /\ index[s][1] = k)
    BY <1>1, <1>2, <2>1
  <2> QED
    BY <1>6, <1>7, <2>1, <2>2
<1>8. CASE hits # {}
  <2>1. h \in 1 .. Len(entries) /\ entries[h][1] = k
    BY <1>1, <1>8
  <2>2. \A n \in 1 .. Len(entries) : entries[n][1] = k => n = s
    BY <1>5
  <2> HIDE DEF s, h
  <2>3. s = h /\ s \in DOMAIN index /\ index[s][1] = k
    BY <1>1, <1>2, <2>1, <2>2
  <2>4. Get(index, k) = entries[h][2] /\ Found(k) = entries[h][2]
    BY <1>3, <1>6, <1>8, <2>1, <2>3
  <2> QED
    BY <2>1, <2>2, <2>3, <2>4
<1> QED
  BY <1>7, <1>8

\* The index answers as the memtable does.
LEMMA Answers ==
  ASSUME FileInv, MemInv, ValuesFit, stage = "done"
  PROVE  /\ FileLaid /\ Ascend(entries)
         /\ \A k \in ToSet(Keys) : Get(index, k) = memtable[k] /\ Found(k) = memtable[k]
<1>1. FileLaid /\ entries = Sorted /\ entries \in Seq(Entry) /\ DOMAIN entries = 1 .. Len(entries)
  <2>1. FileLaid /\ entries = Sorted /\ entries \in Seq(Entry)
    BY DEF FileInv, FileLaid, FileTypes, OfTheMemtable
  <2> QED
    BY <2>1, LenProperties
<1>2. /\ \A n \in 1 .. Len(entries) : entries[n][2] = memtable[entries[n][1]]
      /\ \A k \in ToSet(Keys) : memtable[k] # Absent => \E n \in 1 .. Len(entries) : entries[n][1] = k
  BY <1>1, SortedIs DEF MemInv
<1>3. Ascend(entries)
  BY <1>1, SortedIs DEF MemInv
<1>4. ASSUME NEW k \in ToSet(Keys) PROVE Get(index, k) = memtable[k] /\ Found(k) = memtable[k]
  <2>1. CASE memtable[k] = Absent
    <3>1. ASSUME NEW n \in 1 .. Len(entries), entries[n][1] = k PROVE FALSE
      <4>1. entries[n][2] \in Values \cup {NoValue} /\ entries[n][2] = Absent
        BY <1>1, <1>2, <2>1, <3>1, ElementOfSeq DEF Entry
      <4> QED
        BY <4>1, ValuesAssumption
    <3> QED
      BY <1>1, <1>3, <2>1, <3>1, IndexAnswers
  <2>2. CASE memtable[k] # Absent
    <3>1. PICK n \in 1 .. Len(entries) : entries[n][1] = k
      BY <1>2, <2>2
    <3>2. entries[n][2] = memtable[k]
      BY <1>2, <3>1
    <3> QED
      BY <1>1, <1>3, <3>1, <3>2, IndexAnswers
  <2> QED
    BY <2>1, <2>2
<1> QED
  BY <1>1, <1>3, <1>4

\* A finished table answers for every key what was written, whoever opens it, if
\* no value is as long as 4 GiB (sstable.rs, get and open).
THEOREM TablesAnswer == ASSUME ValuesFit PROVE FlushSpec => []GetsRight
<1>1. MemInv /\ FileInv => GetsRight
  BY Answers, OpenedIndexIs DEF GetsRight
<1> QED
  BY <1>1, FileInductive, PTL

\* A scan of a finished table yields what was written, in order, and stops at the
\* index (sstable.rs, iter_entries).
THEOREM TablesIterate == ASSUME ValuesFit PROVE FlushSpec => []IteratesRight
<1>1. MemInv /\ FileInv => IteratesRight
  BY IteratedIs DEF IteratesRight, FileInv
<1> QED
  BY <1>1, FileInductive, PTL

\* When a flush clears the memtable, the table answers as it did (lsm.rs:167-170).
THEOREM FlushesKeep == ASSUME ValuesFit PROVE FlushSpec => FlushKeepsAll
<1>1. MemInv /\ FileInv /\ [FlushNext]_<<writer, source>>
        => [M!FlushReturns
              => \A k \in ToSet(Keys) : Get(OpenedIndex, k) = M!Get(k)]_<<writer, source>>
  <2> SUFFICES ASSUME MemInv, FileInv, [FlushNext]_<<writer, source>>, M!FlushReturns
               PROVE  \A k \in ToSet(Keys) : Get(OpenedIndex, k) = M!Get(k)
    OBVIOUS
  <2>1. call = "flushing" /\ call' = "idle" /\ memtable' = M!Cleared /\ Present # {}
    BY DEF M!FlushReturns, MemInv
  <2>2. memtable' # memtable
    BY <2>1 DEF M!Cleared, Present
  <2>3. stage = "done"
    BY <2>1, <2>2 DEF FlushNext, Use, FlushStarts, WriteTable, FlushReturns, FlushFails,
       M!Replay, M!Write, M!Opened, M!StaysBelow, M!Flushes, M!FlushFails, writer, source
  <2> QED
    BY <2>3, Answers, OpenedIndexIs DEF M!Get
<1> QED
  BY <1>1, FileInductive, PTL DEF FlushSpec, FlushKeepsAll

-----------------------------------------------------------------------------
(* The writer by itself *)

\* What write_sorted is given, by a flush or by a compaction: entries in ascending
\* order of their keys.
Tabular == {s \in Seq(Entry) : Ascend(s)}
Writing == (\E list \in Tabular : Create(list)) \/ Write \/ Close
WriterSpec == NoFile /\ [][Writing]_writer

\* Any table that is finished, from a memtable or from a merge, answers and
\* iterates as it was given: what is given in ascending order leaves an index that
\* the binary search finds every key in (sstable.rs:59-61, 185).
THEOREM AnyTable == ASSUME ValuesFit PROVE WriterSpec => [](GetsRight /\ IteratesRight)
<1> DEFINE Inv == FileLaid /\ Ascend(entries)
<1>1. NoFile => Inv
  <2> SUFFICES ASSUME NoFile PROVE Inv
    OBVIOUS
  <2>1. /\ entries = <<>> /\ stage = "none" /\ <<>> \in Seq(Entry) /\ DOMAIN entries = {}
        /\ written = 0 /\ file = <<>> /\ index = <<>> /\ offset = 0
    BY DEF NoFile
  <2> QED
    BY <2>1, BegunFile DEF FileLaid, Ascend
<1>2. Inv /\ [Writing]_writer => Inv'
  <2> SUFFICES ASSUME Inv, [Writing]_writer PROVE Inv'
    OBVIOUS
  <2>1. ASSUME NEW list \in Tabular, Create(list) PROVE Inv'
    <3>1. entries' = list /\ list \in Seq(Entry) /\ NewFile("entries") /\ Ascend(list)
      BY <2>1 DEF Create, Tabular
    <3> QED
      BY <3>1, BegunLaid DEF Ascend
  <2>2. CASE Write \/ UNCHANGED writer
    <3>1. entries' = entries
      BY <2>2 DEF Write, WriteEntry, WriteIndex, WriteFooter, writer
    <3> QED
      BY <2>2, <3>1, WriterKeepsLaid DEF Ascend
  <2>3. CASE Close
    <3>1. entries' = <<>> /\ <<>> \in Seq(Entry) /\ NewFile("none") /\ DOMAIN <<>> = {}
      BY <2>3 DEF Close
    <3> QED
      BY <3>1, BegunLaid DEF Ascend
  <2> QED
    BY <2>1, <2>2, <2>3 DEF Writing
<1>3. Inv => GetsRight /\ IteratesRight
  BY IndexAnswers, OpenedIndexIs, IteratedIs DEF GetsRight, IteratesRight
<1> QED
  BY <1>1, <1>2, <1>3, PTL DEF WriterSpec
=============================================================================
