----------------------------- MODULE EngineProofs -----------------------------
(***************************************************************************)
(* The calls of Engine, for any number of threads, calls, keys and tables: *)
(* what a thread under a read guard sees is one state of the tree, and     *)
(* each call takes effect at one moment, as AtomicMap has it.              *)
(***************************************************************************)
EXTENDS Engine, OrderingProofs, SequenceTheorems

PcType == pc \in [Threads -> {"idle", "waiting", "dead"} \cup Reading \cup Writing]
RequestType == request \in [Threads -> Requests]

\* Who has a guard is told by where the threads are.
GuardsMatch == /\ readers = {t \in Threads : pc[t] \in Reading}
               /\ writer \in Threads \cup {NoThread}
               /\ \A t \in Threads : pc[t] \in Writing <=> writer = t

Exclusive == writer # NoThread => readers = {}

\* A table is in hand only of a writer about to list it, or of one that died.
HandOfWriter == inHand # <<>> => poisoned \/ \E t \in Threads : pc[t] = "list"

IInv == PcType /\ RequestType /\ GuardsMatch /\ Exclusive /\ NoGuardAfterPanic
        /\ HandOfWriter

LEMMA InitIInv == Init => IInv
<1> SUFFICES ASSUME Init PROVE IInv
  OBVIOUS
<1>1. [op |-> "count"] \in Requests
  BY DEF Requests, Reads
<1> QED
  BY <1>1, ThreadsAssumption
  DEF Init, IInv, PcType, RequestType, GuardsMatch, Exclusive, NoGuardAfterPanic,
      HandOfWriter, Reading, Writing

\* Leaving a call gives up the guard it may have, and listed what it made.
LEMMA LeaveIInv ==
  ASSUME IInv, NEW t \in Threads, NEW a, Leave(t, a),
         inHand' = <<>> \/ (pc[t] # "list" /\ inHand' = inHand)
  PROVE  IInv'
<1> USE ThreadsAssumption DEF IInv, PcType, RequestType, GuardsMatch, Leave
<1>1. PcType' /\ RequestType'
  OBVIOUS
<1>2. GuardsMatch'
  BY DEF Reading, Writing
<1>3. Exclusive' /\ NoGuardAfterPanic'
  BY DEF Exclusive, NoGuardAfterPanic
<1>4. HandOfWriter'
  BY DEF HandOfWriter
<1> QED
  BY <1>1, <1>2, <1>3, <1>4

\* A writer goes on from one step to the next.
LEMMA GoOnIInv ==
  ASSUME IInv, NEW t \in Threads, NEW p \in Writing,
         pc[t] \in Writing, pc' = [pc EXCEPT ![t] = p],
         UNCHANGED <<lock, local>>,
         p = "list" \/ (pc[t] # "list" /\ inHand' = inHand)
  PROVE  IInv'
<1> USE ThreadsAssumption
    DEF IInv, PcType, RequestType, GuardsMatch, lock, local
<1>1. PcType' /\ RequestType'
  OBVIOUS
<1>2. GuardsMatch'
  BY DEF Reading, Writing
<1>3. Exclusive' /\ NoGuardAfterPanic'
  BY DEF Exclusive, NoGuardAfterPanic
<1>4. HandOfWriter'
  BY DEF HandOfWriter
<1> QED
  BY <1>1, <1>2, <1>3, <1>4

LEMMA NextIInv == IInv /\ [Next]_vars => IInv'
<1> SUFFICES ASSUME IInv, [Next]_vars PROVE IInv'
  OBVIOUS
<1>1. CASE UNCHANGED vars
  BY <1>1 DEF vars, lock, tree, local, IInv, PcType, RequestType, GuardsMatch,
              Exclusive, NoGuardAfterPanic, HandOfWriter
<1>2. ASSUME NEW t \in Threads, NEW r \in Requests, Call(t, r) PROVE IInv'
  <2> USE <1>2 DEF IInv, PcType, RequestType, GuardsMatch, Call, MayCall, lock, tree
  <2>1. PcType' /\ RequestType'
    OBVIOUS
  <2>2. GuardsMatch'
    BY DEF Reading, Writing
  <2>3. Exclusive' /\ NoGuardAfterPanic' /\ HandOfWriter'
    BY DEF Exclusive, NoGuardAfterPanic, HandOfWriter
  <2> QED
    BY <2>1, <2>2, <2>3
<1>3. ASSUME NEW t \in Threads, Poisoned(t) PROVE IInv'
  BY <1>3, LeaveIInv DEF Poisoned, tree
<1>4. ASSUME NEW t \in Threads, Read(t) PROVE IInv'
  <2> USE <1>4 DEF IInv, PcType, RequestType, GuardsMatch, Read, IsRead, tree, local,
                   MayRead, Refused
  <2>1. PcType' /\ RequestType'
    BY DEF Reading
  <2>2. GuardsMatch'
    BY DEF Reading, Writing
  <2>3. Exclusive' /\ NoGuardAfterPanic' /\ HandOfWriter'
    BY DEF Exclusive, NoGuardAfterPanic, HandOfWriter
  <2> QED
    BY <2>1, <2>2, <2>3
<1>5. ASSUME NEW t \in Threads, Write(t) PROVE IInv'
  <2> USE <1>5 DEF IInv, PcType, RequestType, GuardsMatch, Write, tree, local,
                   MayWrite, Refused
  <2>1. request[t].op \in {"get", "scan", "count", "put", "delete", "flush", "compact"}
    BY DEF Requests, Reads
  <2>2. pc'[t] \in {"log", "flush", "compact"}
    BY <2>1 DEF IsRead
  <2>3. pc' = [pc EXCEPT ![t] = pc'[t]]
    OBVIOUS
  <2>4. PcType' /\ RequestType'
    BY <2>2, <2>3 DEF Writing
  <2>5. GuardsMatch'
    BY <2>2, <2>3, ThreadsAssumption DEF Reading, Writing
  <2>6. Exclusive' /\ NoGuardAfterPanic'
    BY DEF Exclusive, NoGuardAfterPanic
  <2>7. HandOfWriter'
    BY DEF HandOfWriter
  <2> QED
    BY <2>4, <2>5, <2>6, <2>7
<1>6. ASSUME NEW t \in Threads, Get(t) PROVE IInv'
  <2>1. CASE UNCHANGED <<lock, tree, pc, request, rows, answer, calls>>
    BY <2>1 DEF lock, tree, IInv, PcType, RequestType, GuardsMatch, Exclusive,
                NoGuardAfterPanic, HandOfWriter
  <2>2. ASSUME NEW a, pc[t] = "get", Leave(t, a), UNCHANGED tree PROVE IInv'
    BY <2>2, LeaveIInv DEF tree
  <2> QED
    BY <1>6, <2>1, <2>2 DEF Get
<1>7. ASSUME NEW t \in Threads, ScanNext(t) PROVE IInv'
  BY <1>7 DEF ScanNext, lock, tree, IInv, PcType, RequestType, GuardsMatch, Exclusive,
              NoGuardAfterPanic, HandOfWriter
<1>8. ASSUME NEW t \in Threads, ScanDrop(t) PROVE IInv'
  BY <1>8, LeaveIInv DEF ScanDrop, tree
<1>9. ASSUME NEW t \in Threads, Log(t) PROVE IInv'
  BY <1>9, GoOnIInv DEF Log, tree, Writing
<1>10. ASSUME NEW t \in Threads, Insert(t) PROVE IInv'
  BY <1>10, GoOnIInv DEF Insert, lock, local, Writing
<1>11. ASSUME NEW t \in Threads, FlushIfFull(t) PROVE IInv'
  <2>1. ASSUME Leave(t, Done) PROVE IInv'
    BY <1>11, <2>1, LeaveIInv DEF FlushIfFull, tree
  <2>2. ASSUME pc' = [pc EXCEPT ![t] = "flush"], UNCHANGED <<lock, local>> PROVE IInv'
    BY <1>11, <2>2, GoOnIInv DEF FlushIfFull, tree, Writing
  <2> QED
    BY <1>11, <2>1, <2>2 DEF FlushIfFull, FlushWithin
<1>12. ASSUME NEW t \in Threads, FlushClear(t) PROVE IInv'
  BY <1>12, GoOnIInv DEF FlushClear, lock, local, Writing
<1>13. ASSUME NEW t \in Threads, FlushNothing(t) PROVE IInv'
  BY <1>13, LeaveIInv DEF FlushNothing, tree
<1>14. ASSUME NEW t \in Threads, CompactTake(t) PROVE IInv'
  <2>1. pc[t] = "compact" /\ pc' = [pc EXCEPT ![t] = "list"] /\ UNCHANGED <<lock, local>>
    BY <1>14 DEF CompactTake, lock, local
  <2> QED
    BY <2>1, GoOnIInv DEF Writing
<1>15. ASSUME NEW t \in Threads, CompactNothing(t) PROVE IInv'
  BY <1>15, LeaveIInv DEF CompactNothing, tree
<1>16. ASSUME NEW t \in Threads, List(t) PROVE IInv'
  <2>1. inHand' = <<>>
    BY <1>16 DEF List
  <2>2. ASSUME NEW a, Leave(t, a) PROVE IInv'
    BY <2>1, <2>2, LeaveIInv
  <2> QED
    BY <1>16, <2>2 DEF List
<1>17. ASSUME NEW t \in Threads, Fails(t) PROVE IInv'
  BY <1>17, LeaveIInv DEF Fails, tree
<1>18. ASSUME NEW t \in Threads, Count(t) PROVE IInv'
  BY <1>18, LeaveIInv DEF Count, tree
<1>19. ASSUME NEW t \in Threads, ScanAgain(t) PROVE IInv'
  BY <1>19 DEF ScanAgain, lock, tree, IInv, PcType, RequestType, GuardsMatch, Exclusive,
               NoGuardAfterPanic, HandOfWriter
<1>20. ASSUME NEW t \in Threads, Panic(t) PROVE IInv'
  <2> USE <1>20, ThreadsAssumption
      DEF IInv, PcType, RequestType, GuardsMatch, Panic, tree, local
  <2>1. PcType' /\ RequestType'
    OBVIOUS
  <2>2. GuardsMatch'
    BY DEF Reading, Writing
  <2>3. Exclusive' /\ NoGuardAfterPanic' /\ HandOfWriter'
    BY DEF Exclusive, NoGuardAfterPanic, HandOfWriter
  <2> QED
    BY <2>1, <2>2, <2>3
<1> QED
  BY <1>1, <1>2, <1>3, <1>4, <1>5, <1>6, <1>7, <1>8, <1>9, <1>10, <1>11, <1>12,
     <1>13, <1>14, <1>15, <1>16, <1>17, <1>18, <1>19, <1>20
  DEF Next, Step

\* The invariant of the guards holds throughout.
THEOREM GuardsInductive == Spec => []IInv
<1>1. Init => IInv
  BY InitIInv
<1>2. IInv /\ [Next]_vars => IInv'
  BY NextIInv
<1> QED
  BY <1>1, <1>2, PTL DEF Spec

\* After a panic no thread gets a guard (engine.rs:64, 76).
THEOREM PoisonHolds == Spec => []NoGuardAfterPanic
  BY GuardsInductive, PTL DEF IInv

\* Nobody reads between memtable.clear and sstables.insert (lsm.rs:170-172).
THEOREM FlushUnseen == Spec => []NeverHalfFlushed
<1>1. IInv => NeverHalfFlushed
  <2> SUFFICES ASSUME IInv, inHand # <<>> PROVE readers = {}
    BY DEF NeverHalfFlushed
  <2>1. CASE poisoned
    BY <2>1 DEF IInv, NoGuardAfterPanic
  <2>2. CASE \E t \in Threads : pc[t] = "list"
    <3>1. PICK t \in Threads : writer = t
      BY <2>2 DEF IInv, GuardsMatch, Writing
    <3> QED
      BY <3>1, ThreadsAssumption DEF IInv, Exclusive
  <2> QED
    BY <2>1, <2>2 DEF IInv, HandOfWriter
<1> QED
  BY <1>1, GuardsInductive, PTL

\* Only a thread with the write guard changes the tree.
LEMMA OnlyWriters ==
  ASSUME IInv, [Next]_vars, tree' # tree
  PROVE  writer \in Threads
<1>1. PICK t \in Threads : \/ \E r \in Requests : Call(t, r)
                           \/ Step(t) \/ ScanAgain(t)
                           \/ Panic(t)
  BY DEF Next, vars
<1>2. pc[t] \in {"memtable", "flush", "compact", "list"}
  BY <1>1 DEF Call, Panic, Step, Poisoned, Read, Write, Get, ScanNext, ScanDrop, ScanAgain,
     Count, Log, Insert, FlushIfFull, FlushClear, FlushNothing, CompactTake, CompactNothing, List,
     Fails
<1> QED
  BY <1>2 DEF IInv, GuardsMatch, Writing

\* Under a read guard the tree stays as it is (engine.rs:15, scan and get).
THEOREM ViewsStable == Spec => ViewStable
<1>1. IInv /\ [Next]_vars =>
        [\A t \in Threads : t \in readers /\ t \in readers' => UNCHANGED tree]_vars
  BY OnlyWriters, ThreadsAssumption DEF IInv, Exclusive
<1> QED
  BY <1>1, GuardsInductive, PTL DEF Spec, ViewStable

-----------------------------------------------------------------------------
(***************************************************************************)
(* The inductive invariant: what each thread is about, and how far its     *)
(* read has come in the tree that its guard keeps as it is.                *)
(***************************************************************************)
WritesAsked(t) ==
  /\ pc[t] \in Reading => request[t].op = pc[t]
  /\ pc[t] \in Writing => request[t].op \in {"put", "delete", "flush", "compact"}
  /\ pc[t] \in {"log", "memtable"} => request[t].op \in {"put", "delete"}

Fresh(t) == pc[t] = "waiting" => at[t] = 1 /\ rows[t] = <<>>

\* No layer that a get has passed knows its key.
GetSearched(t) == pc[t] = "get" =>
  /\ at[t] <= Len(Layers) + 1
  /\ \A n \in 1 .. Len(Layers) : n < at[t] => Layers[n][request[t].key] = "NotFound"

\* The rows of a scan are those of the map up to the key it has come to.
ScanFound(t) == pc[t] = "scan" =>
  /\ at[t] <= MaxKey + 1
  /\ rows[t] = [k \in {x \in request[t].selection : x < at[t]} |-> View[k]]

Progress(t) == WritesAsked(t) /\ Fresh(t) /\ GetSearched(t) /\ ScanFound(t)

AInv == IInv /\ TypeOK /\ \A t \in Threads : Progress(t)

-----------------------------------------------------------------------------
(* The search of the layers *)

\* No layer knows the key.
LEMMA NewestMiss ==
  ASSUME NEW s, NEW k, \A n \in 1 .. Len(s) : s[n][k] = "NotFound"
  PROVE  Newest(s, k) = "NotFound"
BY DEF Newest

\* A layer that knows the key, with none before it that does, decides.
LEMMA NewestHit ==
  ASSUME NEW s, Len(s) \in Nat, NEW k, NEW n \in 1 .. Len(s), s[n][k] # "NotFound",
         \A m \in 1 .. Len(s) : m < n => s[m][k] = "NotFound"
  PROVE  Newest(s, k) = s[n][k]
<1> DEFINE hits == {m \in 1 .. Len(s) : s[m][k] # "NotFound"}
           least == CHOOSE i \in hits : \A m \in hits : i <= m
<1>1. n \in hits /\ hits \in SUBSET Nat
  OBVIOUS
<1>2. least \in hits /\ least <= n
  BY <1>1, LeastOf
<1>3. least = n
  BY <1>1, <1>2
<1>4. Newest(s, k) = s[least][k]
  BY <1>1 DEF Newest
<1> QED
  BY <1>3, <1>4

LEMMA NewestExists ==
  ASSUME NEW s, Len(s) \in Nat, NEW k, \E n \in 1 .. Len(s) : s[n][k] # "NotFound"
  PROVE  \E n \in 1 .. Len(s) :
           /\ s[n][k] # "NotFound"
           /\ \A m \in 1 .. Len(s) : m < n => s[m][k] = "NotFound"
           /\ Newest(s, k) = s[n][k]
<1> DEFINE hits == {m \in 1 .. Len(s) : s[m][k] # "NotFound"}
           least == CHOOSE i \in hits : \A m \in hits : i <= m
<1>1. hits # {} /\ hits \in SUBSET Nat
  OBVIOUS
<1>2. least \in hits /\ \A m \in hits : least <= m
  BY <1>1, LeastOf
<1> HIDE DEF least
<1>3. \A m \in 1 .. Len(s) : m < least => s[m][k] = "NotFound"
  BY <1>2
<1>4. least \in 1 .. Len(s) /\ s[least][k] # "NotFound"
  BY <1>2
<1> QED
  BY <1>3, <1>4, NewestHit

\* One entry over another.
Over(e, f) == IF e # "NotFound" THEN e ELSE f

\* A longer list is searched from its front.
LEMMA NewestConcat ==
  ASSUME NEW s \in Seq(Layer), NEW t \in Seq(Layer), NEW k \in Keys
  PROVE  /\ s \o t \in Seq(Layer)
         /\ Newest(s \o t, k) = Over(Newest(s, k), Newest(t, k))
<1> DEFINE both == s \o t
<1>1. /\ both \in Seq(Layer)
      /\ Len(both) = Len(s) + Len(t)
      /\ \A i \in 1 .. Len(s) + Len(t) :
           both[i] = IF i <= Len(s) THEN s[i] ELSE t[i - Len(s)]
  BY ConcatProperties
<1>2. Len(s) \in Nat /\ Len(t) \in Nat /\ Len(both) \in Nat
  BY <1>1, LenProperties
<1>3. /\ \A i \in 1 .. Len(s) : i \in 1 .. Len(both) /\ both[i] = s[i]
      /\ \A i \in 1 .. Len(t) :
           i + Len(s) \in 1 .. Len(both) /\ both[i + Len(s)] = t[i]
      /\ \A i \in 1 .. Len(both) :
           \/ i \in 1 .. Len(s)
           \/ i > Len(s) /\ i - Len(s) \in 1 .. Len(t) /\ both[i] = t[i - Len(s)]
  BY <1>1, <1>2
<1> HIDE DEF both
<1>4. CASE \E n \in 1 .. Len(s) : s[n][k] # "NotFound"
  <2>1. PICK n \in 1 .. Len(s) : /\ s[n][k] # "NotFound"
                                 /\ \A m \in 1 .. Len(s) : m < n => s[m][k] = "NotFound"
                                 /\ Newest(s, k) = s[n][k]
    BY <1>2, <1>4, NewestExists
  <2>2. \A m \in 1 .. Len(both) : m < n => both[m][k] = "NotFound"
    BY <1>2, <1>3, <2>1
  <2>3. n \in 1 .. Len(both) /\ both[n] = s[n]
    BY <1>3
  <2>4. Newest(both, k) = both[n][k]
    BY <1>2, <2>1, <2>2, <2>3, NewestHit
  <2>5. Newest(both, k) = Over(Newest(s, k), Newest(t, k))
    BY <2>1, <2>3, <2>4 DEF Over
  <2> QED
    BY <1>1, <2>5, Zenon DEF both
<1>5. CASE /\ \A n \in 1 .. Len(s) : s[n][k] = "NotFound"
           /\ \E n \in 1 .. Len(t) : t[n][k] # "NotFound"
  <2>1. PICK n \in 1 .. Len(t) : /\ t[n][k] # "NotFound"
                                 /\ \A m \in 1 .. Len(t) : m < n => t[m][k] = "NotFound"
                                 /\ Newest(t, k) = t[n][k]
    BY <1>2, <1>5, NewestExists
  <2> DEFINE i == n + Len(s)
  <2>2. i \in 1 .. Len(both) /\ both[i] = t[n]
    BY <1>3
  <2>3. ASSUME NEW m \in 1 .. Len(both), m < i PROVE both[m][k] = "NotFound"
    <3>1. CASE m \in 1 .. Len(s)
      BY <1>3, <1>5, <3>1
    <3>2. CASE m > Len(s) /\ m - Len(s) \in 1 .. Len(t) /\ both[m] = t[m - Len(s)]
      <4>1. m - Len(s) < n
        BY <1>2, <2>3
      <4> QED
        BY <2>1, <3>2, <4>1
    <3> QED
      BY <1>3, <3>1, <3>2
  <2>4. Newest(both, k) = both[i][k]
    BY <1>2, <2>1, <2>2, <2>3, NewestHit
  <2>5. Newest(s, k) = "NotFound"
    BY <1>5, NewestMiss
  <2>6. Newest(both, k) = Over(Newest(s, k), Newest(t, k))
    BY <2>1, <2>2, <2>4, <2>5 DEF Over
  <2> QED
    BY <1>1, <2>6, Zenon DEF both
<1>6. CASE /\ \A n \in 1 .. Len(s) : s[n][k] = "NotFound"
           /\ \A n \in 1 .. Len(t) : t[n][k] = "NotFound"
  <2>1. \A m \in 1 .. Len(both) : both[m][k] = "NotFound"
    BY <1>3, <1>6
  <2>2. Newest(both, k) = Over(Newest(s, k), Newest(t, k))
    BY <1>6, <2>1, NewestMiss DEF Over
  <2> QED
    BY <1>1, <2>2, Zenon DEF both
<1> QED
  BY <1>4, <1>5, <1>6

\* Lists of one layer, and of none.
LEMMA NewestShort ==
  ASSUME NEW m \in Layer, NEW k \in Keys
  PROVE  /\ <<m>> \in Seq(Layer) /\ Newest(<<m>>, k) = m[k]
         /\ <<>> \in Seq(Layer) /\ Newest(<<>>, k) = "NotFound"
<1> DEFINE s == <<m>>
<1>1. Len(s) = 1 /\ s[1] = m /\ s \in Seq(Layer)
  OBVIOUS
<1> HIDE DEF s
<1>2. Newest(s, k) = m[k]
  <2>1. CASE m[k] = "NotFound"
    BY <1>1, <2>1, NewestMiss
  <2>2. CASE m[k] # "NotFound"
    <3>1. 1 \in 1 .. Len(s) /\ s[1][k] # "NotFound" /\ Len(s) \in Nat
      BY <1>1, <2>2
    <3>2. \A i \in 1 .. Len(s) : i < 1 => s[i][k] = "NotFound"
      BY <1>1
    <3> QED
      BY <1>1, <3>1, <3>2, NewestHit
  <2> QED
    BY <2>1, <2>2
<1>3. <<>> \in Seq(Layer) /\ Len(<<>>) = 0
  BY EmptySeq
<1>4. Newest(<<>>, k) = "NotFound"
  BY <1>3, NewestMiss
<1> QED
  BY <1>1, <1>2, <1>3, <1>4 DEF s

LEMMA NewestType ==
  ASSUME NEW s \in Seq(Layer), NEW k \in Keys
  PROVE  Newest(s, k) \in Entries
<1>1. Len(s) \in Nat /\ \A n \in 1 .. Len(s) : s[n] \in Layer
  BY LenProperties, ElementOfSeq
<1>2. CASE \A n \in 1 .. Len(s) : s[n][k] = "NotFound"
  BY <1>2, NewestMiss DEF Entries
<1>3. CASE \E n \in 1 .. Len(s) : s[n][k] # "NotFound"
  <2>1. PICK n \in 1 .. Len(s) : Newest(s, k) = s[n][k]
    BY <1>1, <1>3, NewestExists
  <2> QED
    BY <1>1, <2>1 DEF Layer
<1> QED
  BY <1>2, <1>3

\* The first layers of a list.
LEMMA Prefix ==
  ASSUME NEW s \in Seq(Layer), NEW n \in 0 .. Len(s)
  PROVE  /\ SubSeq(s, 1, n) \in Seq(Layer)
         /\ Len(SubSeq(s, 1, n)) = n
         /\ \A i \in 1 .. n : SubSeq(s, 1, n)[i] = s[i]
<1>1. Len(s) \in Nat /\ \A i \in 1 .. Len(s) : s[i] \in Layer
  BY LenProperties, ElementOfSeq
<1>2. \A i \in 1 .. n : s[i] \in Layer
  BY <1>1
<1>3. /\ SubSeq(s, 1, n) \in Seq(Layer)
      /\ Len(SubSeq(s, 1, n)) = IF 1 <= n THEN n - 1 + 1 ELSE 0
      /\ \A i \in 1 .. n - 1 + 1 : SubSeq(s, 1, n)[i] = s[1 + i - 1]
  BY <1>1, <1>2, SubSeqProperties
<1>4. /\ \A i \in 1 .. n : i \in 1 .. n - 1 + 1 /\ 1 + i - 1 = i
      /\ (IF 1 <= n THEN n - 1 + 1 ELSE 0) = n
  BY <1>1
<1> QED
  BY <1>3, <1>4

\* They know of a key what the list knows, or nothing.
LEMMA NewestPrefix ==
  ASSUME NEW s \in Seq(Layer), NEW n \in 0 .. Len(s), NEW k \in Keys
  PROVE  Newest(SubSeq(s, 1, n), k) \in {"NotFound", Newest(s, k)}
<1> DEFINE p == SubSeq(s, 1, n)
<1>1. Len(s) \in Nat
  BY LenProperties
<1>2. Len(p) = n /\ \A i \in 1 .. n : p[i] = s[i]
  BY Prefix
<1> HIDE DEF p
<1>3. ASSUME \A i \in 1 .. n : p[i][k] = "NotFound"
      PROVE  Newest(p, k) \in {"NotFound", Newest(s, k)}
  BY <1>2, <1>3, NewestMiss
<1>4. ASSUME \E i \in 1 .. n : p[i][k] # "NotFound"
      PROVE  Newest(p, k) \in {"NotFound", Newest(s, k)}
  <2>1. Len(p) \in Nat /\ \E i \in 1 .. Len(p) : p[i][k] # "NotFound"
    BY <1>1, <1>2, <1>4
  <2>2. \E i \in 1 .. Len(p) : /\ p[i][k] # "NotFound"
                               /\ \A m \in 1 .. Len(p) : m < i => p[m][k] = "NotFound"
                               /\ Newest(p, k) = p[i][k]
    BY <2>1, NewestExists
  <2>3. PICK i \in 1 .. n : /\ p[i][k] # "NotFound"
                            /\ \A m \in 1 .. n : m < i => p[m][k] = "NotFound"
                            /\ Newest(p, k) = p[i][k]
    BY <1>2, <2>2
  <2>4. i \in 1 .. Len(s) /\ \A m \in 1 .. Len(s) : m < i => m \in 1 .. n
    BY <1>1
  <2>5. Newest(s, k) = s[i][k]
    BY <1>1, <1>2, <2>3, <2>4, NewestHit
  <2> QED
    BY <1>2, <2>3, <2>5
<1> QED
  BY <1>2, <1>3, <1>4 DEF p

-----------------------------------------------------------------------------
(* What the tree reads as *)

TreeType == memtable \in Layer /\ sstables \in Seq(Layer) /\ inHand \in Seq(Layer)

\* The view of a tree made of these layers.
LEMMA ViewOf ==
  ASSUME NEW m \in Layer, NEW h \in Seq(Layer), NEW s \in Seq(Layer), NEW k \in Keys
  PROVE  Newest(<<m>> \o h \o s, k) = Over(m[k], Over(Newest(h, k), Newest(s, k)))
<1> DEFINE one == <<m>>
<1>1. one \in Seq(Layer) /\ Newest(one, k) = m[k]
  BY NewestShort
<1> HIDE DEF one
<1>2. one \o h \in Seq(Layer) /\ Newest(one \o h, k) = Over(m[k], Newest(h, k))
  BY <1>1, NewestConcat
<1>3. Newest((one \o h) \o s, k) = Over(Newest(one \o h, k), Newest(s, k))
  BY <1>2, NewestConcat
<1>4. Newest((one \o h) \o s, k) = Over(m[k], Over(Newest(h, k), Newest(s, k)))
  BY <1>2, <1>3 DEF Over
<1> QED
  BY <1>4 DEF one

LEMMA ViewAt ==
  ASSUME TreeType, NEW k \in Keys
  PROVE  /\ View[k] = ToOption(Over(memtable[k], Over(Newest(inHand, k), Newest(sstables, k))))
         /\ View[k] \in Values \cup {None}
<1>1. View[k] = ToOption(Over(memtable[k], Over(Newest(inHand, k), Newest(sstables, k))))
  BY ViewOf DEF TreeType, View
<1>2. /\ memtable[k] \in Entries
      /\ Newest(inHand, k) \in Entries /\ Newest(sstables, k) \in Entries
  BY NewestType DEF TreeType, Layer
<1> QED
  BY <1>1, <1>2 DEF Over, ToOption, Entries

\* Without a table in hand the view is what the layers hold.
LEMMA ViewLayers ==
  ASSUME TreeType, inHand = <<>>, NEW k \in Keys
  PROVE  /\ View[k] = ToOption(Newest(Layers, k))
         /\ Layers \in Seq(Layer)
<1> DEFINE one == <<memtable>>
<1>1. one \in Seq(Layer) /\ Newest(one, k) = memtable[k] /\ Newest(<<>>, k) = "NotFound"
  BY NewestShort DEF TreeType
<1> HIDE DEF one
<1>2. one \o sstables \in Seq(Layer)
      /\ Newest(one \o sstables, k) = Over(memtable[k], Newest(sstables, k))
  BY <1>1, NewestConcat DEF TreeType
<1>3. View[k] = ToOption(Over(memtable[k], Newest(sstables, k)))
  BY <1>1, ViewAt DEF Over
<1> QED
  BY <1>2, <1>3 DEF one, Layers

\* Who has a guard finds no table in hand, and so does a writer before it makes one.
LEMMA HandEmpty ==
  ASSUME IInv, NEW t \in Threads,
         t \in readers \/ pc[t] \in Reading \cup (Writing \ {"list"})
  PROVE  inHand = <<>>
<1>1. CASE t \in readers \/ pc[t] \in Reading
  <2>1. readers # {} /\ writer = NoThread /\ ~poisoned
    BY <1>1, ThreadsAssumption DEF IInv, GuardsMatch, Exclusive, NoGuardAfterPanic
  <2>2. \A u \in Threads : pc[u] # "list"
    BY <2>1, ThreadsAssumption DEF IInv, GuardsMatch, Writing
  <2> QED
    BY <2>1, <2>2 DEF IInv, HandOfWriter
<1>2. CASE pc[t] \in Writing \ {"list"}
  <2>1. writer = t /\ ~poisoned
    BY <1>2, ThreadsAssumption DEF IInv, GuardsMatch, NoGuardAfterPanic
  <2>2. \A u \in Threads : pc[u] # "list"
    BY <1>2, <2>1 DEF IInv, GuardsMatch, Writing
  <2> QED
    BY <2>1, <2>2 DEF IInv, HandOfWriter
<1> QED
  BY <1>1, <1>2

\* With a writer at work nobody reads.
LEMMA WriterAlone ==
  ASSUME IInv, NEW t \in Threads, pc[t] \in Writing
  PROVE  /\ readers = {} /\ writer = t
         /\ \A u \in Threads : u # t => pc[u] \in {"idle", "waiting", "dead"}
BY ThreadsAssumption DEF IInv, PcType, GuardsMatch, Exclusive

\* No step of a writer but Insert changes what the tree reads as.
LEMMA FlushClearView ==
  ASSUME TreeType, TreeType', inHand = <<>>, NEW t, FlushClear(t)
  PROVE  View' = View
<1> SUFFICES ASSUME NEW k \in Keys PROVE View'[k] = View[k]
  BY DEF View
<1>1. Newest(inHand, k) = "NotFound" /\ memtable'[k] = "NotFound"
  BY NewestShort DEF TreeType, FlushClear, Blank
<1>2. Newest(inHand', k) = memtable[k]
  BY NewestShort DEF TreeType, FlushClear
<1>3. sstables' = sstables
  BY DEF FlushClear
<1>4. View'[k] = ToOption(Over(memtable'[k], Over(Newest(inHand', k), Newest(sstables', k))))
  BY ViewOf DEF TreeType, View
<1> QED
  BY <1>1, <1>2, <1>3, <1>4, ViewAt DEF Over

LEMMA CompactTakeView ==
  ASSUME TreeType, inHand = <<>>, NEW t, CompactTake(t)
  PROVE  TreeType' /\ View' = View
<1>1. PICK n \in 0 .. Len(sstables) : inHand' = Compacted \o SubSeq(sstables, 1, n)
  BY DEF CompactTake
<1>2. sstables' = <<>> /\ memtable' = memtable /\ sstables \in Seq(Layer)
  BY DEF CompactTake, TreeType
<1> DEFINE kept == SubSeq(sstables, 1, n)
<1>3. kept \in Seq(Layer)
  BY <1>2, Prefix
<1>4. \A k \in Keys : Newest(kept, k) \in {"NotFound", Newest(sstables, k)}
  BY <1>2, NewestPrefix
<1> HIDE DEF kept
<1>5. Merged \in Layer
  <2>1. \A k \in Keys : Newest(sstables, k) \in Entries
    BY <1>2, NewestType
  <2> QED
    BY <2>1 DEF Merged, Layer, Entries
<1>6. /\ Compacted \in Seq(Layer)
      /\ \A k \in Keys : Newest(Compacted, k) = Merged[k]
  <2>1. CASE Merged = Blank
    <3>1. Compacted = <<>> /\ Compacted \in Seq(Layer)
      BY <2>1 DEF Compacted
    <3> QED
      BY <1>5, <2>1, <3>1, NewestShort DEF Blank
  <2>2. CASE Merged # Blank
    <3>1. Compacted = <<Merged>> /\ Compacted \in Seq(Layer)
      BY <1>5, <2>2 DEF Compacted
    <3> QED
      BY <1>5, <3>1, NewestShort
  <2> QED
    BY <2>1, <2>2
<1>7. inHand' \in Seq(Layer)
  BY <1>1, <1>3, <1>6, ConcatProperties DEF kept
<1>8. ASSUME NEW k \in Keys
      PROVE  Newest(inHand', k) = Over(Merged[k], Newest(kept, k))
  <2>1. inHand' = Compacted \o kept
    BY <1>1 DEF kept
  <2>2. Newest(Compacted \o kept, k) = Over(Newest(Compacted, k), Newest(kept, k))
    BY <1>3, <1>6, NewestConcat
  <2>3. Newest(Compacted, k) = Merged[k]
    BY <1>6
  <2> QED
    BY <2>1, <2>2, <2>3, Zenon
<1>9. TreeType'
  BY <1>2, <1>7 DEF TreeType
<1>10. ASSUME NEW k \in Keys PROVE View'[k] = View[k]
  <2>1. Newest(inHand, k) = "NotFound" /\ Newest(sstables', k) = "NotFound"
    BY <1>2, NewestShort DEF TreeType
  <2>2. View'[k] = ToOption(Over(memtable'[k], Over(Newest(inHand', k), Newest(sstables', k))))
    BY <1>9, ViewOf DEF TreeType, View
  <2>3. Merged[k] = IF Newest(sstables, k) = "Deleted" THEN "NotFound" ELSE Newest(sstables, k)
    BY DEF Merged
  <2>4. /\ View'[k] = ToOption(Over(memtable[k], Over(Merged[k], Newest(kept, k))))
        /\ View[k] = ToOption(Over(memtable[k], Newest(sstables, k)))
    BY <1>2, <1>8, <2>1, <2>2, ViewAt DEF Over
  <2> QED
    BY <1>4, <2>3, <2>4 DEF Over, ToOption
<1> QED
  BY <1>9, <1>10 DEF View

LEMMA ListView ==
  ASSUME TreeType, NEW t, List(t)
  PROVE  TreeType' /\ View' = View
<1>1. sstables' = inHand \o sstables /\ inHand' = <<>> /\ memtable' = memtable
  BY DEF List
<1>2. TreeType'
  BY <1>1, ConcatProperties DEF TreeType
<1>3. ASSUME NEW k \in Keys PROVE View'[k] = View[k]
  <2>1. Newest(sstables', k) = Over(Newest(inHand, k), Newest(sstables, k))
    BY <1>1, NewestConcat DEF TreeType
  <2>2. Newest(inHand', k) = "NotFound"
    BY <1>1, NewestShort DEF TreeType
  <2>3. View'[k] = ToOption(Over(memtable'[k], Over(Newest(inHand', k), Newest(sstables', k))))
    BY <1>2, ViewOf DEF TreeType, View
  <2> QED
    BY <1>1, <2>1, <2>2, <2>3, ViewAt DEF Over
<1> QED
  BY <1>2, <1>3 DEF View

\* Insert changes the view as its call asks.
LEMMA InsertView ==
  ASSUME TreeType, NEW t, Insert(t),
         NEW key \in Keys, key = request[t].key,
         NEW e, e = IF request[t].op = "put" THEN request[t].value ELSE "Deleted",
         e \in Values \cup {"Deleted"}
  PROVE  TreeType' /\ View' = [View EXCEPT ![key] = ToOption(e)]
<1>1. memtable' = [memtable EXCEPT ![key] = e] /\ sstables' = sstables /\ inHand' = inHand
  BY DEF Insert
<1>2. TreeType'
  BY <1>1 DEF TreeType, Layer, Entries
<1>3. ASSUME NEW k \in Keys
      PROVE  View'[k] = IF k = key THEN ToOption(e) ELSE View[k]
  <2>1. View'[k] = ToOption(Over(memtable'[k], Over(Newest(inHand', k), Newest(sstables', k))))
    BY <1>2, ViewOf DEF TreeType, View
  <2>2. memtable'[k] = IF k = key THEN e ELSE memtable[k]
    BY <1>1 DEF TreeType, Layer
  <2>3. e # "NotFound"
    BY EntriesAssumption
  <2> QED
    BY <1>1, <2>1, <2>2, <2>3, ViewAt DEF Over
<1> QED
  BY <1>2, <1>3 DEF View

-----------------------------------------------------------------------------
(* Every step keeps the invariant *)

\* What a call carries.
LEMMA RequestFacts ==
  ASSUME NEW r \in Requests
  PROVE  /\ r.op \in {"get", "scan", "count", "put", "delete", "flush", "compact"}
         /\ r.op \in {"get", "put", "delete"} => r.key \in Keys
         /\ r.op = "put" => r.value \in Values
         /\ r.op = "scan" => r.selection \subseteq Keys
<1>1. \A c \in Selections : c \subseteq Keys
  BY DEF Selections
<1> QED
  BY <1>1 DEF Requests, Reads

\* A read starts with no rows.
LEMMA NoRows == [k \in {} |-> View[k]] = <<>> /\ <<>> \in Rows
<1> DEFINE f == [k \in {} |-> View[k]]
<1>1. f \in [1 .. 0 -> {}]
  OBVIOUS
<1>2. f \in Seq({}) /\ Len(f) = 0
  BY <1>1
<1> HIDE DEF f
<1>3. f = <<>>
  BY <1>2, EmptySeq
<1>4. f \in Rows
  <2>1. f \in [{} -> Values \cup {None}] /\ {} \in SUBSET Keys
    BY DEF f
  <2> QED
    BY <2>1 DEF Rows
<1> QED
  BY <1>3, <1>4 DEF f

LEMMA InitAInv == Init => AInv
<1> SUFFICES ASSUME Init PROVE AInv
  OBVIOUS
<1>1. IInv
  BY InitIInv
<1>2. [op |-> "count"] \in Requests
  BY DEF Requests, Reads
<1>3. memtable \in Layer /\ sstables \in Seq(Layer)
  BY StartsAssumption DEF Init
<1>4. inHand \in Seq(Layer)
  BY EmptySeq DEF Init
<1>5. rows \in [Threads -> Rows]
  BY NoRows DEF Init
<1>6. \A t \in Threads : calls[t] <= MaxCalls[t]
  BY CallsAssumption DEF Init
<1>7. TypeOK
  <2>1. /\ request \in [Threads -> Requests]
        /\ at \in [Threads -> Nat \ {0}]
        /\ calls \in [Threads -> Nat]
    BY <1>2 DEF Init
  <2>2. pc \in [Threads -> {"idle", "waiting", "dead"} \cup Reading \cup Writing]
    BY <1>1 DEF IInv, PcType
  <2>3. readers = {} /\ writer = NoThread /\ poisoned = FALSE
    BY DEF Init
  <2> QED
    BY <1>3, <1>4, <1>5, <1>6, <2>1, <2>2, <2>3 DEF TypeOK
<1>8. \A t \in Threads : Progress(t)
  BY DEF Init, Progress, WritesAsked, Fresh, GetSearched, ScanFound, Reading, Writing
<1> QED
  BY <1>1, <1>7, <1>8 DEF AInv

LEMMA TreeTyped == TypeOK => TreeType
BY DEF TypeOK, TreeType

\* A thread that does not move keeps its progress: either the tree stays as it
\* is, or nobody reads it.
LEMMA OthersProgress ==
  ASSUME AInv, NEW u \in Threads,
         pc'[u] = pc[u], request'[u] = request[u], at'[u] = at[u], rows'[u] = rows[u],
         UNCHANGED tree \/ pc[u] \notin Reading
  PROVE  Progress(u)'
<1>1. Progress(u)
  BY DEF AInv
<1>2. WritesAsked(u)' /\ Fresh(u)'
  BY <1>1 DEF Progress, WritesAsked, Fresh
<1>3. CASE UNCHANGED tree
  <2>1. Layers' = Layers /\ View' = View
    BY <1>3 DEF tree, Layers, View
  <2>2. GetSearched(u)'
    BY <1>1, <2>1 DEF Progress, GetSearched
  <2>3. ScanFound(u)'
    BY <1>1, <2>1 DEF Progress, ScanFound
  <2> QED
    BY <1>2, <2>2, <2>3 DEF Progress
<1>4. CASE pc[u] \notin Reading
  BY <1>2, <1>4 DEF Progress, GetSearched, ScanFound, Reading
<1> QED
  BY <1>3, <1>4

\* What the threads' own variables are.
ThreadType ==
  /\ request \in [Threads -> Requests]
  /\ at \in [Threads -> Nat \ {0}]
  /\ calls \in [Threads -> Nat]
  /\ rows \in [Threads -> Rows]
  /\ \A t \in Threads : calls[t] <= MaxCalls[t]

LEMMA TypeParts ==
  TypeOK <=> /\ readers \subseteq Threads /\ writer \in Threads \cup {NoThread}
             /\ poisoned \in BOOLEAN
             /\ pc \in [Threads -> {"idle", "waiting", "dead"} \cup Reading \cup Writing]
             /\ TreeType /\ ThreadType
BY DEF TypeOK, TreeType, ThreadType

\* Leaving a call ends a thread's progress and moves no other.
LEMMA LeaveAInv ==
  ASSUME AInv, IInv', NEW t \in Threads, NEW a, Leave(t, a),
         UNCHANGED tree \/ (pc[t] \in Writing /\ TreeType')
  PROVE  AInv'
<1>1. /\ pc'[t] = "idle"
      /\ \A u \in Threads : u # t => pc'[u] = pc[u]
      /\ UNCHANGED <<request, at, rows, calls, poisoned>>
  BY DEF Leave, AInv, IInv, PcType
<1>2. TreeType'
  BY TreeTyped DEF AInv, TreeType, tree
<1>3. ThreadType' /\ poisoned' \in BOOLEAN
  BY <1>1, TypeParts DEF AInv, ThreadType
<1>4. ASSUME NEW u \in Threads PROVE Progress(u)'
  <2>1. CASE u = t
    BY <1>1, <2>1
       DEF Progress, WritesAsked, Fresh, GetSearched, ScanFound, Reading, Writing
  <2>2. CASE u # t
    <3>1. UNCHANGED tree \/ pc[u] \notin Reading
      BY <2>2, WriterAlone DEF AInv, Reading
    <3> QED
      BY <1>1, <2>2, <3>1, OthersProgress
  <2> QED
    BY <2>1, <2>2
<1>5. TypeOK'
  BY <1>2, <1>3 DEF TypeOK, TreeType, ThreadType, IInv, PcType, GuardsMatch
<1> QED
  BY <1>4, <1>5 DEF AInv

LEMMA QuitAInv ==
  ASSUME AInv, IInv', NEW t \in Threads, NEW a, Leave(t, a), UNCHANGED tree
  PROVE  AInv'
BY LeaveAInv DEF tree

\* A writer goes on from one step to the next.
LEMMA GoOnAInv ==
  ASSUME AInv, IInv', TreeType', NEW t \in Threads, NEW p \in Writing,
         pc[t] \in Writing, pc' = [pc EXCEPT ![t] = p],
         p = "memtable" => pc[t] = "log", p # "log",
         UNCHANGED <<lock, local>>
  PROVE  AInv'
<1>1. /\ pc'[t] = p
      /\ \A u \in Threads : u # t => pc'[u] = pc[u]
      /\ UNCHANGED <<request, at, rows, calls, poisoned>>
  BY DEF AInv, IInv, PcType, lock, local
<1>2. ThreadType' /\ poisoned' \in BOOLEAN
  BY <1>1, TypeParts DEF AInv, ThreadType
<1>3. ASSUME NEW u \in Threads PROVE Progress(u)'
  <2>1. CASE u = t
    <3>1. WritesAsked(t)
      BY DEF AInv, Progress
    <3> QED
      BY <1>1, <2>1, <3>1
         DEF Progress, WritesAsked, Fresh, GetSearched, ScanFound, Reading, Writing
  <2>2. CASE u # t
    <3>1. pc[u] \notin Reading
      BY <2>2, WriterAlone DEF AInv, Reading
    <3> QED
      BY <1>1, <2>2, <3>1, OthersProgress
  <2> QED
    BY <2>1, <2>2
<1>4. TypeOK'
  BY <1>2 DEF TypeOK, TreeType, ThreadType, IInv, PcType, GuardsMatch
<1> QED
  BY <1>3, <1>4 DEF AInv

\* A reader goes on under its guard.
LEMMA ReadOnAInv ==
  ASSUME AInv, IInv', ThreadType', NEW t \in Threads,
         UNCHANGED <<tree, pc, request, calls, poisoned>>,
         \A u \in Threads : u # t => at'[u] = at[u] /\ rows'[u] = rows[u],
         Progress(t)'
  PROVE  AInv'
<1>1. TreeType'
  BY TreeTyped DEF AInv, TreeType, tree
<1>2. ASSUME NEW u \in Threads, u # t PROVE Progress(u)'
  BY <1>2, OthersProgress
<1>3. TypeOK'
  BY <1>1, TypeParts DEF AInv, TypeOK, TreeType, ThreadType, IInv, PcType, GuardsMatch
<1> QED
  BY <1>2, <1>3 DEF AInv

LEMMA CallAInv ==
  ASSUME AInv, IInv', NEW t \in Threads, NEW r \in Requests, Call(t, r)
  PROVE  AInv'
<1>1. /\ pc \in [Threads -> {"idle", "waiting", "dead"} \cup Reading \cup Writing]
      /\ ThreadType /\ TreeType /\ poisoned \in BOOLEAN
  BY TypeParts DEF AInv
<1>2. /\ pc'[t] = "waiting" /\ request'[t] = r /\ at'[t] = 1 /\ calls'[t] = calls[t] + 1
      /\ \A u \in Threads : u # t => /\ pc'[u] = pc[u] /\ request'[u] = request[u]
                                     /\ at'[u] = at[u] /\ calls'[u] = calls[u]
      /\ UNCHANGED <<lock, tree>> /\ calls[t] < MaxCalls[t]
  BY <1>1 DEF Call, ThreadType
<1>3. rows' = [rows EXCEPT ![t] = <<>>]
  BY DEF Call
<1>4. /\ rows'[t] = <<>> /\ \A u \in Threads : u # t => rows'[u] = rows[u]
      /\ rows' \in [Threads -> Rows]
  BY <1>1, <1>3, NoRows DEF ThreadType
<1>5. ThreadType'
  <2>1. request' \in [Threads -> Requests] /\ at' \in [Threads -> Nat \ {0}]
        /\ calls' \in [Threads -> Nat]
    BY <1>1 DEF Call, ThreadType
  <2>2. calls[t] + 1 <= MaxCalls[t]
    BY <1>1, <1>2, CallsAssumption DEF ThreadType
  <2>3. \A u \in Threads : calls'[u] <= MaxCalls[u]
    BY <1>1, <1>2, <2>2 DEF ThreadType
  <2> QED
    BY <1>4, <2>1, <2>3 DEF ThreadType
<1>6. ASSUME NEW u \in Threads PROVE Progress(u)'
  <2>1. CASE u = t
    BY <1>2, <1>4, <2>1
       DEF Progress, WritesAsked, Fresh, GetSearched, ScanFound, Reading, Writing
  <2>2. CASE u # t
    BY <1>2, <1>4, <2>2, OthersProgress
  <2> QED
    BY <2>1, <2>2
<1>7. TypeOK'
  BY <1>1, <1>2, <1>5 DEF TypeOK, TreeType, ThreadType, IInv, PcType, GuardsMatch, tree, lock
<1> QED
  BY <1>6, <1>7 DEF AInv

\* A thread that gets its guard starts its read at the first layer or key.
LEMMA GuardAInv ==
  ASSUME AInv, IInv', NEW t \in Threads, Read(t) \/ Write(t)
  PROVE  AInv'
<1>1. /\ pc[t] = "waiting" /\ UNCHANGED <<tree, request, at, rows, calls, poisoned>>
      /\ \A u \in Threads : u # t => pc'[u] = pc[u]
  BY DEF Read, Write, local, tree, AInv, IInv, PcType
<1>2. /\ request[t] \in Requests
      /\ request[t].op \in {"get", "scan", "count", "put", "delete", "flush", "compact"}
  BY RequestFacts DEF AInv, IInv, RequestType
<1>3. \/ IsRead(t) /\ pc'[t] = request[t].op
      \/ ~IsRead(t) /\ pc'[t] = IF request[t].op \in {"put", "delete"} THEN "log"
                                ELSE request[t].op
  BY DEF Read, Write, AInv, IInv, PcType
<1>4. at[t] = 1 /\ rows[t] = <<>>
  BY <1>1 DEF AInv, Progress, Fresh
<1>5. WritesAsked(t)' /\ Fresh(t)'
  BY <1>1, <1>2, <1>3 DEF WritesAsked, Fresh, IsRead, Reading, Writing
<1>6. GetSearched(t)'
  <2>1. Layers' = Layers /\ at'[t] = 1 /\ request' = request
    BY <1>1, <1>4 DEF Layers, tree
  <2> SUFFICES ASSUME pc'[t] = "get"
               PROVE  /\ 1 <= Len(Layers) + 1
                      /\ \A n \in 1 .. Len(Layers) : ~(n < 1)
    BY <2>1 DEF GetSearched
  <2>2. Len(Layers) \in Nat
    BY ConcatProperties, LenProperties DEF Layers, AInv, TypeOK
  <2> QED
    BY <2>2
<1>7. ScanFound(t)'
  <2>1. View' = View /\ at'[t] = 1 /\ rows'[t] = <<>> /\ request'[t] = request[t]
    BY <1>1, <1>4 DEF View, tree
  <2> SUFFICES ASSUME pc'[t] = "scan"
               PROVE  /\ 1 <= MaxKey + 1
                      /\ <<>> = [k \in {x \in request[t].selection : x < 1} |-> View[k]]
    BY <2>1 DEF ScanFound
  <2>2. request[t].selection \subseteq Keys
    BY <1>2, <1>3, RequestFacts DEF IsRead
  <2>3. {x \in request[t].selection : x < 1} = {}
    BY <2>2, MaxKeyAssumption DEF Keys
  <2> QED
    BY <2>3, NoRows, MaxKeyAssumption
<1>8. ASSUME NEW u \in Threads PROVE Progress(u)'
  <2>1. CASE u # t
    BY <1>1, <2>1, OthersProgress
  <2>2. CASE u = t
    BY <1>5, <1>6, <1>7, <2>2 DEF Progress
  <2> QED
    BY <2>1, <2>2
<1>9. TypeOK'
  BY <1>1 DEF AInv, TypeOK, IInv, PcType, GuardsMatch, tree
<1> QED
  BY <1>8, <1>9 DEF AInv

\* A get goes on past a layer that does not know its key.
LEMMA GetOnAInv ==
  ASSUME AInv, IInv', NEW t \in Threads, pc[t] = "get",
         at[t] <= Len(Layers), Layers[at[t]][request[t].key] = "NotFound",
         at' = [at EXCEPT ![t] = @ + 1],
         UNCHANGED <<lock, tree, pc, request, rows, answer, calls>>
  PROVE  AInv'
<1>1. at[t] \in Nat \ {0} /\ ThreadType
  BY TypeParts DEF AInv, TypeOK
<1>2. at'[t] = at[t] + 1 /\ \A u \in Threads : u # t => at'[u] = at[u]
  BY <1>1 DEF ThreadType
<1>3. ThreadType'
  BY <1>1 DEF ThreadType
<1>4. inHand = <<>>
  BY HandEmpty DEF AInv, Reading
<1>5. Len(Layers) \in Nat
  BY ConcatProperties, LenProperties DEF Layers, AInv, TypeOK
<1>6. /\ \A n \in 1 .. Len(Layers) : n < at[t] => Layers[n][request[t].key] = "NotFound"
      /\ WritesAsked(t)
  BY DEF AInv, Progress, GetSearched
<1>7. GetSearched(t)'
  <2>1. Layers' = Layers /\ request' = request
    BY DEF Layers, tree
  <2>2. at[t] + 1 <= Len(Layers) + 1
    BY <1>1, <1>5
  <2>3. \A n \in 1 .. Len(Layers) :
          n < at[t] + 1 => Layers[n][request[t].key] = "NotFound"
    <3>1. \A n \in 1 .. Len(Layers) : n < at[t] + 1 => n < at[t] \/ n = at[t]
      BY <1>1, <1>5
    <3> QED
      BY <1>6, <3>1
  <2> QED
    BY <1>2, <2>1, <2>2, <2>3 DEF GetSearched
<1>8. Progress(t)'
  BY <1>6, <1>7 DEF Progress, WritesAsked, Fresh, ScanFound
<1> QED
  BY <1>2, <1>3, <1>8, ReadOnAInv DEF lock

\* A scan goes on to the next key.
LEMMA ScanNextAInv ==
  ASSUME AInv, IInv', NEW t \in Threads, ScanNext(t)
  PROVE  AInv'
<1> DEFINE asked == request[t].selection
           found == [k \in {x \in asked : x <= at[t]} |->
                       IF k < at[t] THEN rows[t][k] ELSE ToOption(Newest(Layers, k))]
<1>1. at[t] \in Nat \ {0} /\ ThreadType /\ TreeType /\ inHand = <<>>
  BY TypeParts, HandEmpty DEF AInv, TypeOK, ScanNext, Reading
<1>2. /\ pc[t] = "scan" /\ at[t] \in Keys /\ rows' = [rows EXCEPT ![t] = found]
      /\ at' = [at EXCEPT ![t] = @ + 1]
      /\ UNCHANGED <<lock, tree, pc, request, calls>>
  BY DEF ScanNext
<1> HIDE DEF found
<1>3. /\ at'[t] = at[t] + 1 /\ rows'[t] = found
      /\ \A u \in Threads : u # t => at'[u] = at[u] /\ rows'[u] = rows[u]
  BY <1>1, <1>2 DEF ThreadType
<1>4. /\ asked \subseteq Keys /\ WritesAsked(t)
      /\ rows[t] = [k \in {x \in asked : x < at[t]} |-> View[k]]
  <2>1. request[t] \in Requests /\ request[t].op = "scan"
    BY <1>2 DEF AInv, IInv, RequestType, Progress, WritesAsked, Reading
  <2> QED
    BY <1>2, <2>1, RequestFacts DEF AInv, Progress, ScanFound
<1>5. found = [k \in {x \in asked : x < at[t] + 1} |-> View[k]]
  <2>1. {x \in asked : x <= at[t]} = {x \in asked : x < at[t] + 1}
    BY <1>1, <1>4, MaxKeyAssumption DEF Keys
  <2>2. ASSUME NEW k \in {x \in asked : x <= at[t]}
        PROVE  (IF k < at[t] THEN rows[t][k] ELSE ToOption(Newest(Layers, k))) = View[k]
    BY <1>1, <1>4, ViewLayers
  <2> QED
    BY <2>1, <2>2 DEF found
<1>6. found \in Rows
  <2>1. \A k \in Keys : View[k] \in Values \cup {None}
    BY <1>1, ViewAt
  <2> DEFINE S == {x \in asked : x < at[t] + 1}
  <2>2. S \in SUBSET Keys
    BY <1>4
  <2>3. found \in [S -> Values \cup {None}]
    BY <1>5, <2>1, <2>2
  <2> HIDE DEF S
  <2> QED
    BY <2>2, <2>3 DEF Rows
<1>7. ThreadType'
  <2>1. rows' \in [Threads -> Rows]
    BY <1>1, <1>2, <1>6 DEF ThreadType
  <2>2. at' \in [Threads -> Nat \ {0}]
    BY <1>1, <1>2 DEF ThreadType
  <2> QED
    BY <1>1, <1>2, <2>1, <2>2 DEF ThreadType
<1>8. ScanFound(t)'
  <2>1. View' = View /\ request' = request
    BY <1>2 DEF View, tree
  <2>2. at[t] + 1 <= MaxKey + 1
    BY <1>1, <1>2, MaxKeyAssumption DEF Keys
  <2> QED
    BY <1>3, <1>5, <2>1, <2>2 DEF ScanFound
<1>9. Progress(t)'
  BY <1>2, <1>4, <1>8 DEF Progress, WritesAsked, Fresh, GetSearched
<1> QED
  BY <1>2, <1>3, <1>7, <1>9, ReadOnAInv DEF lock

\* A scan starts over under its guard.
LEMMA ScanAgainAInv ==
  ASSUME AInv, IInv', NEW t \in Threads, ScanAgain(t)
  PROVE  AInv'
<1>1. ThreadType
  BY TypeParts DEF AInv
<1>2. /\ pc[t] = "scan" /\ rows' = [rows EXCEPT ![t] = <<>>] /\ at' = [at EXCEPT ![t] = 1]
      /\ UNCHANGED <<lock, tree, pc, request, calls>>
  BY DEF ScanAgain
<1>3. /\ at'[t] = 1 /\ rows'[t] = <<>>
      /\ \A u \in Threads : u # t => at'[u] = at[u] /\ rows'[u] = rows[u]
  BY <1>1, <1>2 DEF ThreadType
<1>4. ThreadType'
  <2>1. rows' \in [Threads -> Rows]
    BY <1>1, <1>2, NoRows DEF ThreadType
  <2> QED
    BY <1>1, <1>2, <2>1 DEF ThreadType
<1>5. WritesAsked(t)
  BY DEF AInv, Progress
<1>6. ScanFound(t)'
  <2>1. View' = View /\ request' = request
    BY <1>2 DEF View, tree
  <2>2. request[t] \in Requests /\ request[t].op = "scan"
    BY <1>2, <1>5 DEF AInv, IInv, RequestType, WritesAsked, Reading
  <2>3. {x \in request[t].selection : x < 1} = {}
    BY <2>2, RequestFacts, MaxKeyAssumption DEF Keys
  <2> QED
    BY <1>3, <2>1, <2>3, NoRows, MaxKeyAssumption DEF ScanFound
<1>7. Progress(t)'
  BY <1>2, <1>5, <1>6 DEF Progress, WritesAsked, Fresh, GetSearched
<1> QED
  BY <1>2, <1>3, <1>4, <1>7, ReadOnAInv DEF lock

\* A panic ends the thread that held the write guard.
LEMMA PanicAInv ==
  ASSUME AInv, IInv', NEW t \in Threads, Panic(t)
  PROVE  AInv'
<1>1. /\ pc'[t] = "dead" /\ poisoned' = TRUE
      /\ \A u \in Threads : u # t => pc'[u] = pc[u]
      /\ UNCHANGED <<tree, request, at, rows, calls>>
  BY DEF Panic, tree, local, AInv, IInv, PcType
<1>2. ASSUME NEW u \in Threads PROVE Progress(u)'
  <2>1. CASE u = t
    BY <1>1, <2>1
       DEF Progress, WritesAsked, Fresh, GetSearched, ScanFound, Reading, Writing
  <2>2. CASE u # t
    BY <1>1, <2>2, OthersProgress
  <2> QED
    BY <2>1, <2>2
<1>3. TypeOK'
  BY <1>1 DEF AInv, TypeOK, IInv, PcType, GuardsMatch, tree
<1> QED
  BY <1>2, <1>3 DEF AInv

\* The entry that a put or a delete makes.
LEMMA EntryOf ==
  ASSUME AInv, NEW t \in Threads, pc[t] = "memtable"
  PROVE  /\ request[t] \in Requests /\ request[t].op \in {"put", "delete"}
         /\ request[t].key \in Keys
         /\ (IF request[t].op = "put" THEN request[t].value ELSE "Deleted")
              \in Values \cup {"Deleted"}
<1>1. request[t] \in Requests /\ request[t].op \in {"put", "delete"}
  BY DEF AInv, IInv, RequestType, Progress, WritesAsked
<1> QED
  BY <1>1, RequestFacts

LEMMA NextAInv == AInv /\ [Next]_vars => AInv'
<1> SUFFICES ASSUME AInv, [Next]_vars PROVE AInv'
  OBVIOUS
<1>1. IInv' /\ TreeType
  BY NextIInv, TreeTyped DEF AInv
<1>2. CASE UNCHANGED vars
  <2>1. UNCHANGED <<readers, writer, poisoned, memtable, sstables, inHand, pc, request,
                    at, rows, calls>>
    BY <1>2 DEF vars, lock, tree, local
  <2>2. TypeOK'
    BY <2>1 DEF AInv, TypeOK
  <2>3. UNCHANGED tree
    BY <2>1 DEF tree
  <2>4. \A t \in Threads : Progress(t)'
    BY <2>1, <2>3, OthersProgress
  <2> QED
    BY <1>1, <2>2, <2>4 DEF AInv
<1>3. ASSUME NEW t \in Threads, NEW r \in Requests, Call(t, r) PROVE AInv'
  BY <1>1, <1>3, CallAInv
<1>4. ASSUME NEW t \in Threads, Read(t) \/ Write(t) PROVE AInv'
  BY <1>1, <1>4, GuardAInv
<1>5. ASSUME NEW t \in Threads,
             Poisoned(t) \/ ScanDrop(t) \/ Count(t) \/ FlushNothing(t)
               \/ CompactNothing(t) \/ Fails(t)
      PROVE  AInv'
  <2>1. (\E a : Leave(t, a)) /\ UNCHANGED tree
    BY <1>5, Zenon DEF Poisoned, ScanDrop, Count, FlushNothing, CompactNothing, Fails
  <2>2. PICK a : Leave(t, a)
    BY <2>1
  <2> QED
    BY <1>1, <2>1, <2>2, QuitAInv, Zenon
<1>6. ASSUME NEW t \in Threads, Get(t) PROVE AInv'
  <2>1. ASSUME NEW a, Leave(t, a), UNCHANGED tree PROVE AInv'
    BY <1>1, <2>1, QuitAInv, Zenon
  <2>2. ASSUME at[t] <= Len(Layers), Layers[at[t]][request[t].key] = "NotFound",
               at' = [at EXCEPT ![t] = @ + 1],
               UNCHANGED <<lock, tree, pc, request, rows, answer, calls>>
        PROVE  AInv'
    BY <1>1, <1>6, <2>2, GetOnAInv DEF Get
  <2> QED
    BY <1>6, <2>1, <2>2 DEF Get
<1>7. ASSUME NEW t \in Threads, ScanNext(t) \/ ScanAgain(t) PROVE AInv'
  BY <1>1, <1>7, ScanNextAInv, ScanAgainAInv
<1>8. ASSUME NEW t \in Threads, Log(t) PROVE AInv'
  BY <1>1, <1>8, GoOnAInv DEF Log, tree, TreeType, Writing
<1>9. ASSUME NEW t \in Threads, Insert(t) PROVE AInv'
  <2>1. TreeType'
    BY <1>1, <1>9, EntryOf, InsertView DEF Insert
  <2>2. /\ pc[t] \in Writing /\ "inserted" \in Writing
        /\ pc' = [pc EXCEPT ![t] = "inserted"] /\ UNCHANGED <<lock, local>>
    BY <1>9 DEF Insert, lock, local, Writing
  <2> QED
    BY <1>1, <2>1, <2>2, GoOnAInv
<1>10. ASSUME NEW t \in Threads, FlushIfFull(t) PROVE AInv'
  <2>1. ASSUME Leave(t, Done) PROVE AInv'
    BY <1>1, <1>10, <2>1, QuitAInv, Zenon DEF FlushIfFull
  <2>2. ASSUME pc' = [pc EXCEPT ![t] = "flush"], UNCHANGED <<lock, local>> PROVE AInv'
    BY <1>1, <1>10, <2>2, GoOnAInv DEF FlushIfFull, tree, TreeType, Writing
  <2> QED
    BY <1>10, <2>1, <2>2 DEF FlushIfFull, FlushWithin
<1>11. ASSUME NEW t \in Threads, FlushClear(t) PROVE AInv'
  <2>1. TreeType'
    <3>1. Blank \in Layer
      BY DEF Blank, Layer, Entries
    <3> QED
      BY <1>1, <1>11, <3>1 DEF FlushClear, TreeType
  <2> QED
    BY <1>1, <1>11, <2>1, GoOnAInv DEF FlushClear, lock, local, Writing
<1>12. ASSUME NEW t \in Threads, CompactTake(t) PROVE AInv'
  <2>1. pc[t] = "compact" /\ pc' = [pc EXCEPT ![t] = "list"] /\ UNCHANGED <<lock, local>>
    BY <1>12 DEF CompactTake, lock, local
  <2>2. inHand = <<>>
    BY <2>1, HandEmpty DEF AInv, Writing
  <2>3. TreeType'
    BY <1>1, <1>12, <2>2, CompactTakeView
  <2> QED
    BY <1>1, <2>1, <2>3, GoOnAInv DEF Writing
<1>13. ASSUME NEW t \in Threads, List(t) PROVE AInv'
  <2>1. TreeType' /\ pc[t] \in Writing
    BY <1>1, <1>13, ListView DEF List, Writing
  <2>2. ASSUME NEW a, Leave(t, a) PROVE AInv'
    BY <1>1, <2>1, <2>2, LeaveAInv
  <2> QED
    BY <1>13, <2>2 DEF List
<1>14. ASSUME NEW t \in Threads, Panic(t) PROVE AInv'
  BY <1>1, <1>14, PanicAInv
<1> QED
  BY <1>2, <1>3, <1>4, <1>5, <1>6, <1>7, <1>8, <1>9, <1>10, <1>11, <1>12, <1>13, <1>14
  DEF Next, Step

\* The invariant of the threads' progress holds throughout.
THEOREM ProgressInductive == Spec => []AInv
<1> QED
  BY InitAInv, NextAInv, PTL DEF Spec

\* Every variable of Engine keeps its type.
THEOREM TypesKept == Spec => []TypeOK
<1>1. AInv => TypeOK
  BY DEF AInv
<1> QED
  BY <1>1, ProgressInductive, PTL

-----------------------------------------------------------------------------
(* Calls are atomic *)

\* answer holds one answer for each thread.
Answering == answer = [t \in Threads |-> answer[t]]

LEMMA AnsweringKept == Spec => []Answering
<1>1. Init => Answering
  BY DEF Init, Answering
<1>2. ASSUME Answering, [Next]_vars PROVE Answering'
  <2>1. ASSUME NEW t \in Threads, NEW a, answer' = [answer EXCEPT ![t] = a]
        PROVE  Answering'
    BY <1>2, <2>1 DEF Answering
  <2>2. ASSUME NEW t \in Threads, NEW a, Leave(t, a) PROVE Answering'
    BY <2>1, <2>2 DEF Leave
  <2>3. ASSUME answer' = answer PROVE Answering'
    BY <1>2, <2>3 DEF Answering
  <2>4. CASE UNCHANGED vars
    BY <2>3, <2>4 DEF vars, local
  <2>5. ASSUME NEW t \in Threads, NEW r, Call(t, r) PROVE Answering'
    BY <2>1, <2>5 DEF Call
  <2>6. ASSUME NEW t \in Threads, Step(t) PROVE Answering'
    <3>1. CASE \E a : Leave(t, a)
      BY <2>2, <3>1
    <3>2. CASE answer' = answer
      BY <2>3, <3>2
    <3> QED
      BY <2>6, <3>1, <3>2
      DEF Step, Poisoned, Read, Write, Get, ScanNext, ScanDrop, Count, Log, Insert,
          FlushIfFull, FlushClear, FlushNothing, CompactTake, CompactNothing, List, Fails,
          local
  <2>7. ASSUME NEW t \in Threads, ScanAgain(t) \/ Panic(t) PROVE Answering'
    BY <2>3, <2>7 DEF ScanAgain, Panic, local
  <2> QED
    BY <1>2, <2>4, <2>5, <2>6, <2>7 DEF Next
<1> QED
  BY <1>1, <1>2, PTL DEF Spec

\* How the variables of Engine are read as those of AtomicMap.
StageFor(p) == IF p \in DOMAIN Stage THEN Stage[p] ELSE "performed"
SeenFor(p, m) == IF StageFor(p) = "performed" THEN m ELSE Nothing
Stages == [t \in Threads |-> StageOf(t)]
Seen == [t \in Threads |-> IF StageOf(t) = "performed" THEN View ELSE Nothing]

LEMMA StageFacts ==
  /\ StageFor("idle") = "idle" /\ StageFor("dead") = "dead"
  /\ \A p \in {"waiting", "log", "memtable"} : StageFor(p) = "asked"
  /\ \A p \in Reading \cup {"inserted", "flush", "compact", "list"} :
       StageFor(p) = "performed"
<1>1. DOMAIN Stage = {"idle", "waiting", "log", "memtable", "dead"}
  BY DEF Stage
<1> QED
  BY <1>1 DEF Stage, StageFor, Reading

LEMMA StagesAt == \A t : StageOf(t) = StageFor(pc[t])
BY DEF StageOf, StageFor

\* A step of a thread moves its own stage; what another has seen it may change
\* only together with the map.
LEMMA Moves ==
  ASSUME PcType, NEW t \in Threads, NEW p, pc' = [pc EXCEPT ![t] = p],
         View' = View \/ (\A u \in Threads : u # t => StageFor(pc[u]) # "performed")
  PROVE  /\ Stages' = [Stages EXCEPT ![t] = StageFor(p)]
         /\ Seen' = [Seen EXCEPT ![t] = SeenFor(p, View')]
<1>1. pc'[t] = p /\ \A u \in Threads : u # t => pc'[u] = pc[u]
  BY DEF PcType
<1>2. Stages = [u \in Threads |-> StageFor(pc[u])]
  BY StagesAt DEF Stages
<1>3. Seen = [u \in Threads |-> SeenFor(pc[u], View)]
  BY StagesAt DEF Seen, SeenFor
<1>4. Stages' = [u \in Threads |-> StageFor(pc'[u])]
  BY DEF Stages, StageOf, StageFor
<1>5. Seen' = [u \in Threads |-> SeenFor(pc'[u], View')]
  BY DEF Seen, StageOf, SeenFor, StageFor
<1>6. \A u \in Threads : u # t => SeenFor(pc'[u], View') = SeenFor(pc[u], View)
  BY <1>1 DEF SeenFor
<1>7. Stages' = [Stages EXCEPT ![t] = StageFor(p)]
  BY <1>1, <1>2, <1>4
<1>8. Seen' = [Seen EXCEPT ![t] = SeenFor(p, View')]
  <2>1. Seen' = [u \in Threads |-> IF u = t THEN SeenFor(p, View') ELSE Seen[u]]
    BY <1>1, <1>3, <1>5, <1>6
  <2>2. Seen = [u \in Threads |-> Seen[u]]
    BY <1>3
  <2> QED
    BY <2>1, <2>2
<1> QED
  BY <1>7, <1>8

\* A step at which the call of t takes effect.
LEMMA PerformStep ==
  ASSUME PcType, NEW t \in Threads, NEW p, pc' = [pc EXCEPT ![t] = p],
         StageFor(pc[t]) = "asked", StageFor(p) = "performed", ~poisoned,
         View' = Abstract!Effect(request[t]),
         View' = View \/ (\A u \in Threads : u # t => StageFor(pc[u]) # "performed"),
         UNCHANGED <<poisoned, request, answer>>
  PROVE  Abstract!Perform(t)
<1>1. /\ Stages' = [Stages EXCEPT ![t] = "performed"]
      /\ Seen' = [Seen EXCEPT ![t] = View']
  BY Moves DEF SeenFor
<1>2. Stages[t] = "asked"
  BY StagesAt DEF Stages
<1> QED
  BY <1>1, <1>2 DEF Abstract!Perform, Stages, Seen

\* A step that no other thread can tell, nor the call itself.
LEMMA HiddenStep ==
  ASSUME PcType, NEW t \in Threads, NEW p, pc' = [pc EXCEPT ![t] = p],
         StageFor(p) = StageFor(pc[t]), View' = View,
         UNCHANGED <<poisoned, request, answer>>
  PROVE  UNCHANGED Abstract!vars
<1>1. /\ Stages' = [Stages EXCEPT ![t] = StageFor(pc[t])]
      /\ Seen' = [Seen EXCEPT ![t] = SeenFor(pc[t], View)]
  <2>1. /\ Stages' = [Stages EXCEPT ![t] = StageFor(p)]
        /\ Seen' = [Seen EXCEPT ![t] = SeenFor(p, View')]
    BY Moves
  <2>2. SeenFor(p, View') = SeenFor(pc[t], View)
    BY DEF SeenFor
  <2> QED
    BY <2>1, <2>2
<1>2. Stages[t] = StageFor(pc[t]) /\ Seen[t] = SeenFor(pc[t], View)
  BY StagesAt DEF Stages, Seen, SeenFor
<1>3. Stages' = Stages
  BY <1>1, <1>2 DEF Stages
<1>4. Seen' = Seen
  BY <1>1, <1>2 DEF Seen
<1> QED
  BY <1>3, <1>4 DEF Abstract!vars, Stages, Seen

\* A step that reads, and tells nobody.
LEMMA SilentStep ==
  ASSUME UNCHANGED <<lock, tree, pc, request, answer>>
  PROVE  UNCHANGED Abstract!vars
<1>1. View' = View
  BY DEF View, tree
<1>2. Stages' = Stages /\ Seen' = Seen
  BY <1>1 DEF Stages, Seen, StageOf
<1> QED
  BY <1>1, <1>2 DEF Abstract!vars, Stages, Seen, lock

\* A call that ends before it has taken effect.
LEMMA RefuseStep ==
  ASSUME PcType, NEW t \in Threads, StageFor(pc[t]) = "asked",
         Leave(t, Error), View' = View
  PROVE  Abstract!Refuse(t)
<1>1. /\ Stages' = [Stages EXCEPT ![t] = "idle"]
      /\ Seen' = [Seen EXCEPT ![t] = Nothing]
  <2>1. pc' = [pc EXCEPT ![t] = "idle"]
    BY DEF Leave
  <2>2. /\ Stages' = [Stages EXCEPT ![t] = StageFor("idle")]
        /\ Seen' = [Seen EXCEPT ![t] = SeenFor("idle", View')]
    BY <2>1, Moves
  <2>3. StageFor("idle") = "idle" /\ SeenFor("idle", View') = Nothing
    BY StageFacts DEF SeenFor
  <2> QED
    BY <2>2, <2>3
<1>2. Stages[t] = "asked" /\ Seen[t] = Nothing
  BY StagesAt DEF Stages, Seen
<1>3. Seen' = Seen
  BY <1>1, <1>2 DEF Seen
<1> QED
  BY <1>1, <1>2, <1>3 DEF Abstract!Refuse, Stages, Seen, Leave

\* A call that ends with an answer out of what it has seen.
LEMMA ReturnStep ==
  ASSUME PcType, Answering, NEW t \in Threads, StageFor(pc[t]) = "performed",
         NEW a, Leave(t, a), View' = View,
         a = Error \/ a \in Abstract!Answers(request[t], View)
  PROVE  Abstract!Return(t)
<1>1. /\ Stages' = [Stages EXCEPT ![t] = "idle"]
      /\ Seen' = [Seen EXCEPT ![t] = Nothing]
  <2>1. pc' = [pc EXCEPT ![t] = "idle"]
    BY DEF Leave
  <2>2. /\ Stages' = [Stages EXCEPT ![t] = StageFor("idle")]
        /\ Seen' = [Seen EXCEPT ![t] = SeenFor("idle", View')]
    BY <2>1, Moves
  <2>3. StageFor("idle") = "idle" /\ SeenFor("idle", View') = Nothing
    BY StageFacts DEF SeenFor
  <2> QED
    BY <2>2, <2>3
<1>2. Stages[t] = "performed" /\ Seen[t] = View
  BY StagesAt DEF Stages, Seen
<1>3. answer'[t] = a /\ answer' = [answer EXCEPT ![t] = a]
  BY DEF Leave, Answering
<1>4. UNCHANGED <<poisoned, request>>
  BY DEF Leave
<1> QED
  BY <1>1, <1>2, <1>3, <1>4 DEF Abstract!Return, Stages, Seen

LEMMA EffectOf ==
  ASSUME NEW r \in Requests
  PROVE  /\ r.op = "put" => Abstract!Effect(r) = [View EXCEPT ![r.key] = r.value]
         /\ r.op = "delete" => Abstract!Effect(r) = [View EXCEPT ![r.key] = None]
         /\ r.op \notin {"put", "delete"} => Abstract!Effect(r) = View
BY DEF Abstract!Effect

LEMMA AnswersOf ==
  ASSUME NEW r \in Requests
  PROVE  /\ r.op = "get" => Abstract!Answers(r, View) = {[x \in {r.key} |-> View[x]]}
         /\ r.op = "scan" => Abstract!Answers(r, View) =
              {[x \in {k \in r.selection : k < n} |-> View[x]] : n \in Keys}
                \cup {[x \in r.selection |-> View[x]]}
         /\ r.op = "count" => Abstract!Answers(r, View) = Nat
         /\ r.op \in {"put", "delete", "flush", "compact"} =>
              Abstract!Answers(r, View) = {Done}
BY DEF Abstract!Answers, Abstract!Restrict

\* What a get, a scan, a count and a write may return.
LEMMA GetAnswer ==
  ASSUME AInv, NEW t \in Threads, pc[t] = "get", NEW v,
         \/ /\ at[t] <= Len(Layers) /\ Layers[at[t]][request[t].key] # "NotFound"
            /\ v = ToOption(Layers[at[t]][request[t].key])
         \/ at[t] > Len(Layers) /\ v = None
  PROVE  [x \in {request[t].key} |-> v] \in Abstract!Answers(request[t], View)
<1> DEFINE key == request[t].key
<1>1. /\ request[t] \in Requests /\ request[t].op = "get" /\ key \in Keys
      /\ at[t] \in Nat \ {0} /\ TreeType /\ inHand = <<>>
  <2>1. request[t] \in Requests /\ request[t].op = "get"
    BY DEF AInv, IInv, RequestType, Progress, WritesAsked, Reading
  <2>2. at[t] \in Nat \ {0} /\ TreeType /\ inHand = <<>>
    BY TypeParts, HandEmpty DEF AInv, ThreadType, Reading
  <2> QED
    BY <2>1, <2>2, RequestFacts
<1>2. Layers \in Seq(Layer) /\ View[key] = ToOption(Newest(Layers, key))
  BY <1>1, ViewLayers
<1>3. Len(Layers) \in Nat
  BY <1>2, LenProperties
<1>4. /\ at[t] <= Len(Layers) + 1
      /\ \A n \in 1 .. Len(Layers) : n < at[t] => Layers[n][key] = "NotFound"
  BY DEF AInv, Progress, GetSearched
<1>5. v = View[key]
  <2>1. CASE /\ at[t] <= Len(Layers) /\ Layers[at[t]][key] # "NotFound"
             /\ v = ToOption(Layers[at[t]][key])
    <3>1. at[t] \in 1 .. Len(Layers)
      BY <1>1, <1>3, <2>1
    <3>2. Newest(Layers, key) = Layers[at[t]][key]
      BY <1>3, <1>4, <2>1, <3>1, NewestHit
    <3> QED
      BY <1>2, <2>1, <3>2
  <2>2. CASE at[t] > Len(Layers) /\ v = None
    <3>1. \A n \in 1 .. Len(Layers) : Layers[n][key] = "NotFound"
      BY <1>1, <1>3, <1>4, <2>2
    <3>2. Newest(Layers, key) = "NotFound"
      BY <3>1, NewestMiss
    <3> QED
      BY <1>2, <2>2, <3>2 DEF ToOption
  <2> QED
    BY <2>1, <2>2
<1>6. [x \in {key} |-> v] = [x \in {key} |-> View[x]]
  BY <1>5
<1> QED
  BY <1>1, <1>6, AnswersOf

LEMMA ScanAnswer ==
  ASSUME AInv, NEW t \in Threads, pc[t] = "scan"
  PROVE  rows[t] \in Abstract!Answers(request[t], View)
<1> DEFINE asked == request[t].selection
           Part(n) == [x \in {k \in asked : k < n} |-> View[x]]
<1>1. request[t] \in Requests /\ request[t].op = "scan" /\ at[t] \in Nat \ {0}
  BY DEF AInv, IInv, RequestType, TypeOK, Progress, WritesAsked, Reading
<1>2. asked \subseteq Keys
  BY <1>1, RequestFacts
<1>3. at[t] <= MaxKey + 1 /\ rows[t] = Part(at[t])
  BY DEF AInv, Progress, ScanFound
<1>4. Abstract!Answers(request[t], View)
        = {Part(n) : n \in Keys} \cup {[x \in asked |-> View[x]]}
  BY <1>1, AnswersOf
<1>5. CASE at[t] \in Keys
  BY <1>3, <1>4, <1>5
<1>6. CASE at[t] \notin Keys
  <2>1. at[t] = MaxKey + 1
    BY <1>1, <1>3, <1>6, MaxKeyAssumption DEF Keys
  <2>2. {k \in asked : k < at[t]} = asked
    BY <1>2, <2>1, MaxKeyAssumption DEF Keys
  <2>3. Part(at[t]) = [x \in asked |-> View[x]]
    BY <2>2
  <2> QED
    BY <1>3, <1>4, <2>3
<1> QED
  BY <1>5, <1>6

LEMMA WriteAnswer ==
  ASSUME AInv, NEW t \in Threads, pc[t] \in Writing
  PROVE  Done \in Abstract!Answers(request[t], View)
<1>1. request[t] \in Requests
      /\ request[t].op \in {"put", "delete", "flush", "compact"}
  BY DEF AInv, IInv, RequestType, Progress, WritesAsked
<1> QED
  BY <1>1, AnswersOf

LEMMA AbstractInit == Init => Abstract!Init
<1> SUFFICES ASSUME Init PROVE Abstract!Init
  OBVIOUS
<1>1. AInv
  BY InitAInv
<1>2. ASSUME NEW v \in Values, Keys # {}
      PROVE  v \in {r.value : r \in {q \in Requests : q.op = "put"}}
  <2>1. PICK k \in Keys : TRUE
    BY <1>2
  <2> DEFINE r == [op |-> "put", key |-> k, value |-> v]
  <2>2. r \in Requests /\ r.op = "put" /\ r.value = v
    BY DEF Requests
  <2> HIDE DEF r
  <2> QED
    BY <2>2
<1>3. View \in [Keys -> {r.value : r \in {q \in Requests : q.op = "put"}} \cup {None}]
  <2>1. \A k \in Keys : View[k] \in Values \cup {None}
    BY <1>1, TypeParts, ViewAt DEF AInv
  <2>2. \A k \in Keys : View[k] \in {r.value : r \in {q \in Requests : q.op = "put"}} \cup {None}
    BY <1>2, <2>1
  <2> QED
    BY <2>2 DEF View
<1>4. Stages = [t \in Threads |-> "idle"]
  BY StagesAt, StageFacts DEF Init, Stages
<1>5. Seen = [t \in Threads |-> Nothing]
  BY StagesAt, StageFacts DEF Init, Seen
<1>6. request \in [Threads -> Requests]
  BY <1>1 DEF AInv, TypeOK
<1> QED
  BY <1>3, <1>4, <1>5, <1>6 DEF Init, Abstract!Init, Stages, Seen

\* A thread gets its guard: a read takes effect, and so does a flush or a
\* compaction, which the map does not show; a put or delete is still to come.
LEMMA GuardStep ==
  ASSUME AInv, NEW t \in Threads, Read(t) \/ Write(t)
  PROVE  Abstract!Perform(t) \/ UNCHANGED Abstract!vars
<1> DEFINE op == request[t].op
<1>1. /\ pc[t] = "waiting" /\ ~poisoned /\ PcType
      /\ UNCHANGED <<tree, request, answer, poisoned>>
  BY DEF Read, Write, Refused, local, AInv, IInv
<1>2. PICK p : /\ pc' = [pc EXCEPT ![t] = p]
               /\ p = IF op \in {"put", "delete"} THEN "log" ELSE op
  BY DEF Read, Write, IsRead
<1>3. request[t] \in Requests
      /\ op \in {"get", "scan", "count", "put", "delete", "flush", "compact"}
  BY RequestFacts DEF AInv, IInv, RequestType
<1>4. View' = View
  BY <1>1 DEF View, tree
<1>5. StageFor(pc[t]) = "asked"
  BY <1>1, StageFacts
<1>6. CASE op \in {"put", "delete"}
  <2>1. StageFor(p) = StageFor(pc[t])
    BY <1>2, <1>5, <1>6, StageFacts
  <2> QED
    BY <1>1, <1>2, <1>4, <2>1, HiddenStep
<1>7. CASE op \notin {"put", "delete"}
  <2>1. StageFor(p) = "performed"
    BY <1>2, <1>3, <1>7, StageFacts DEF Reading
  <2>2. View' = Abstract!Effect(request[t])
    BY <1>3, <1>4, <1>7, EffectOf
  <2> QED
    BY <1>1, <1>2, <1>4, <1>5, <2>1, <2>2, PerformStep
<1> QED
  BY <1>6, <1>7

\* A put or delete takes effect when its entry goes into the memtable.
LEMMA InsertStep ==
  ASSUME AInv, NEW t \in Threads, Insert(t)
  PROVE  Abstract!Perform(t)
<1> DEFINE key == request[t].key
           e == IF request[t].op = "put" THEN request[t].value ELSE "Deleted"
<1>1. /\ pc[t] = "memtable" /\ pc' = [pc EXCEPT ![t] = "inserted"]
      /\ UNCHANGED <<poisoned, request, answer>> /\ PcType /\ TreeType
  BY TypeParts DEF Insert, lock, local, AInv, IInv
<1>2. /\ request[t] \in Requests /\ request[t].op \in {"put", "delete"}
      /\ key \in Keys /\ e \in Values \cup {"Deleted"}
  BY <1>1, EntryOf
<1>3. View' = [View EXCEPT ![key] = ToOption(e)]
  BY <1>1, <1>2, InsertView
<1>4. View' = Abstract!Effect(request[t])
  <2>1. ToOption(e) = IF request[t].op = "put" THEN request[t].value ELSE None
    BY <1>2, RequestFacts, EntriesAssumption DEF ToOption
  <2> QED
    BY <1>2, <1>3, <2>1, EffectOf
<1>5. /\ ~poisoned
      /\ \A u \in Threads : u # t => StageFor(pc[u]) # "performed"
  <2>1. pc[t] \in Writing
    BY <1>1 DEF Writing
  <2>2. writer = t /\ \A u \in Threads : u # t => pc[u] \in {"idle", "waiting", "dead"}
    BY <2>1, WriterAlone DEF AInv
  <2>3. ~poisoned
    BY <2>2, ThreadsAssumption DEF AInv, IInv, NoGuardAfterPanic
  <2> QED
    BY <2>2, <2>3, StageFacts
<1>6. StageFor(pc[t]) = "asked" /\ StageFor("inserted") = "performed"
  BY <1>1, StageFacts
<1> QED
  BY <1>1, <1>4, <1>5, <1>6, PerformStep

\* A writer that panics has been asked, and dies.
LEMMA PanicStep ==
  ASSUME AInv, NEW t \in Threads, Panic(t)
  PROVE  Abstract!Die(t)
<1>1. /\ writer = t /\ poisoned' = TRUE /\ pc' = [pc EXCEPT ![t] = "dead"]
      /\ UNCHANGED <<tree, request, answer>> /\ PcType
  BY DEF Panic, local, AInv, IInv
<1>2. pc[t] \in Writing
  BY <1>1 DEF AInv, IInv, GuardsMatch
<1>3. request[t].op \notin {"get", "scan", "count"}
  BY <1>2 DEF AInv, Progress, WritesAsked
<1>4. StageFor(pc[t]) \in {"asked", "performed"}
  BY <1>2, StageFacts DEF Writing
<1>5. View' = View
  BY <1>1 DEF View, tree
<1>6. /\ Stages' = [Stages EXCEPT ![t] = "dead"]
      /\ Seen' = [Seen EXCEPT ![t] = Nothing]
  <2>1. /\ Stages' = [Stages EXCEPT ![t] = StageFor("dead")]
        /\ Seen' = [Seen EXCEPT ![t] = SeenFor("dead", View')]
    BY <1>1, <1>5, Moves
  <2>2. StageFor("dead") = "dead" /\ SeenFor("dead", View') = Nothing
    BY StageFacts DEF SeenFor
  <2> QED
    BY <2>1, <2>2
<1>7. Stages[t] = StageFor(pc[t])
  BY StagesAt DEF Stages
<1> QED
  BY <1>1, <1>3, <1>4, <1>5, <1>6, <1>7 DEF Abstract!Die, Stages, Seen

LEMMA CallStep ==
  ASSUME AInv, NEW t \in Threads, NEW r \in Requests, Call(t, r)
  PROVE  Abstract!Invoke(t)
<1>1. /\ pc[t] = "idle" /\ pc' = [pc EXCEPT ![t] = "waiting"]
      /\ request' = [request EXCEPT ![t] = r] /\ answer' = [answer EXCEPT ![t] = Nothing]
      /\ UNCHANGED <<tree, poisoned>> /\ PcType
  BY DEF Call, MayCall, lock, AInv, IInv
<1>2. View' = View
  BY <1>1 DEF View, tree
<1>3. /\ Stages' = [Stages EXCEPT ![t] = "asked"] /\ Stages[t] = "idle"
      /\ Seen' = Seen
  <2>1. /\ Stages' = [Stages EXCEPT ![t] = StageFor("waiting")]
        /\ Seen' = [Seen EXCEPT ![t] = SeenFor("waiting", View')]
    BY <1>1, <1>2, Moves
  <2>2. StageFor("waiting") = "asked" /\ SeenFor("waiting", View') = Nothing
    BY StageFacts DEF SeenFor
  <2>3. Stages[t] = "idle" /\ Seen[t] = Nothing
    BY <1>1, StagesAt, StageFacts DEF Stages, Seen
  <2>4. Seen' = Seen
    BY <2>1, <2>2, <2>3 DEF Seen
  <2> QED
    BY <2>1, <2>2, <2>3, <2>4
<1> QED
  BY <1>1, <1>2, <1>3 DEF Abstract!Invoke, Stages, Seen

\* The steps of a read under its guard.
LEMMA ReadStep ==
  ASSUME AInv, Answering, NEW t \in Threads,
         Get(t) \/ ScanNext(t) \/ ScanDrop(t) \/ Count(t) \/ ScanAgain(t)
  PROVE  Abstract!Return(t) \/ UNCHANGED Abstract!vars
<1>1. ASSUME pc[t] \in Reading, UNCHANGED tree, NEW a, Leave(t, a),
             a \in Abstract!Answers(request[t], View)
      PROVE  Abstract!Return(t)
  <2>1. StageFor(pc[t]) = "performed" /\ PcType /\ View' = View
    BY <1>1, StageFacts DEF AInv, IInv, View, tree
  <2> QED
    BY <1>1, <2>1, ReturnStep
<1>2. CASE ScanNext(t) \/ ScanAgain(t)
  <2>1. UNCHANGED <<lock, tree, pc, request, answer>>
    BY <1>2 DEF ScanNext, ScanAgain
  <2> QED
    BY <2>1, SilentStep
<1>3. CASE Get(t)
  <2> DEFINE key == request[t].key
             known == at[t] <= Len(Layers) /\ Layers[at[t]][key] # "NotFound"
  <2>1. CASE UNCHANGED <<lock, tree, pc, request, rows, answer, calls>>
    BY <2>1, SilentStep
  <2>2. ASSUME NEW v, Leave(t, [x \in {key} |-> v]), UNCHANGED tree,
               \/ known /\ v = ToOption(Layers[at[t]][key])
               \/ at[t] > Len(Layers) /\ v = None
        PROVE  Abstract!Return(t)
    <3>1. pc[t] = "get"
      BY <1>3 DEF Get
    <3>2. [x \in {key} |-> v] \in Abstract!Answers(request[t], View)
      BY <2>2, <3>1, GetAnswer
    <3>3. pc[t] \in Reading
      BY <3>1 DEF Reading
    <3> QED
      BY <1>1, <2>2, <3>2, <3>3
  <2> QED
    BY <1>3, <2>1, <2>2 DEF Get
<1>4. CASE ScanDrop(t)
  <2>1. pc[t] \in Reading /\ UNCHANGED tree /\ \E a : a = rows[t] /\ Leave(t, a)
    BY <1>4 DEF ScanDrop, Reading
  <2>2. rows[t] \in Abstract!Answers(request[t], View)
    BY <1>4, ScanAnswer DEF ScanDrop
  <2> QED
    BY <1>1, <2>1, <2>2
<1>5. CASE Count(t)
  <2>1. pc[t] \in Reading /\ UNCHANGED tree /\ \E a : a = Len(sstables) /\ Leave(t, a)
    BY <1>5 DEF Count, Reading
  <2>2. request[t] \in Requests /\ request[t].op = "count"
    BY <1>5 DEF Count, AInv, IInv, RequestType, Progress, WritesAsked, Reading
  <2>3. Len(sstables) \in Nat
    BY LenProperties DEF AInv, TypeOK
  <2>4. Len(sstables) \in Abstract!Answers(request[t], View)
    BY <2>2, <2>3, AnswersOf
  <2> QED
    BY <1>1, <2>1, <2>4
<1> QED
  BY <1>2, <1>3, <1>4, <1>5

\* The steps of a writer that change no map, and its return.
LEMMA WriteStep ==
  ASSUME AInv, AInv', Answering, NEW t \in Threads,
         \/ Log(t) \/ FlushIfFull(t) \/ FlushClear(t) \/ FlushNothing(t)
         \/ CompactTake(t) \/ CompactNothing(t) \/ List(t)
  PROVE  Abstract!Return(t) \/ UNCHANGED Abstract!vars
<1>1. /\ pc[t] \in Writing /\ PcType /\ TreeType /\ TreeType'
      /\ pc[t] # "list" => inHand = <<>>
  <2>1. pc[t] \in Writing
    BY DEF Log, FlushIfFull, FlushClear, FlushNothing, CompactTake, CompactNothing, List,
           Writing
  <2>2. TreeType /\ TreeType' /\ PcType
    BY DEF AInv, TypeOK, TreeType, IInv
  <2> QED
    BY <2>1, <2>2, HandEmpty DEF AInv
<1>2. View' = View
  <2>1. CASE UNCHANGED tree
    BY <2>1 DEF View, tree
  <2>2. CASE FlushClear(t)
    BY <1>1, <2>2, FlushClearView DEF FlushClear
  <2>3. CASE CompactTake(t)
    BY <1>1, <2>3, CompactTakeView DEF CompactTake
  <2>4. CASE List(t)
    BY <1>1, <2>4, ListView
  <2> QED
    BY <2>1, <2>2, <2>3, <2>4 DEF Log, FlushIfFull, FlushNothing, CompactNothing
<1>3. ASSUME NEW a \in {Done, Error}, Leave(t, a), pc[t] \notin {"log", "memtable"}
      PROVE  Abstract!Return(t)
  <2>1. StageFor(pc[t]) = "performed"
    BY <1>1, <1>3, StageFacts DEF Writing
  <2>2. a = Error \/ a \in Abstract!Answers(request[t], View)
    BY <1>1, <1>3, WriteAnswer
  <2> QED
    BY <1>1, <1>2, <1>3, <2>1, <2>2, ReturnStep
<1>4. ASSUME NEW p, pc' = [pc EXCEPT ![t] = p], UNCHANGED <<lock, local>>,
             StageFor(p) = StageFor(pc[t])
      PROVE  UNCHANGED Abstract!vars
  <2>1. UNCHANGED <<poisoned, request, answer>>
    BY <1>4 DEF lock, local
  <2> QED
    BY <1>1, <1>2, <1>4, <2>1, HiddenStep
<1>5. CASE Log(t)
  <2>1. pc' = [pc EXCEPT ![t] = "memtable"] /\ UNCHANGED <<lock, local>> /\ pc[t] = "log"
    BY <1>5 DEF Log
  <2> QED
    BY <1>4, <2>1, StageFacts
<1>6. CASE FlushIfFull(t)
  <2>1. CASE Leave(t, Done)
    BY <1>3, <1>6, <2>1 DEF FlushIfFull
  <2>2. CASE pc' = [pc EXCEPT ![t] = "flush"] /\ UNCHANGED <<lock, local>>
    BY <1>4, <1>6, <2>2, StageFacts DEF FlushIfFull
  <2> QED
    BY <1>6, <2>1, <2>2 DEF FlushIfFull, FlushWithin
<1>7. CASE FlushClear(t) \/ CompactTake(t)
  <2>1. /\ pc' = [pc EXCEPT ![t] = "list"] /\ UNCHANGED <<lock, local>>
        /\ pc[t] \in {"flush", "compact"}
    BY <1>7 DEF FlushClear, CompactTake, lock, local
  <2> QED
    BY <1>4, <2>1, StageFacts
<1>8. CASE FlushNothing(t) \/ CompactNothing(t) \/ List(t)
  BY <1>3, <1>8 DEF FlushNothing, CompactNothing, List
<1> QED
  BY <1>5, <1>6, <1>7, <1>8

\* A call that meets an error, from the lock or from the system.
LEMMA ErrorStep ==
  ASSUME AInv, Answering, NEW t \in Threads, Poisoned(t) \/ Fails(t)
  PROVE  Abstract!Refuse(t) \/ Abstract!Return(t)
<1>1. /\ Leave(t, Error) /\ UNCHANGED tree /\ PcType
      /\ pc[t] \in {"waiting", "get", "scan", "log", "flush", "compact"}
  BY DEF Poisoned, Fails, AInv, IInv
<1>2. View' = View
  BY <1>1 DEF View, tree
<1>3. CASE pc[t] \in {"waiting", "log"}
  <2>1. StageFor(pc[t]) = "asked"
    BY <1>3, StageFacts
  <2> QED
    BY <1>1, <1>2, <2>1, RefuseStep
<1>4. CASE pc[t] \in {"get", "scan", "flush", "compact"}
  <2>1. StageFor(pc[t]) = "performed"
    BY <1>4, StageFacts DEF Reading
  <2> QED
    BY <1>1, <1>2, <2>1, ReturnStep
<1> QED
  BY <1>1, <1>3, <1>4

LEMMA AbstractNext ==
  AInv /\ AInv' /\ Answering /\ [Next]_vars => [Abstract!Next]_(Abstract!vars)
<1> SUFFICES ASSUME AInv, AInv', Answering, [Next]_vars
             PROVE  [Abstract!Next]_(Abstract!vars)
  OBVIOUS
<1>1. ASSUME UNCHANGED vars PROVE UNCHANGED Abstract!vars
  <2>1. UNCHANGED <<lock, tree, pc, request, answer>>
    BY <1>1 DEF vars, local
  <2> QED
    BY <2>1, SilentStep
<1>2. ASSUME NEW t \in Threads, NEW r \in Requests, Call(t, r) PROVE Abstract!Invoke(t)
  BY <1>2, CallStep
<1>3. ASSUME NEW t \in Threads, Step(t) \/ ScanAgain(t) \/ Panic(t)
      PROVE  \/ Abstract!Perform(t) \/ Abstract!Refuse(t) \/ Abstract!Return(t)
             \/ Abstract!Die(t) \/ UNCHANGED Abstract!vars
  <2>1. CASE Read(t) \/ Write(t)
    BY <2>1, GuardStep
  <2>2. CASE Get(t) \/ ScanNext(t) \/ ScanDrop(t) \/ Count(t) \/ ScanAgain(t)
    BY <2>2, ReadStep
  <2>3. CASE Log(t) \/ FlushIfFull(t) \/ FlushClear(t) \/ FlushNothing(t)
               \/ CompactTake(t) \/ CompactNothing(t) \/ List(t)
    BY <2>3, WriteStep
  <2>4. CASE Insert(t)
    BY <2>4, InsertStep
  <2>5. CASE Poisoned(t) \/ Fails(t)
    BY <2>5, ErrorStep
  <2>6. CASE Panic(t)
    BY <2>6, PanicStep
  <2> QED
    BY <1>3, <2>1, <2>2, <2>3, <2>4, <2>5, <2>6 DEF Step
<1> QED
  BY <1>1, <1>2, <1>3 DEF Next, Abstract!Next

\* Each call on the shared Engine takes effect at one moment (engine.rs:15): the
\* steps of its threads, behind the read-write lock, are those of AtomicMap.
THEOREM Implements == Spec => ImplementsAtomicMap
<1> QED
  BY ProgressInductive, AnsweringKept, AbstractInit, AbstractNext, PTL
     DEF Spec, ImplementsAtomicMap, Abstract!Spec
==============================================================================
