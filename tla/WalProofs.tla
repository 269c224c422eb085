------------------------------- MODULE WalProofs -------------------------------
(***************************************************************************)
(* What holds in every instance of Wal.                                    *)
(* FrontIntact: the records acknowledged before the first trouble stand at *)
(* the front of the log, byte for byte (WInv).                             *)
(* NoSilentLoss, AlwaysReplays: the file is the bytes of records of the    *)
(* history in their order, and at its end perhaps the first bytes of the   *)
(* latest; the disk holds what was synced (KInv).                          *)
(* ImplementsLogLayer: each step on the bytes is a step of the layer that  *)
(* the tree takes the log to be; a record goes out whole (LInv).           *)
(***************************************************************************)
EXTENDS Wal, OrderingProofs, SequenceTheorems

-----------------------------------------------------------------------------
(* Prefixes *)

LEMMA PrefixIs ==
  ASSUME NEW S, NEW s \in Seq(S), NEW t \in Seq(S)
  PROVE  IsPrefix(s, t) <=> Len(s) <= Len(t) /\ \A i \in 1 .. Len(s) : s[i] = t[i]
<1>1. Len(s) \in Nat /\ Len(t) \in Nat
  BY LenProperties
<1>2. SubSeq(s, 1, Len(s)) = s
  BY SubSeqFull
<1>3. ASSUME Len(s) <= Len(t)
      PROVE  s = SubSeq(t, 1, Len(s)) <=> \A i \in 1 .. Len(s) : s[i] = t[i]
  <2> DEFINE u == SubSeq(t, 1, Len(s))
  <2>1. \A i \in 1 .. Len(s) : t[i] \in S
    BY <1>1, <1>3, ElementOfSeq
  <2>2. /\ u \in Seq(S) /\ Len(u) = IF 1 <= Len(s) THEN Len(s) - 1 + 1 ELSE 0
        /\ \A i \in 1 .. Len(s) - 1 + 1 : u[i] = t[1 + i - 1]
    BY <1>1, <2>1, SubSeqProperties
  <2>3. Len(u) = Len(s) /\ \A i \in 1 .. Len(s) : u[i] = t[i]
    BY <1>1, <2>2
  <2> HIDE DEF u
  <2>4. (\A i \in 1 .. Len(s) : s[i] = t[i]) => s = u
    BY <2>2, <2>3, SeqEqual
  <2> QED
    BY <2>3, <2>4 DEF u
<1> QED
  BY <1>2, <1>3 DEF IsPrefix

LEMMA PrefixTransitive ==
  ASSUME NEW S, NEW s \in Seq(S), NEW t \in Seq(S), NEW u \in Seq(S),
         IsPrefix(s, t), IsPrefix(t, u)
  PROVE  IsPrefix(s, u)
<1>1. Len(s) \in Nat /\ Len(t) \in Nat /\ Len(u) \in Nat
  BY LenProperties
<1>2. /\ Len(s) <= Len(t) /\ \A i \in 1 .. Len(s) : s[i] = t[i]
      /\ Len(t) <= Len(u) /\ \A i \in 1 .. Len(t) : t[i] = u[i]
  BY PrefixIs
<1>3. Len(s) <= Len(u)
  BY <1>1, <1>2
<1>4. ASSUME NEW i \in 1 .. Len(s) PROVE s[i] = u[i]
  <2>1. i \in 1 .. Len(t)
    BY <1>1, <1>2
  <2> QED
    BY <1>2, <2>1
<1> QED
  BY <1>3, <1>4, PrefixIs

LEMMA PrefixConcat ==
  ASSUME NEW S, NEW s \in Seq(S), NEW t \in Seq(S)
  PROVE  s \o t \in Seq(S) /\ IsPrefix(s, s \o t) /\ IsPrefix(s, s) /\ IsPrefix(<<>>, s)
<1>1. Len(s) \in Nat /\ Len(t) \in Nat
  BY LenProperties
<1>2. s \o t \in Seq(S) /\ Len(s \o t) = Len(s) + Len(t)
      /\ \A i \in 1 .. Len(s) + Len(t) : (s \o t)[i] = IF i <= Len(s) THEN s[i] ELSE t[i - Len(s)]
  BY ConcatProperties
<1>3. IsPrefix(s, s \o t)
  <2> DEFINE u == s \o t
  <2>1. u \in Seq(S) /\ Len(s) <= Len(u) /\ \A i \in 1 .. Len(s) : s[i] = u[i]
    BY <1>1, <1>2
  <2> HIDE DEF u
  <2>2. IsPrefix(s, u)
    BY <2>1, PrefixIs
  <2> QED
    BY <2>2 DEF u
<1>4. IsPrefix(s, s)
  <2>1. Len(s) <= Len(s) /\ \A i \in 1 .. Len(s) : s[i] = s[i]
    BY <1>1
  <2> QED
    BY <2>1, PrefixIs
<1>5. IsPrefix(<<>>, s)
  <2> DEFINE e == <<>>
  <2>1. e \in Seq(S) /\ Len(e) = 0
    BY EmptySeq
  <2> HIDE DEF e
  <2>2. Len(e) <= Len(s) /\ \A i \in 1 .. Len(e) : e[i] = s[i]
    BY <1>1, <2>1
  <2>3. IsPrefix(e, s)
    BY <2>1, <2>2, PrefixIs
  <2> QED
    BY <2>3 DEF e
<1> QED
  BY <1>2, <1>3, <1>4, <1>5

LEMMA Cutting ==
  ASSUME NEW S, NEW t \in Seq(S), NEW n \in 0 .. Len(t)
  PROVE  /\ SubSeq(t, 1, n) \in Seq(S) /\ Len(SubSeq(t, 1, n)) = n
         /\ \A i \in 1 .. n : SubSeq(t, 1, n)[i] = t[i]
         /\ \A s \in Seq(S) : IsPrefix(s, t) /\ Len(s) <= n => IsPrefix(s, SubSeq(t, 1, n))
<1> DEFINE u == SubSeq(t, 1, n)
<1>1. n \in Nat /\ Len(t) \in Nat /\ n <= Len(t)
  BY LenProperties
<1>2. \A i \in 1 .. n : t[i] \in S
  BY <1>1, ElementOfSeq
<1>3. /\ u \in Seq(S) /\ Len(u) = IF 1 <= n THEN n - 1 + 1 ELSE 0
      /\ \A i \in 1 .. n - 1 + 1 : u[i] = t[1 + i - 1]
  BY <1>1, <1>2, SubSeqProperties
<1>4. Len(u) = n /\ \A i \in 1 .. n : u[i] = t[i]
  BY <1>1, <1>3
<1> HIDE DEF u
<1>5. ASSUME NEW s \in Seq(S), IsPrefix(s, t), Len(s) <= n PROVE IsPrefix(s, u)
  <2>1. Len(s) \in Nat /\ \A i \in 1 .. Len(s) : s[i] = t[i]
    BY <1>5, PrefixIs, LenProperties
  <2>2. \A i \in 1 .. Len(s) : i \in 1 .. n
    BY <1>1, <1>5, <2>1
  <2>3. \A i \in 1 .. Len(s) : s[i] = u[i]
    BY <1>4, <2>1, <2>2
  <2> QED
    BY <1>3, <1>4, <1>5, <2>3, PrefixIs
<1> QED
  BY <1>3, <1>4, <1>5 DEF u

-----------------------------------------------------------------------------
(* The bytes of a record, and of the records of a history *)

LEMMA NumberCells ==
  ASSUME NEW n \in 0 .. Tombstone
  PROVE  Number(n) \in Seq(Cells)
<1>1. Base \in Nat \ {0}
  BY SizesAssumption
<1> DEFINE q == n \div Base
           r == n % Base
<1>2. n = Base * q + r /\ r \in 0 .. Base - 1 /\ q \in Int
  BY <1>1
<1>3. q \in 0 .. Base - 1
  <2>1. n >= 0 /\ n < Base * Base
    BY <1>1 DEF Tombstone
  <2> HIDE DEF q, r
  <2>2. q < Base
    BY <1>1, <1>2, <2>1
  <2>3. q >= 0
    BY <1>1, <1>2, <2>1
  <2> QED
    BY <1>1, <1>2, <2>2, <2>3
<1> HIDE DEF q, r
<1>4. q \in Cells /\ r \in Cells
  BY <1>2, <1>3 DEF Cells
<1>5. <<r, q>> \in Seq(Cells)
  BY <1>4
<1> QED
  BY <1>5 DEF Number, q, r

LEMMA RecordsAre ==
  ASSUME NEW r \in Records \cup {NoRecord}
  PROVE  /\ r.key \in Seq(Cells) /\ Len(r.key) \in 0 .. Tombstone
         /\ r.value # <<>> => r.value[1] \in Seq(Cells) /\ Len(r.value[1]) \in 0 .. Tombstone
<1>1. Base \in Nat \ {0} /\ Tombstone \in Nat
  BY SizesAssumption DEF Tombstone
<1>2. \A s \in Keys \cup Values : s \in Seq(Cells) /\ Len(s) \in 0 .. Tombstone
  BY <1>1, SizesAssumption, LenProperties
<1>3. CASE r = NoRecord
  BY <1>1, <1>3, EmptySeq DEF NoRecord
<1>4. CASE r \in Records
  <2>1. r.key \in Keys
    BY <1>4 DEF Records
  <2>2. r.value # <<>> => r.value[1] \in Values
    BY <1>4 DEF Records
  <2> QED
    BY <1>2, <2>1, <2>2
<1> QED
  BY <1>3, <1>4

LEMMA ChunksCells ==
  ASSUME NEW r \in Records \cup {NoRecord}
  PROVE  Chunks(r) \in Seq(Seq(Cells)) /\ Len(Chunks(r)) <= 4
<1> DEFINE key == <<Number(Len(r.key)), r.key>>
           value == IF r.value = <<>> THEN <<Number(Tombstone)>>
                    ELSE <<Number(Len(r.value[1])), r.value[1]>>
<1>1. Number(Len(r.key)) \in Seq(Cells) /\ r.key \in Seq(Cells)
  BY RecordsAre, NumberCells
<1>2. Number(Tombstone) \in Seq(Cells)
  <2>1. Tombstone \in 0 .. Tombstone
    BY SizesAssumption DEF Tombstone
  <2> QED
    BY <2>1, NumberCells
<1>3. r.value # <<>> => Number(Len(r.value[1])) \in Seq(Cells) /\ r.value[1] \in Seq(Cells)
  BY RecordsAre, NumberCells
<1>4. key \in Seq(Seq(Cells)) /\ Len(key) = 2
  BY <1>1
<1>5. value \in Seq(Seq(Cells)) /\ Len(value) \in 1 .. 2
  BY <1>2, <1>3
<1> HIDE DEF key, value
<1>6. key \o value \in Seq(Seq(Cells)) /\ Len(key \o value) = Len(key) + Len(value)
  BY <1>4, <1>5, ConcatProperties
<1>7. Len(key \o value) <= 4
  <2>1. \A m, n : m = 2 /\ n \in 1 .. 2 => m + n <= 4
    OBVIOUS
  <2> QED
    BY <1>4, <1>5, <1>6, <2>1
<1> QED
  BY <1>6, <1>7 DEF Chunks, key, value

Bytes(r) == FlattenSeq(Chunks(r))

LEMMA BytesCells == ASSUME NEW r \in Records \cup {NoRecord} PROVE Bytes(r) \in Seq(Cells)
BY ChunksCells, FlattenAppend, EmptySeq DEF Bytes

Event == [record : Records \cup {NoRecord}, acked : BOOLEAN]
History == Seq(Event)

LEMMA EventAt ==
  ASSUME NEW l \in History, NEW i \in 1 .. Len(l)
  PROVE  l[i] \in Event /\ l[i].acked \in BOOLEAN /\ Bytes(l[i].record) \in Seq(Cells)
<1>1. l[i] \in Event
  BY ElementOfSeq DEF History
<1>2. l[i].record \in Records \cup {NoRecord} /\ l[i].acked \in BOOLEAN
  BY <1>1 DEF Event
<1> QED
  BY <1>1, <1>2, BytesCells

LEMMA HistoryLen == ASSUME NEW l \in History PROVE Len(l) \in Nat
BY LenProperties DEF History

\* What the log holds when the first n records of a history are in it.
Laid(l, n) == FlattenSeq([i \in 1 .. n |-> Bytes(l[i].record)])

LEMMA LaidCells ==
  ASSUME NEW l \in History, NEW n \in 0 .. Len(l)
  PROVE  Laid(l, n) \in Seq(Cells)
<1> DEFINE all == [i \in 1 .. n |-> Bytes(l[i].record)]
<1>1. n \in Nat /\ \A i \in 1 .. n : i \in 1 .. Len(l)
  BY HistoryLen
<1>2. all \in Seq(Seq(Cells))
  <2>1. \A i \in 1 .. n : Bytes(l[i].record) \in Seq(Cells)
    BY <1>1, EventAt
  <2> QED
    BY <1>1, <2>1, IsASeq
<1> HIDE DEF all
<1>3. FlattenSeq(all) \in Seq(Cells)
  BY <1>2, FlattenAppend, EmptySeq
<1> QED
  BY <1>3 DEF Laid, all

LEMMA LaidStep ==
  ASSUME NEW l \in History, NEW n \in 0 .. Len(l) - 1
  PROVE  Laid(l, n + 1) = Laid(l, n) \o Bytes(l[n + 1].record)
<1> DEFINE all(k) == [i \in 1 .. k |-> Bytes(l[i].record)]
           x == Bytes(l[n + 1].record)
<1>1. n \in Nat /\ \A i \in 1 .. n + 1 : i \in 1 .. Len(l)
  BY HistoryLen
<1>2. \A i \in 1 .. n + 1 : Bytes(l[i].record) \in Seq(Cells)
  BY <1>1, EventAt
<1>3. all(n) \in Seq(Seq(Cells)) /\ all(n + 1) \in Seq(Seq(Cells)) /\ x \in Seq(Cells)
  BY <1>1, <1>2, IsASeq
<1>4. all(n + 1) = Append(all(n), x)
  <2> DEFINE a == all(n)
             b == all(n + 1)
  <2>1. Len(a) = n /\ Len(b) = n + 1
    BY <1>1
  <2>2. /\ \A i \in 1 .. n : a[i] = b[i]
        /\ b[n + 1] = x
    BY <1>1
  <2>3. a \in Seq(Seq(Cells)) /\ b \in Seq(Seq(Cells))
    BY <1>3
  <2> HIDE DEF a, b, x
  <2> DEFINE c == Append(a, x)
  <2>4. /\ c \in Seq(Seq(Cells)) /\ Len(c) = n + 1
        /\ \A i \in 1 .. n : c[i] = a[i]
        /\ c[n + 1] = x
    BY <1>3, <2>1, <2>3, AppendProperties
  <2> HIDE DEF c
  <2>5. \A i \in 1 .. n + 1 : b[i] = c[i]
    BY <1>1, <2>2, <2>4
  <2>6. b = c
    BY <2>1, <2>3, <2>4, <2>5, SeqEqual
  <2> QED
    BY <2>6 DEF a, b, c
<1>5. FlattenSeq(all(n + 1)) = FlattenSeq(all(n)) \o x
  <2> HIDE DEF all, x
  <2> QED
    BY <1>3, <1>4, FlattenAppend
<1> QED
  BY <1>5 DEF Laid

LEMMA LaidNone == ASSUME NEW l PROVE Laid(l, 0) = <<>>
<1>1. [i \in 1 .. 0 |-> Bytes(l[i].record)] = <<>>
  OBVIOUS
<1> QED
  BY <1>1 DEF Laid, FlattenSeq

LEMMA LaidSame ==
  ASSUME NEW l, NEW m, NEW n \in Nat, \A i \in 1 .. n : l[i].record = m[i].record
  PROVE  Laid(l, n) = Laid(m, n)
<1>1. [i \in 1 .. n |-> Bytes(l[i].record)] = [i \in 1 .. n |-> Bytes(m[i].record)]
  OBVIOUS
<1> QED
  BY <1>1 DEF Laid

LEMMA EncodedLaid == ASSUME NEW n PROVE Encoded(n) = Laid(log, n)
BY DEF Encoded, Laid, Bytes

-----------------------------------------------------------------------------
(* The invariant *)

Settled(n) == \A i \in 1 .. n : log[i].acked
Quiet == Settled(Len(log))                            \* all there is, is acknowledged
InFlight == pc = "put" /\ Settled(Len(log) - 1)       \* ... but the record being put
Fresh == log = <<>> \/ log[1].acked

Appending == at \in {Append_, Len(file)}

\* While the last record is put, the first of its chunks are in the file and the
\* buffer, after the bytes of the records before it; the others are to come.
Filling ==
  LET chunks == Chunks(log[Len(log)].record)
  IN  \E j \in 0 .. Len(chunks) :
        /\ queue = SubSeq(chunks, j + 1, Len(chunks))
        /\ file \o buf = Laid(log, Len(log) - 1) \o FlattenSeq(SubSeq(chunks, 1, j))

\* Until the first trouble the file is what the history says, and the handle
\* stands at its end.  After it the bytes already synced stay, since the handle
\* only adds to the file; and a clear, which cuts it, starts the history again.
PutsLast == pc = "put" => log # <<>> /\ ~log[Len(log)].acked
CutIsEmpty == pc = "clear_sync" => file = <<>> /\ \A i \in DOMAIN log : ~log[i].acked
AtTheEnd == Fresh \/ InFlight => Appending /\ IsPrefix(disk, file)
FrontSynced == \A n \in 0 .. Len(log) : Settled(n) => IsPrefix(Laid(log, n), disk)
QuietIsExact == Quiet => file = Laid(log, Len(log)) /\ disk = file /\ buf = <<>>
InFlightFills == InFlight => disk = Laid(log, Len(log) - 1) /\ Filling

WInv == TypeOK /\ PutsLast /\ CutIsEmpty /\ AtTheEnd /\ FrontSynced /\ QuietIsExact /\ InFlightFills

-----------------------------------------------------------------------------
(* Types *)

LEMMA WrittenIs ==
  ASSUME file \in Seq(Cells), NEW offset \in {Append_} \cup Nat, NEW cells \in Seq(Cells)
  PROVE  /\ Written(offset, cells) \in Seq(Cells)
         /\ offset \in {Append_, Len(file)} => Written(offset, cells) = file \o cells
         /\ cells = <<>> => Written(offset, cells) = file
<1> DEFINE from == IF offset = Append_ THEN Len(file) ELSE offset
           to == IF cells = <<>> THEN 0 ELSE from + Len(cells)
           size == IF to > Len(file) THEN to ELSE Len(file)
           At(i) == IF i > from /\ i <= to THEN cells[i - from]
                    ELSE IF i <= Len(file) THEN file[i] ELSE 0
           all == [i \in 1 .. size |-> At(i)]
<1>1. /\ Len(file) \in Nat /\ \A i \in 1 .. Len(file) : file[i] \in Cells
      /\ Len(cells) \in Nat /\ \A i \in 1 .. Len(cells) : cells[i] \in Cells
      /\ cells = <<>> <=> Len(cells) = 0
  BY LenProperties, ElementOfSeq, EmptySeq
<1>2. 0 \in Cells
  BY SizesAssumption DEF Cells
<1>3. from \in Nat /\ to \in Nat /\ size \in Nat /\ Len(file) <= size
  BY <1>1 DEF Append_
<1>4. to # 0 => to = from + Len(cells)
  OBVIOUS
<1>5. Written(offset, cells) = all
  BY DEF Written
<1> HIDE DEF from, to
<1>6. ASSUME NEW i \in 1 .. size PROVE At(i) \in Cells
  <2>1. CASE i > from /\ i <= to
    <3>1. i - from \in 1 .. Len(cells)
      BY <1>1, <1>3, <1>4, <2>1
    <3> QED
      BY <1>1, <2>1, <3>1
  <2>2. CASE ~(i > from /\ i <= to)
    <3>1. i <= Len(file) => i \in 1 .. Len(file)
      BY <1>1, <1>3
    <3> QED
      BY <1>1, <1>2, <2>2, <3>1
  <2> QED
    BY <2>1, <2>2
<1>7. all \in Seq(Cells)
  <2> HIDE DEF At
  <2> QED
    BY <1>3, <1>6, IsASeq
<1>8. ASSUME offset \in {Append_, Len(file)} PROVE all = file \o cells
  <2>1. from = Len(file)
    BY <1>8 DEF from
  <2>2. size = Len(file) + Len(cells)
    BY <1>1, <1>3, <1>4, <2>1 DEF to
  <2> DEFINE both == file \o cells
  <2>3. /\ both \in Seq(Cells) /\ Len(both) = Len(file) + Len(cells)
        /\ \A i \in 1 .. Len(file) + Len(cells) :
             both[i] = IF i <= Len(file) THEN file[i] ELSE cells[i - Len(file)]
    BY ConcatProperties
  <2> HIDE DEF both
  <2>4. ASSUME NEW i \in 1 .. size PROVE At(i) = both[i]
    <3>1. CASE i <= Len(file)
      BY <1>1, <1>3, <2>1, <2>2, <2>3, <3>1
    <3>2. CASE ~(i <= Len(file))
      <4>1. Len(cells) # 0 /\ i > from
        BY <1>1, <2>1, <2>2, <3>2
      <4>2. to = from + Len(cells)
        BY <1>1, <4>1 DEF to
      <4>3. i <= to
        BY <1>1, <2>1, <2>2, <4>2
      <4> QED
        BY <2>1, <2>2, <2>3, <3>2, <4>1, <4>3
    <3> QED
      BY <3>1, <3>2
  <2>5. Len(all) = size /\ \A i \in 1 .. size : all[i] = At(i)
    BY <1>3
  <2> HIDE DEF all, At, size
  <2> QED
    BY <1>7, <2>2, <2>3, <2>4, <2>5, SeqEqual DEF both
<1>9. ASSUME cells = <<>> PROVE all = file
  <2>1. to = 0 /\ size = Len(file)
    BY <1>1, <1>9 DEF to
  <2>2. \A i \in 1 .. size : all[i] = file[i]
    BY <1>1, <1>3, <2>1
  <2>3. Len(all) = size
    BY <1>3
  <2> HIDE DEF all, size
  <2> QED
    BY <1>7, <2>1, <2>2, <2>3, SeqEqual
<1> QED
  BY <1>5, <1>7, <1>8, <1>9

LEMMA WriteCallIs ==
  ASSUME file \in Seq(Cells), at \in {Append_} \cup Nat,
         NEW cells \in Seq(Cells), WriteCall(cells)
  PROVE  /\ file' \in Seq(Cells) /\ at' \in {Append_} \cup Nat
         /\ Appending => Appending' /\ file' = file \o cells
<1>1. file' \in Seq(Cells) /\ (Appending => file' = file \o cells)
  BY WrittenIs DEF WriteCall, Appending
<1>2. Len(cells) \in Nat /\ Len(file) \in Nat
  BY LenProperties
<1>3. at' \in {Append_} \cup Nat
  BY <1>2 DEF WriteCall
<1>4. Appending => Appending'
  <2> SUFFICES ASSUME Appending PROVE Appending'
    OBVIOUS
  <2>1. Len(file') = Len(file) + Len(cells)
    BY <1>1, ConcatProperties
  <2> QED
    BY <2>1 DEF Appending, WriteCall
<1> QED
  BY <1>1, <1>3, <1>4

LEMMA QueueStep ==
  ASSUME TypeOK, queue # <<>>
  PROVE  /\ Head(queue) \in Seq(Cells)
         /\ Tail(queue) \in Seq(Seq(Cells)) /\ Len(Tail(queue)) <= 4
<1>1. queue \in Seq(Seq(Cells)) /\ Len(queue) <= 4
  BY DEF TypeOK
<1>2. Len(queue) \in Nat
  BY <1>1, LenProperties
<1>3. /\ Head(queue) \in Seq(Cells) /\ Tail(queue) \in Seq(Seq(Cells))
      /\ Len(Tail(queue)) = Len(queue) - 1
  BY <1>1, HeadTailProperties
<1> QED
  BY <1>1, <1>2, <1>3

LEMMA ReleasedIs ==
  ASSUME log \in History
  PROVE  /\ Released \in History /\ Len(Released) = Len(log)
         /\ \A i \in 1 .. Len(log) : ~Released[i].acked
<1>1. Len(log) \in Nat /\ DOMAIN log = 1 .. Len(log)
  BY LenProperties DEF History
<1>2. \A i \in 1 .. Len(log) : [log[i] EXCEPT !.acked = FALSE] \in Event
  BY EventAt DEF Event
<1> DEFINE R(i) == [log[i] EXCEPT !.acked = FALSE]
<1>3. Released = [i \in 1 .. Len(log) |-> R(i)]
  BY <1>1 DEF Released
<1>4. [i \in 1 .. Len(log) |-> R(i)] \in Seq(Event)
  <2> HIDE DEF R
  <2>1. \A i \in 1 .. Len(log) : R(i) \in Event
    BY <1>2 DEF R
  <2> QED
    BY <1>1, <2>1, IsASeq
<1>5. \A i \in 1 .. Len(log) : ~R(i).acked
  BY EventAt DEF Event
<1>6. Len(Released) = Len(log)
  BY <1>1, <1>3
<1> QED
  BY <1>3, <1>4, <1>5, <1>6 DEF History

LEMMA InitTypes == Init => TypeOK
<1> SUFFICES ASSUME Init PROVE TypeOK
  OBVIOUS
<1>1. <<>> \in Seq(Cells) /\ <<>> \in Seq(Seq(Cells)) /\ <<>> \in History /\ Len(<<>>) = 0
  BY EmptySeq DEF History
<1>2. Capacity \in Nat
  BY SizesAssumption
<1> QED
  BY <1>1, <1>2 DEF Init, TypeOK, History, Event

LEMMA TypesStep == TypeOK /\ [Next]_vars => TypeOK'
<1> SUFFICES ASSUME TypeOK, [Next]_vars PROVE TypeOK'
  OBVIOUS
<1>1. /\ file \in Seq(Cells) /\ disk \in Seq(Cells)
      /\ buf \in Seq(Cells) /\ Len(buf) <= Capacity
      /\ at \in {Append_} \cup Nat
      /\ queue \in Seq(Seq(Cells)) /\ Len(queue) <= 4
      /\ pc \in {"idle", "put", "clear_sync", "down"}
      /\ log \in History
      /\ scenario \in Scenarios
  BY DEF TypeOK, History, Event
<1>2. /\ <<>> \in Seq(Cells) /\ <<>> \in Seq(Seq(Cells)) /\ <<>> \in History
      /\ Len(<<>>) = 0 /\ 0 <= Capacity /\ Capacity \in Nat
  BY EmptySeq, SizesAssumption DEF History
<1>3. scenario.records \subseteq Records
  BY <1>1, ScenariosAssumption
<1>4. Len(buf) \in Nat /\ Len(file) \in Nat /\ Len(log) \in Nat
  BY <1>1, LenProperties DEF History
<1> DEFINE Goal == /\ file' \in Seq(Cells) /\ disk' \in Seq(Cells)
                   /\ buf' \in Seq(Cells) /\ Len(buf') <= Capacity
                   /\ at' \in {Append_} \cup Nat
                   /\ queue' \in Seq(Seq(Cells)) /\ Len(queue') <= 4
                   /\ pc' \in {"idle", "put", "clear_sync", "down"}
                   /\ log' \in History
                   /\ scenario' \in Scenarios
<1> SUFFICES Goal
  BY DEF TypeOK, History, Event
<1>5. ASSUME NEW r \in scenario.records, Start(r) PROVE Goal
  <2>1. Chunks(r) \in Seq(Seq(Cells)) /\ Len(Chunks(r)) <= 4
    <3>1. r \in Records \cup {NoRecord}
      BY <1>3
    <3> QED
      BY <3>1, ChunksCells
  <2>2. [record |-> r, acked |-> FALSE] \in Event
    BY <1>3 DEF Event
  <2>3. Append(log, [record |-> r, acked |-> FALSE]) \in History
    BY <1>1, <2>2, AppendProperties DEF History
  <2> QED
    BY <1>1, <1>5, <2>1, <2>3 DEF Start
<1>6. CASE Buffer
  <2>1. Head(queue) \in Seq(Cells) /\ Tail(queue) \in Seq(Seq(Cells)) /\ Len(Tail(queue)) <= 4
    BY <1>6, QueueStep DEF Buffer
  <2>2. buf \o Head(queue) \in Seq(Cells) /\ Len(buf \o Head(queue)) = Len(buf) + Len(Head(queue))
    BY <1>1, <2>1, ConcatProperties
  <2>3. Len(Head(queue)) <= Capacity - Len(buf) /\ Len(Head(queue)) \in Nat
    BY <1>6, <2>1, LenProperties DEF Buffer, Spare
  <2>4. Len(buf \o Head(queue)) <= Capacity
    BY <1>2, <1>4, <2>2, <2>3
  <2> QED
    BY <1>1, <1>6, <2>1, <2>2, <2>4 DEF Buffer
<1>7. CASE Empty
  BY <1>1, <1>2, <1>7, WriteCallIs DEF Empty
<1>8. CASE PassOn
  <2>1. Head(queue) \in Seq(Cells) /\ Tail(queue) \in Seq(Seq(Cells)) /\ Len(Tail(queue)) <= 4
    BY <1>8, QueueStep DEF PassOn, PassingOn
  <2> QED
    BY <1>1, <1>8, <2>1, WriteCallIs DEF PassOn
<1>9. CASE WriteFails
  <2>1. /\ queue' = <<>> /\ pc' = "idle" /\ disk' = disk /\ log' = log /\ scenario' = scenario
    BY <1>9 DEF WriteFails
  <2> DEFINE Partly == /\ file' \in Seq(Cells) /\ at' \in {Append_} \cup Nat
                       /\ buf' \in Seq(Cells) /\ Len(buf') <= Capacity
  <2>2. Partly
    <3>1. ASSUME NEW n \in 0 .. Len(buf) - 1,
                 WriteCall(SubSeq(buf, 1, n)), buf' = SubSeq(buf, n + 1, Len(buf))
          PROVE  Partly
      <4>1. n \in Nat /\ n <= Len(buf)
        BY <1>4
      <4>2. SubSeq(buf, 1, n) \in Seq(Cells)
        BY <1>1, <1>4, <4>1, Cutting
      <4>3. \A i \in n + 1 .. Len(buf) : buf[i] \in Cells
        BY <1>1, <1>4, <4>1, ElementOfSeq
      <4>4. /\ SubSeq(buf, n + 1, Len(buf)) \in Seq(Cells)
            /\ Len(SubSeq(buf, n + 1, Len(buf))) =
                 IF n + 1 <= Len(buf) THEN Len(buf) - (n + 1) + 1 ELSE 0
        BY <1>4, <4>1, <4>3, SubSeqProperties
      <4>5. Len(SubSeq(buf, n + 1, Len(buf))) <= Capacity
        BY <1>1, <1>2, <1>4, <4>1, <4>4
      <4> QED
        BY <1>1, <3>1, <4>2, <4>4, <4>5, WriteCallIs
    <3>2. ASSUME NEW n \in 0 .. Len(Head(queue)) - 1, PassingOn,
                 WriteCall(SubSeq(Head(queue), 1, n)), buf' = buf
          PROVE  Partly
      <4>1. Head(queue) \in Seq(Cells)
        BY <3>2, QueueStep DEF PassingOn
      <4>2. Len(Head(queue)) \in Nat
        BY <4>1, LenProperties
      <4>3. n \in 0 .. Len(Head(queue))
        BY <4>2
      <4>4. SubSeq(Head(queue), 1, n) \in Seq(Cells)
        BY <4>1, <4>3, Cutting
      <4> QED
        BY <1>1, <3>2, <4>4, WriteCallIs
    <3> QED
      BY <1>9, <3>1, <3>2 DEF WriteFails
  <2> QED
    BY <1>1, <1>2, <2>1, <2>2
<1>10. CASE Sync
  <2>1. [log EXCEPT ![Len(log)].acked = TRUE] \in History
    <3>1. ASSUME Len(log) \in 1 .. Len(log) PROVE [log EXCEPT ![Len(log)].acked = TRUE] \in History
      <4>1. [log[Len(log)] EXCEPT !.acked = TRUE] \in Event
        BY <1>1, <3>1, EventAt DEF Event
      <4>2. [log EXCEPT ![Len(log)] = [log[Len(log)] EXCEPT !.acked = TRUE]] \in Seq(Event)
        BY <1>1, <3>1, <4>1, ExceptSeq DEF History
      <4> QED
        BY <4>2 DEF History
    <3>2. ASSUME Len(log) \notin 1 .. Len(log) PROVE [log EXCEPT ![Len(log)].acked = TRUE] = log
      BY <1>1, <3>2, LenProperties DEF History
    <3> QED
      BY <1>1, <3>1, <3>2
  <2> QED
    BY <1>1, <1>10, <2>1 DEF Sync, SyncedNow
<1>11. CASE SyncFails
  BY <1>1, <1>11 DEF SyncFails
<1>12. CASE Truncate
  BY <1>1, <1>2, <1>12, ReleasedIs DEF Truncate, Truncated
<1>13. CASE TruncateFails
  BY <1>1, <1>13, ReleasedIs DEF TruncateFails
<1>14. CASE ClearSync
  <2>1. Written(at, buf) \in Seq(Cells)
    BY <1>1, WrittenIs
  <2>2. Debris \in Event
    BY DEF Debris, Event
  <2>3. <<Debris>> \in History
    BY <2>2 DEF History
  <2> QED
    BY <1>1, <1>2, <1>14, <2>1, <2>3 DEF ClearSync
<1>15. CASE ClearSyncFails
  BY <1>1, <1>15 DEF ClearSyncFails
<1>16. CASE Close
  <2>1. Written(at, buf) \in Seq(Cells)
    BY <1>1, WrittenIs
  <2> QED
    BY <1>1, <1>2, <1>16, <2>1 DEF Close, WriterLost, OpenedAt
<1>17. CASE Kill
  BY <1>1, <1>2, <1>17 DEF Kill, WriterLost, OpenedAt
<1>18. CASE PowerLoss
  <2>1. \A f \in Outcomes : f \in Seq(Cells)
    <3>1. ASSUME NEW n \in (IF IsPrefix(disk, file) THEN Len(disk) ELSE 0) .. Len(file)
          PROVE  SubSeq(file, 1, n) \in Seq(Cells)
      <4>1. n \in 0 .. Len(file)
        BY <1>1, <1>4, LenProperties
      <4> QED
        BY <1>1, <4>1, Cutting
    <3> QED
      BY <1>1, <3>1 DEF Outcomes
  <2> QED
    BY <1>1, <1>2, <1>18, <2>1 DEF PowerLoss, WriterLost, OpenedAt
<1>19. CASE Open
  BY <1>1, <1>19 DEF Open
<1>20. CASE UNCHANGED vars
  BY <1>1, <1>20 DEF vars
<1> HIDE DEF Goal
<1> QED
  BY <1>5, <1>6, <1>7, <1>8, <1>9, <1>10, <1>11, <1>12, <1>13, <1>14, <1>15, <1>16,
     <1>17, <1>18, <1>19, <1>20 DEF Next

-----------------------------------------------------------------------------
(* Steps that leave the history alone *)

\* A handle at the end of the file stays there, and the file only grows.
Adds == Appending => Appending' /\ \E x \in Seq(Cells) : file' = file \o x

LEMMA WInvTypes ==
  ASSUME TypeOK
  PROVE  /\ file \in Seq(Cells) /\ disk \in Seq(Cells) /\ buf \in Seq(Cells)
         /\ at \in {Append_} \cup Nat /\ queue \in Seq(Seq(Cells))
         /\ log \in History /\ Len(log) \in Nat /\ DOMAIN log = 1 .. Len(log)
         /\ log # <<>> <=> Len(log) \in Nat \ {0}
<1>1. log \in Seq(Event)
  BY DEF TypeOK, Event
<1>2. Len(log) \in Nat /\ DOMAIN log = 1 .. Len(log) /\ (log # <<>> <=> Len(log) \in Nat \ {0})
  BY <1>1, LenProperties, EmptySeq
<1> QED
  BY <1>1, <1>2 DEF TypeOK, History

LEMMA AddsPrefix ==
  ASSUME TypeOK, Adds, Appending, IsPrefix(disk, file)
  PROVE  Appending' /\ file' \in Seq(Cells) /\ IsPrefix(disk, file')
<1>1. file \in Seq(Cells) /\ disk \in Seq(Cells)
  BY WInvTypes
<1>2. PICK x \in Seq(Cells) : file' = file \o x
  BY DEF Adds
<1>3. file \o x \in Seq(Cells) /\ IsPrefix(file, file \o x)
  BY <1>1, PrefixConcat
<1>4. IsPrefix(disk, file \o x)
  BY <1>1, <1>3, PrefixTransitive
<1> QED
  BY <1>2, <1>3, <1>4 DEF Adds

LEMMA SameHistory ==
  ASSUME log' = log
  PROVE  /\ \A n : Settled(n)' <=> Settled(n)
         /\ Quiet' <=> Quiet
         /\ Fresh' <=> Fresh
         /\ \A n : Laid(log', n) = Laid(log, n)
BY DEF Settled, Quiet, Fresh

\* A call that returns, and the end of the process.
LEMMA CallEnds ==
  ASSUME WInv, log' = log, disk' = disk, TypeOK',
         pc' \notin {"put", "clear_sync"}, Adds,
         Quiet => file' = file /\ buf' = <<>>
  PROVE  WInv'
<1>1. PutsLast' /\ CutIsEmpty' /\ InFlightFills'
  BY DEF PutsLast, CutIsEmpty, InFlightFills, InFlight
<1>2. AtTheEnd'
  <2> SUFFICES ASSUME Fresh' PROVE Appending' /\ IsPrefix(disk', file')
    BY DEF AtTheEnd, InFlight
  <2>1. Appending /\ IsPrefix(disk, file)
    BY SameHistory DEF WInv, AtTheEnd
  <2> QED
    BY <2>1, AddsPrefix DEF WInv
<1>3. FrontSynced'
  BY SameHistory DEF WInv, FrontSynced
<1>4. QuietIsExact'
  BY SameHistory DEF WInv, QuietIsExact
<1> QED
  BY <1>1, <1>2, <1>3, <1>4 DEF WInv

\* A step of a put on its way.
LEMMA PutGoesOn ==
  ASSUME WInv, log' = log, disk' = disk, TypeOK', pc = "put", pc' = "put", Adds,
         InFlight => Filling'
  PROVE  WInv'
<1>1. log # <<>> /\ ~log[Len(log)].acked
  BY DEF WInv, PutsLast
<1>2. PutsLast' /\ CutIsEmpty'
  BY <1>1 DEF PutsLast, CutIsEmpty
<1>3. InFlight' <=> InFlight
  BY SameHistory DEF InFlight
<1>4. AtTheEnd'
  <2> SUFFICES ASSUME Fresh' \/ InFlight' PROVE Appending' /\ IsPrefix(disk', file')
    BY DEF AtTheEnd
  <2>1. Appending /\ IsPrefix(disk, file)
    BY <1>3, SameHistory DEF WInv, AtTheEnd
  <2> QED
    BY <2>1, AddsPrefix DEF WInv
<1>5. FrontSynced'
  BY SameHistory DEF WInv, FrontSynced
<1>6. ~Quiet
  <2>1. Len(log) \in 1 .. Len(log)
    BY <1>1, WInvTypes DEF WInv
  <2> QED
    BY <1>1, <2>1 DEF Quiet, Settled
<1>7. QuietIsExact'
  BY <1>6, SameHistory DEF QuietIsExact
<1>8. InFlightFills'
  BY <1>3, SameHistory DEF WInv, InFlightFills
<1> QED
  BY <1>2, <1>4, <1>5, <1>7, <1>8 DEF WInv

-----------------------------------------------------------------------------
(* The chunks of a record *)

LEMMA ChunkTaken ==
  ASSUME NEW S, NEW chunks \in Seq(Seq(S)), NEW j \in 0 .. Len(chunks),
         NEW rest, rest = SubSeq(chunks, j + 1, Len(chunks)), rest # <<>>
  PROVE  /\ j + 1 \in 0 .. Len(chunks)
         /\ Head(rest) \in Seq(S)
         /\ Tail(rest) = SubSeq(chunks, j + 1 + 1, Len(chunks))
         /\ FlattenSeq(SubSeq(chunks, 1, j)) \in Seq(S)
         /\ FlattenSeq(SubSeq(chunks, 1, j + 1))
              = FlattenSeq(SubSeq(chunks, 1, j)) \o Head(rest)
<1> DEFINE n == Len(chunks)
           x == chunks[j + 1]
           some == SubSeq(chunks, 1, j)
           more == SubSeq(chunks, 1, j + 1)
<1>1. n \in Nat /\ j \in Nat /\ j <= n
  BY LenProperties
<1>2. j + 1 \in 1 .. n
  <2>1. n < j + 1 => rest = <<>>
    BY <1>1, SubSeqEmpty
  <2> QED
    BY <1>1, <2>1
<1>3. Head(rest) = x /\ Tail(rest) = SubSeq(chunks, j + 1 + 1, n)
  <2>1. n \in j + 1 .. n
    BY <1>1, <1>2
  <2> QED
    BY <1>2, <2>1, HeadTailOfSubSeq
<1>4. x \in Seq(S)
  BY <1>2, ElementOfSeq
<1>5. /\ some \in Seq(Seq(S)) /\ Len(some) = j /\ \A i \in 1 .. j : some[i] = chunks[i]
      /\ more \in Seq(Seq(S)) /\ Len(more) = j + 1
      /\ \A i \in 1 .. j + 1 : more[i] = chunks[i]
  <2>1. j + 1 \in 0 .. n
    BY <1>2
  <2> QED
    BY <2>1, Cutting
<1>6. more = Append(some, x)
  <2> DEFINE both == Append(some, x)
  <2>1. both \in Seq(Seq(S)) /\ Len(both) = j + 1 /\ both[j + 1] = x
        /\ \A i \in 1 .. j : both[i] = some[i]
    BY <1>4, <1>5, AppendProperties
  <2>2. \A i \in 1 .. j + 1 : more[i] = both[i]
    <3> SUFFICES ASSUME NEW i \in 1 .. j + 1 PROVE more[i] = both[i]
      OBVIOUS
    <3>1. i = j + 1 \/ i \in 1 .. j
      BY <1>1
    <3> HIDE DEF both, more, some
    <3> QED
      BY <1>5, <2>1, <3>1
  <2> HIDE DEF both, more
  <2> QED
    BY <1>5, <2>1, <2>2, SeqEqual DEF both
<1>7. FlattenSeq(some) \in Seq(S) /\ FlattenSeq(more) = FlattenSeq(some) \o x
  <2> HIDE DEF some, more, x
  <2> QED
    BY <1>4, <1>5, <1>6, FlattenAppend
<1>8. j + 1 \in 0 .. n
  BY <1>2
<1> QED
  BY <1>3, <1>4, <1>7, <1>8

\* The records before the last and the last one.
LEMMA LastRecord ==
  ASSUME TypeOK, log # <<>>
  PROVE  LET last == log[Len(log)].record
             before == Laid(log, Len(log) - 1)
         IN  /\ Chunks(last) \in Seq(Seq(Cells))
             /\ before \in Seq(Cells)
             /\ Laid(log, Len(log)) = before \o Bytes(last)
<1>1. log \in History /\ Len(log) \in Nat \ {0}
  BY WInvTypes
<1>2. Len(log) \in 1 .. Len(log) /\ Len(log) - 1 \in 0 .. Len(log) /\ Len(log) - 1 \in 0 .. Len(log) - 1
  BY <1>1
<1>3. log[Len(log)].record \in Records \cup {NoRecord}
  BY <1>1, <1>2, EventAt DEF Event
<1>4. Chunks(log[Len(log)].record) \in Seq(Seq(Cells))
  BY <1>3, ChunksCells
<1>5. Laid(log, Len(log) - 1) \in Seq(Cells)
  BY <1>1, <1>2, LaidCells
<1>6. Laid(log, Len(log) - 1 + 1) = Laid(log, Len(log) - 1) \o Bytes(log[Len(log) - 1 + 1].record)
  BY <1>1, <1>2, LaidStep
<1>7. Len(log) - 1 + 1 = Len(log)
  BY <1>1
<1> QED
  BY <1>4, <1>5, <1>6, <1>7

LEMMA InARow ==
  ASSUME NEW s \in Seq(Cells), NEW t \in Seq(Cells), NEW u \in Seq(Cells)
  PROVE  (s \o t) \o u = s \o (t \o u)
BY ConcatAssociative

\* Where a queue not empty stands.
LEMMA Underway ==
  ASSUME TypeOK, log # <<>>, Filling, queue # <<>>
  PROVE  LET chunks == Chunks(log[Len(log)].record)
         IN  \E j \in 0 .. Len(chunks) :
               /\ Head(queue) \in Seq(Cells)
               /\ Tail(queue) = SubSeq(chunks, j + 1, Len(chunks))
               /\ (file \o buf) \o Head(queue)
                    = Laid(log, Len(log) - 1) \o FlattenSeq(SubSeq(chunks, 1, j))
<1> DEFINE chunks == Chunks(log[Len(log)].record)
           before == Laid(log, Len(log) - 1)
<1>1. chunks \in Seq(Seq(Cells)) /\ before \in Seq(Cells)
  BY LastRecord
<1>2. PICK j \in 0 .. Len(chunks) :
        /\ queue = SubSeq(chunks, j + 1, Len(chunks))
        /\ file \o buf = before \o FlattenSeq(SubSeq(chunks, 1, j))
  BY DEF Filling
<1> HIDE DEF chunks, before
<1>3. /\ j + 1 \in 0 .. Len(chunks)
      /\ Head(queue) \in Seq(Cells)
      /\ Tail(queue) = SubSeq(chunks, j + 1 + 1, Len(chunks))
      /\ FlattenSeq(SubSeq(chunks, 1, j)) \in Seq(Cells)
      /\ FlattenSeq(SubSeq(chunks, 1, j + 1)) = FlattenSeq(SubSeq(chunks, 1, j)) \o Head(queue)
  BY <1>1, <1>2, ChunkTaken
<1>4. (file \o buf) \o Head(queue) = before \o FlattenSeq(SubSeq(chunks, 1, j + 1))
  <2> DEFINE there == FlattenSeq(SubSeq(chunks, 1, j))
  <2>1. there \in Seq(Cells) /\ Head(queue) \in Seq(Cells) /\ file \o buf = before \o there
    BY <1>2, <1>3
  <2> HIDE DEF there
  <2>2. (before \o there) \o Head(queue) = before \o (there \o Head(queue))
    BY <1>1, <2>1, InARow
  <2> QED
    BY <1>3, <2>1, <2>2 DEF there
<1> QED
  BY <1>3, <1>4 DEF chunks, before

-----------------------------------------------------------------------------
(* Every step keeps the invariant *)

LEMMA AddsNothing ==
  ASSUME file \in Seq(Cells), file' = file, at' \in {at, Append_}
  PROVE  Adds
<1>1. <<>> \in Seq(Cells) /\ file \o <<>> = file
  BY EmptySeq, ConcatEmptySeq
<1> QED
  BY <1>1 DEF Adds, Appending

LEMMA BufferKeeps == ASSUME WInv, TypeOK', Buffer PROVE WInv'
<1>1. /\ pc = "put" /\ pc' = "put" /\ queue # <<>>
      /\ buf' = buf \o Head(queue) /\ queue' = Tail(queue)
      /\ log' = log /\ disk' = disk /\ file' = file /\ at' = at
  BY DEF Buffer
<1>2. TypeOK /\ log # <<>> /\ file \in Seq(Cells) /\ buf \in Seq(Cells)
  BY <1>1, WInvTypes DEF WInv, PutsLast
<1>3. Adds
  BY <1>1, <1>2, AddsNothing
<1>4. ASSUME InFlight PROVE Filling'
  <2>1. Filling
    BY <1>4 DEF WInv, InFlightFills
  <2> DEFINE chunks == Chunks(log[Len(log)].record)
  <2>2. PICK j \in 0 .. Len(chunks) :
          /\ Head(queue) \in Seq(Cells)
          /\ Tail(queue) = SubSeq(chunks, j + 1, Len(chunks))
          /\ (file \o buf) \o Head(queue)
               = Laid(log, Len(log) - 1) \o FlattenSeq(SubSeq(chunks, 1, j))
    BY <1>1, <1>2, <2>1, Underway
  <2>3. (file \o buf) \o Head(queue) = file \o (buf \o Head(queue))
    BY <1>2, <2>2, InARow
  <2> QED
    BY <1>1, <2>2, <2>3 DEF Filling
<1> QED
  BY <1>1, <1>3, <1>4, PutGoesOn

LEMMA EmptyKeeps == ASSUME WInv, TypeOK', Empty PROVE WInv'
<1>1. /\ pc = "put" /\ pc' = "put" /\ WriteCall(buf)
      /\ buf' = <<>> /\ queue' = queue /\ log' = log /\ disk' = disk
  BY DEF Empty, Emptying
<1>2. file \in Seq(Cells) /\ buf \in Seq(Cells) /\ at \in {Append_} \cup Nat
  BY WInvTypes DEF WInv
<1>3. file' \in Seq(Cells) /\ (Appending => Appending' /\ file' = file \o buf)
  BY <1>1, <1>2, WriteCallIs
<1>4. Adds
  BY <1>2, <1>3 DEF Adds
<1>5. ASSUME InFlight PROVE Filling'
  <2>1. Filling /\ file' = file \o buf
    BY <1>3, <1>5 DEF WInv, InFlightFills, AtTheEnd
  <2>2. file' \o buf' = file \o buf
    BY <1>1, <1>3, <2>1, ConcatEmptySeq
  <2> QED
    BY <1>1, <2>1, <2>2 DEF Filling
<1> QED
  BY <1>1, <1>4, <1>5, PutGoesOn

LEMMA PassOnKeeps == ASSUME WInv, TypeOK', PassOn PROVE WInv'
<1>1. /\ pc = "put" /\ pc' = "put" /\ WriteCall(Head(queue)) /\ queue # <<>>
      /\ buf = <<>> /\ buf' = buf /\ queue' = Tail(queue) /\ log' = log /\ disk' = disk
  BY DEF PassOn, PassingOn
<1>2. /\ TypeOK /\ log # <<>> /\ file \in Seq(Cells) /\ at \in {Append_} \cup Nat
      /\ Head(queue) \in Seq(Cells)
  BY <1>1, WInvTypes, QueueStep DEF WInv, PutsLast
<1>3. file' \in Seq(Cells) /\ (Appending => Appending' /\ file' = file \o Head(queue))
  BY <1>1, <1>2, WriteCallIs
<1>4. Adds
  BY <1>2, <1>3 DEF Adds
<1>5. ASSUME InFlight PROVE Filling'
  <2>1. Filling /\ file' = file \o Head(queue)
    BY <1>3, <1>5 DEF WInv, InFlightFills, AtTheEnd
  <2> DEFINE chunks == Chunks(log[Len(log)].record)
  <2>2. PICK j \in 0 .. Len(chunks) :
          /\ Tail(queue) = SubSeq(chunks, j + 1, Len(chunks))
          /\ (file \o buf) \o Head(queue)
               = Laid(log, Len(log) - 1) \o FlattenSeq(SubSeq(chunks, 1, j))
    BY <1>1, <1>2, <2>1, Underway
  <2>3. file \o buf = file /\ file' \o buf' = file'
    BY <1>1, <1>2, <1>3, ConcatEmptySeq
  <2> QED
    BY <1>1, <2>1, <2>2, <2>3 DEF Filling
<1> QED
  BY <1>1, <1>4, <1>5, PutGoesOn

LEMMA WriteFailsKeeps == ASSUME WInv, TypeOK', WriteFails PROVE WInv'
<1>1. pc = "put" /\ pc' = "idle" /\ log' = log /\ disk' = disk
  BY DEF WriteFails, Emptying, PassingOn
<1>2. /\ TypeOK /\ file \in Seq(Cells) /\ buf \in Seq(Cells) /\ at \in {Append_} \cup Nat
      /\ log # <<>> /\ ~log[Len(log)].acked /\ Len(log) \in Nat \ {0}
  BY <1>1, WInvTypes DEF WInv, PutsLast
<1>3. ~Quiet
  <2>1. Len(log) \in 1 .. Len(log)
    BY <1>2
  <2> QED
    BY <1>2, <2>1 DEF Quiet, Settled
<1>4. \E cells \in Seq(Cells) : WriteCall(cells)
  <2>1. ASSUME NEW n \in 0 .. Len(buf) - 1 PROVE SubSeq(buf, 1, n) \in Seq(Cells)
    <3>1. n \in 0 .. Len(buf)
      BY <1>2, LenProperties
    <3> QED
      BY <1>2, <3>1, Cutting
  <2>2. ASSUME PassingOn, NEW n \in 0 .. Len(Head(queue)) - 1
        PROVE  SubSeq(Head(queue), 1, n) \in Seq(Cells)
    <3>1. Head(queue) \in Seq(Cells)
      BY <1>2, <2>2, QueueStep DEF PassingOn
    <3>2. n \in 0 .. Len(Head(queue))
      BY <3>1, LenProperties
    <3> QED
      BY <3>1, <3>2, Cutting
  <2> QED
    BY <2>1, <2>2 DEF WriteFails
<1>5. Adds
  BY <1>2, <1>4, WriteCallIs DEF Adds
<1> QED
  BY <1>1, <1>3, <1>5, CallEnds

LEMMA StillKeeps ==
  ASSUME WInv, TypeOK', SyncFails \/ ClearSyncFails \/ Close \/ Kill \/ Open
  PROVE  WInv'
<1>1. pc' \notin {"put", "clear_sync"} /\ log' = log /\ disk' = disk
  BY DEF SyncFails, ClearSyncFails, Close, Kill, Open, WriterLost
<1>2. TypeOK /\ file \in Seq(Cells) /\ buf \in Seq(Cells) /\ at \in {Append_} \cup Nat
  BY WInvTypes DEF WInv
<1>3. CASE Close
  <2>1. file' = Written(at, buf) /\ at' = Append_ /\ buf' = <<>>
    BY <1>3 DEF Close, WriterLost, OpenedAt
  <2>2. at \in {Append_, Len(file)} => file' = file \o buf
    BY <1>2, <2>1, WrittenIs
  <2>3. Adds
    BY <1>2, <2>1, <2>2 DEF Adds, Appending
  <2>4. Quiet => file' = file
    <3> SUFFICES ASSUME Quiet PROVE file' = file
      OBVIOUS
    <3>1. buf = <<>> /\ file \o <<>> = file
      BY <1>2, ConcatEmptySeq DEF WInv, QuietIsExact
    <3>2. Fresh
      <4>1. log # <<>> => 1 \in 1 .. Len(log)
        BY <1>2, WInvTypes
      <4> QED
        BY <4>1 DEF Quiet, Settled, Fresh
    <3> QED
      BY <2>2, <3>1, <3>2 DEF WInv, AtTheEnd, Appending
  <2> QED
    BY <1>1, <2>1, <2>3, <2>4, CallEnds
<1>4. CASE ~Close
  <2>1. file' = file /\ at' \in {at, Append_} /\ buf' \in {buf, <<>>}
    BY <1>4 DEF SyncFails, ClearSyncFails, Kill, Open, WriterLost, OpenedAt
  <2>2. Adds
    BY <1>2, <2>1, AddsNothing
  <2>3. Quiet => buf' = <<>>
    BY <2>1 DEF WInv, QuietIsExact
  <2> QED
    BY <1>1, <2>1, <2>2, <2>3, CallEnds
<1> QED
  BY <1>3, <1>4

\* A history that begins with trouble asks nothing of the file.
LEMMA Troubled ==
  ASSUME TypeOK', log' # <<>>, ~log'[1].acked, pc' # "put"
  PROVE  (PutsLast /\ AtTheEnd /\ FrontSynced /\ QuietIsExact /\ InFlightFills)'
<1>1. log' \in History /\ Len(log') \in Nat \ {0} /\ disk' \in Seq(Cells)
  <2>1. log' \in Seq(Event) /\ disk' \in Seq(Cells)
    BY DEF TypeOK, Event
  <2> QED
    BY <2>1, EmptySeq DEF History
<1>2. ~Fresh' /\ ~InFlight'
  BY DEF Fresh, InFlight
<1>3. ASSUME NEW n \in 0 .. Len(log'), Settled(n)' PROVE n = 0
  <2>1. n # 0 => 1 \in 1 .. n
    BY <1>1
  <2> QED
    BY <1>3, <2>1 DEF Settled
<1>4. ~Quiet'
  <2>1. 1 \in 1 .. Len(log')
    BY <1>1
  <2> QED
    BY <2>1 DEF Quiet, Settled
<1>5. FrontSynced'
  <2> SUFFICES ASSUME NEW n \in 0 .. Len(log'), Settled(n)' PROVE IsPrefix(Laid(log', n), disk')
    BY DEF FrontSynced
  <2>1. Laid(log', n) = <<>>
    BY <1>3, LaidNone
  <2> QED
    BY <1>1, <2>1, PrefixConcat
<1> QED
  BY <1>2, <1>4, <1>5 DEF PutsLast, AtTheEnd, QuietIsExact, InFlightFills

LEMMA ReleasedEmpty == ASSUME log = <<>> PROVE Released = log
<1>1. DOMAIN log = {}
  OBVIOUS
<1> QED
  BY <1>1 DEF Released

LEMMA QuietAtFirst ==
  ASSUME WInv, log = <<>>
  PROVE  Fresh /\ Quiet /\ file = <<>> /\ disk = <<>> /\ buf = <<>>
<1>1. Len(log) = 0
  BY EmptySeq
<1>2. Fresh /\ Quiet
  BY <1>1 DEF Fresh, Quiet, Settled
<1> QED
  BY <1>1, <1>2, LaidNone DEF WInv, QuietIsExact

LEMMA TruncateKeeps == ASSUME WInv, TypeOK', Truncate PROVE WInv'
<1>1. /\ pc' = "clear_sync" /\ file' = <<>> /\ log' = Released
      /\ disk' = disk /\ buf' = buf /\ at' = at
  BY DEF Truncate, Truncated
<1>2. log \in History /\ Len(log) \in Nat /\ (log # <<>> => Len(log) \in Nat \ {0})
  BY WInvTypes DEF WInv
<1>3. Len(log') = Len(log) /\ \A i \in 1 .. Len(log) : ~log'[i].acked
  BY <1>1, <1>2, ReleasedIs
<1>4. CutIsEmpty'
  <2>1. DOMAIN log' = 1 .. Len(log')
    BY LenProperties DEF TypeOK
  <2> QED
    BY <1>1, <1>3, <2>1 DEF CutIsEmpty
<1>5. CASE log = <<>>
  <2>1. log' = log
    BY <1>1, <1>5, ReleasedEmpty
  <2>2. Fresh /\ Quiet /\ file = <<>> /\ disk = <<>> /\ buf = <<>>
    BY <1>5, QuietAtFirst
  <2>3. Appending /\ IsPrefix(disk, file)
    BY <2>2 DEF WInv, AtTheEnd
  <2>4. PutsLast' /\ InFlightFills'
    BY <1>1 DEF PutsLast, InFlightFills, InFlight
  <2>5. AtTheEnd'
    BY <1>1, <2>2, <2>3 DEF AtTheEnd, Appending
  <2>6. FrontSynced'
    BY <1>1, <2>1, SameHistory DEF WInv, FrontSynced
  <2>7. QuietIsExact'
    BY <1>1, <2>1, <2>2, SameHistory DEF WInv, QuietIsExact
  <2> QED
    BY <1>4, <2>4, <2>5, <2>6, <2>7 DEF WInv
<1>6. CASE log # <<>>
  <2>1. log' # <<>> /\ ~log'[1].acked
    <3>1. 1 \in 1 .. Len(log) /\ Len(log') # 0
      BY <1>2, <1>3, <1>6
    <3> QED
      BY <1>3, <3>1
  <2> QED
    BY <1>1, <1>4, <2>1, Troubled DEF WInv
<1> QED
  BY <1>5, <1>6

LEMMA TruncateFailsKeeps == ASSUME WInv, TypeOK', TruncateFails PROVE WInv'
<1>1. pc = "idle" /\ log' = Released /\ UNCHANGED <<file, disk, buf, at, queue, pc>>
  BY DEF TruncateFails
<1>2. log \in History /\ Len(log) \in Nat /\ (log # <<>> => Len(log) \in Nat \ {0})
      /\ file \in Seq(Cells)
  BY WInvTypes DEF WInv
<1>3. CASE log = <<>>
  <2>1. log' = log
    BY <1>1, <1>3, ReleasedEmpty
  <2>2. buf = <<>>
    BY <1>3, QuietAtFirst
  <2>3. Adds
    BY <1>1, <1>2, AddsNothing
  <2> QED
    BY <1>1, <2>1, <2>2, <2>3, CallEnds
<1>4. CASE log # <<>>
  <2>1. Len(log') = Len(log) /\ \A i \in 1 .. Len(log) : ~log'[i].acked
    BY <1>1, <1>2, ReleasedIs
  <2>2. log' # <<>> /\ ~log'[1].acked
    <3>1. 1 \in 1 .. Len(log) /\ Len(log') # 0
      BY <1>2, <1>4, <2>1
    <3> QED
      BY <2>1, <3>1
  <2>3. CutIsEmpty'
    BY <1>1 DEF CutIsEmpty
  <2> QED
    BY <1>1, <2>2, <2>3, Troubled DEF WInv
<1> QED
  BY <1>3, <1>4

LEMMA ClearSyncKeeps == ASSUME WInv, TypeOK', ClearSync PROVE WInv'
<1>1. /\ file = <<>> /\ disk' = file /\ file' = Written(at, buf) /\ buf' = <<>> /\ at' = 0
      /\ log' = (IF buf = <<>> THEN <<>> ELSE <<Debris>>) /\ pc' = "idle"
  BY DEF ClearSync, WInv, CutIsEmpty
<1>2. file \in Seq(Cells) /\ buf \in Seq(Cells) /\ at \in {Append_} \cup Nat
  BY WInvTypes DEF WInv
<1>3. PutsLast' /\ CutIsEmpty' /\ InFlightFills'
  BY <1>1 DEF PutsLast, CutIsEmpty, InFlightFills, InFlight
<1>4. CASE buf = <<>>
  <2>1. file' = <<>> /\ disk' = <<>> /\ log' = <<>>
    BY <1>1, <1>2, <1>4, WrittenIs
  <2>2. Len(log') = 0 /\ Len(file') = 0 /\ Laid(log', 0) = <<>> /\ IsPrefix(<<>>, <<>>)
    BY <1>2, <2>1, EmptySeq, LaidNone, PrefixConcat
  <2>3. AtTheEnd'
    BY <1>1, <2>1, <2>2 DEF AtTheEnd, Appending
  <2>4. FrontSynced'
    <3> SUFFICES ASSUME NEW n \in 0 .. Len(log') PROVE IsPrefix(Laid(log', n), disk')
      BY DEF FrontSynced
    <3>1. n = 0
      BY <2>2
    <3> QED
      BY <2>1, <2>2, <3>1
  <2>5. QuietIsExact'
    BY <1>1, <2>1, <2>2 DEF QuietIsExact
  <2> QED
    BY <1>3, <2>3, <2>4, <2>5 DEF WInv
<1>5. CASE buf # <<>>
  <2>1. log' = <<Debris>>
    BY <1>1, <1>5
  <2>2. log' # <<>> /\ ~log'[1].acked
    BY <2>1 DEF Debris
  <2> QED
    BY <1>1, <1>3, <2>2, Troubled DEF WInv
<1> QED
  BY <1>4, <1>5

LEMMA StartKeeps ==
  ASSUME WInv, TypeOK', NEW r \in scenario.records, Start(r)
  PROVE  WInv'
<1> DEFINE e == [record |-> r, acked |-> FALSE]
<1>0. PICK N : N = Len(log)
  OBVIOUS
<1>1. /\ pc' = "put" /\ queue' = Chunks(r) /\ log' = Append(log, e)
      /\ file' = file /\ disk' = disk /\ buf' = buf /\ at' = at
  BY DEF Start
<1>2. /\ log \in History /\ N \in Nat /\ (log = <<>> <=> N = 0)
      /\ file \in Seq(Cells) /\ disk \in Seq(Cells)
  BY <1>0, WInvTypes DEF WInv
<1>3. r \in Records \cup {NoRecord} /\ e \in Event
  <2>1. scenario \in Scenarios
    BY DEF WInv, TypeOK
  <2>2. r \in Records
    BY <2>1, ScenariosAssumption
  <2> QED
    BY <2>2 DEF Event
<1>4. /\ Len(log') = N + 1 /\ log' # <<>> /\ \A i \in 1 .. N : log'[i] = log[i]
      /\ log'[N + 1] = e
  BY <1>0, <1>1, <1>2, <1>3, AppendProperties DEF History
<1> HIDE DEF e
<1>5. ~log'[N + 1].acked /\ log'[N + 1].record = r
  BY <1>4 DEF e
<1>6. \A n \in 0 .. N : (Settled(n)' <=> Settled(n)) /\ Laid(log', n) = Laid(log, n)
  <2> SUFFICES ASSUME NEW n \in 0 .. N
               PROVE  (Settled(n)' <=> Settled(n)) /\ Laid(log', n) = Laid(log, n)
    OBVIOUS
  <2>1. n \in Nat /\ \A i \in 1 .. n : log'[i] = log[i]
    BY <1>2, <1>4
  <2>2. Settled(n)' <=> Settled(n)
    BY <2>1 DEF Settled
  <2>3. Laid(log', n) = Laid(log, n)
    BY <2>1, LaidSame
  <2> QED
    BY <2>2, <2>3
<1>7. ~Settled(N + 1)'
  <2>1. N + 1 \in 1 .. N + 1
    BY <1>2
  <2> QED
    BY <1>5, <2>1 DEF Settled
<1>8. ~Quiet' /\ (InFlight' <=> Quiet)
  <2>1. N + 1 - 1 = N /\ N \in 0 .. N
    BY <1>2
  <2> QED
    BY <1>0, <1>1, <1>4, <1>6, <1>7, <2>1 DEF Quiet, InFlight
<1>9. (Fresh' \/ InFlight') => Fresh
  <2>1. CASE N = 0
    BY <1>2, <2>1 DEF Fresh
  <2>2. CASE N # 0
    <3>1. 1 \in 1 .. N
      BY <1>2, <2>2
    <3>2. Quiet => log[1].acked
      BY <1>0, <3>1 DEF Quiet, Settled
    <3> QED
      BY <1>4, <1>8, <3>1, <3>2 DEF Fresh
  <2> QED
    BY <2>1, <2>2
<1>10. PutsLast' /\ CutIsEmpty'
  BY <1>1, <1>4, <1>5 DEF PutsLast, CutIsEmpty
<1>11. AtTheEnd'
  BY <1>1, <1>9 DEF WInv, AtTheEnd, Appending
<1>12. FrontSynced'
  <2> SUFFICES ASSUME NEW n \in 0 .. Len(log'), Settled(n)' PROVE IsPrefix(Laid(log', n), disk')
    BY DEF FrontSynced
  <2>1. n # N + 1
    BY <1>7
  <2>2. n \in 0 .. N
    BY <1>2, <1>4, <2>1
  <2>3. IsPrefix(Laid(log, n), disk)
    BY <1>0, <1>6, <2>2 DEF WInv, FrontSynced
  <2> QED
    BY <1>1, <1>6, <2>2, <2>3
<1>13. QuietIsExact'
  BY <1>8 DEF QuietIsExact
<1>14. InFlightFills'
  <2> SUFFICES ASSUME Quiet PROVE disk' = Laid(log', Len(log') - 1) /\ Filling'
    BY <1>8 DEF InFlightFills
  <2>1. file = Laid(log, N) /\ disk = file /\ buf = <<>>
    BY <1>0 DEF WInv, QuietIsExact
  <2>2. Len(log') - 1 = N /\ N \in 0 .. N /\ Laid(log', N) = file
    BY <1>2, <1>4, <1>6, <2>1
  <2> DEFINE chunks == Chunks(r)
  <2>3. chunks \in Seq(Seq(Cells)) /\ Len(chunks) \in Nat
    BY <1>3, ChunksCells, LenProperties
  <2>4. 0 \in 0 .. Len(chunks) /\ queue' = SubSeq(chunks, 0 + 1, Len(chunks))
    BY <1>1, <2>3, SubSeqFull
  <2>5. FlattenSeq(SubSeq(chunks, 1, 0)) = <<>>
    <3>1. SubSeq(chunks, 1, 0) = <<>>
      BY SubSeqEmpty
    <3> QED
      BY <3>1 DEF FlattenSeq
  <2>6. file' \o buf' = file \o <<>>
    BY <1>1, <2>1
  <2>7. log'[Len(log')].record = r
    BY <1>4, <1>5
  <2> HIDE DEF chunks
  <2>8. \E j \in 0 .. Len(chunks) :
          /\ queue' = SubSeq(chunks, j + 1, Len(chunks))
          /\ file' \o buf' = Laid(log', Len(log') - 1) \o FlattenSeq(SubSeq(chunks, 1, j))
    BY <2>2, <2>4, <2>5, <2>6
  <2>9. Filling'
    BY <2>7, <2>8 DEF Filling, chunks
  <2> QED
    BY <1>1, <2>1, <2>2, <2>9
<1> QED
  BY <1>10, <1>11, <1>12, <1>13, <1>14 DEF WInv

\* When nothing of the record is left to write, the file holds it.
LEMMA Filled ==
  ASSUME TypeOK, log # <<>>, Filling, queue = <<>>, buf = <<>>
  PROVE  file = Laid(log, Len(log))
<1> DEFINE chunks == Chunks(log[Len(log)].record)
           before == Laid(log, Len(log) - 1)
<1>1. /\ chunks \in Seq(Seq(Cells)) /\ before \in Seq(Cells)
      /\ Laid(log, Len(log)) = before \o FlattenSeq(chunks)
  BY LastRecord DEF Bytes
<1>2. file \in Seq(Cells)
  BY WInvTypes
<1>3. PICK j \in 0 .. Len(chunks) :
        /\ queue = SubSeq(chunks, j + 1, Len(chunks))
        /\ file \o buf = before \o FlattenSeq(SubSeq(chunks, 1, j))
  BY DEF Filling
<1> HIDE DEF chunks, before
<1>4. Len(chunks) \in Nat /\ j \in Nat /\ j <= Len(chunks)
  BY <1>1, LenProperties
<1>5. j = Len(chunks)
  <2>1. \A i \in j + 1 .. Len(chunks) : chunks[i] \in Seq(Cells)
    BY <1>1, <1>4, ElementOfSeq
  <2>2. Len(SubSeq(chunks, j + 1, Len(chunks))) =
          IF j + 1 <= Len(chunks) THEN Len(chunks) - (j + 1) + 1 ELSE 0
    BY <1>4, <2>1, SubSeqProperties
  <2>3. Len(SubSeq(chunks, j + 1, Len(chunks))) = 0
    BY <1>3, EmptySeq
  <2> QED
    BY <1>4, <2>2, <2>3
<1>6. SubSeq(chunks, 1, j) = chunks
  BY <1>1, <1>5, SubSeqFull
<1>7. file \o buf = file
  BY <1>2, ConcatEmptySeq
<1> QED
  BY <1>1, <1>3, <1>6, <1>7

LEMMA SyncKeeps == ASSUME WInv, TypeOK', Sync PROVE WInv'
<1>0. PICK N : N = Len(log)
  OBVIOUS
<1>1. /\ pc = "put" /\ pc' = "idle" /\ queue = <<>> /\ buf = <<>> /\ buf' = buf
      /\ disk' = file /\ file' = file /\ at' = at
      /\ log' = [log EXCEPT ![N].acked = TRUE]
  BY <1>0 DEF Sync, SyncedNow
<1>2. /\ log \in History /\ log # <<>> /\ N \in Nat \ {0} /\ DOMAIN log = 1 .. N
      /\ file \in Seq(Cells) /\ disk \in Seq(Cells)
  BY <1>0, <1>1, WInvTypes DEF WInv, PutsLast
<1>3. Len(log') = N /\ \A i \in 1 .. N : log'[i].record = log[i].record
                                     /\ (i # N => log'[i] = log[i])
  <2>1. log \in Seq(Event)
    BY <1>2 DEF History
  <2>2. Len(log') = N
    BY <1>0, <1>1, <2>1
  <2>3. \A i \in 1 .. N : log'[i] = IF i = N THEN [log[N] EXCEPT !.acked = TRUE] ELSE log[i]
    BY <1>1, <1>2
  <2>4. \A i \in 1 .. N : log[i] \in Event
    BY <1>0, <2>1, ElementOfSeq
  <2> QED
    BY <2>2, <2>3, <2>4 DEF Event
<1>4. \A n \in 0 .. N : Laid(log', n) = Laid(log, n)
  <2> SUFFICES ASSUME NEW n \in 0 .. N PROVE Laid(log', n) = Laid(log, n)
    OBVIOUS
  <2>1. n \in Nat /\ \A i \in 1 .. n : log'[i].record = log[i].record
    BY <1>2, <1>3
  <2> QED
    BY <2>1, LaidSame
<1>5. \A n \in 0 .. N - 1 : Settled(n)' <=> Settled(n)
  <2> SUFFICES ASSUME NEW n \in 0 .. N - 1 PROVE Settled(n)' <=> Settled(n)
    OBVIOUS
  <2>1. \A i \in 1 .. n : log'[i] = log[i]
    BY <1>2, <1>3
  <2> QED
    BY <2>1 DEF Settled
<1>6. ASSUME Settled(N)' PROVE InFlight /\ file = Laid(log, N)
  <2>1. \A i \in 1 .. N - 1 : i \in 1 .. N
    BY <1>2
  <2>2. Settled(N - 1)' /\ N - 1 \in 0 .. N - 1
    BY <1>2, <1>6, <2>1 DEF Settled
  <2>3. InFlight
    BY <1>0, <1>1, <1>5, <2>2 DEF InFlight
  <2>4. Filling
    BY <2>3 DEF WInv, InFlightFills
  <2> QED
    BY <1>0, <1>1, <1>2, <2>3, <2>4, Filled DEF WInv
<1>7. Fresh' => Fresh \/ InFlight
  <2>1. CASE N = 1
    <3>1. Settled(N)' <=> log'[1].acked
      BY <2>1 DEF Settled
    <3>2. Len(log') # 0
      BY <1>3, <2>1
    <3> QED
      BY <1>6, <3>1, <3>2 DEF Fresh
  <2>2. CASE N # 1
    <3>1. 1 \in 1 .. N /\ 1 # N
      BY <1>2, <2>2
    <3>2. Len(log') # 0
      BY <1>2, <1>3
    <3> QED
      BY <1>3, <3>1, <3>2 DEF Fresh
  <2> QED
    BY <2>1, <2>2
<1>8. PutsLast' /\ CutIsEmpty' /\ InFlightFills'
  BY <1>1 DEF PutsLast, CutIsEmpty, InFlightFills, InFlight
<1>9. AtTheEnd'
  <2>1. IsPrefix(file, file)
    BY <1>2, PrefixConcat
  <2> QED
    BY <1>1, <1>7, <1>8, <2>1 DEF WInv, AtTheEnd, Appending, InFlight
<1>10. FrontSynced'
  <2> SUFFICES ASSUME NEW n \in 0 .. N, Settled(n)' PROVE IsPrefix(Laid(log, n), file)
    BY <1>1, <1>3, <1>4 DEF FrontSynced
  <2>1. CASE n = 0
    BY <1>2, <2>1, LaidNone, PrefixConcat
  <2>2. CASE n = N
    BY <1>2, <1>6, <2>2, PrefixConcat
  <2>3. CASE n # 0 /\ n # N
    <3>1. n \in 0 .. N - 1 /\ 1 \in 1 .. n
      BY <1>2, <2>3
    <3>2. Settled(n)
      BY <1>5, <3>1
    <3>3. Fresh
      BY <3>1, <3>2 DEF Settled, Fresh
    <3>4. IsPrefix(Laid(log, n), disk) /\ IsPrefix(disk, file)
      BY <1>0, <3>1, <3>2, <3>3 DEF WInv, FrontSynced, AtTheEnd
    <3>5. Laid(log, n) \in Seq(Cells)
      BY <1>0, <1>2, LaidCells
    <3> QED
      BY <1>2, <3>4, <3>5, PrefixTransitive
  <2> QED
    BY <2>1, <2>2, <2>3
<1>11. QuietIsExact'
  <2> SUFFICES ASSUME Quiet' PROVE file = Laid(log', N)
    BY <1>1, <1>3 DEF QuietIsExact
  <2>1. Settled(N)' /\ N \in 0 .. N
    BY <1>2, <1>3 DEF Quiet, Settled
  <2> QED
    BY <1>4, <1>6, <2>1
<1> QED
  BY <1>8, <1>9, <1>10, <1>11 DEF WInv

\* What power loss can leave, when the synced bytes are at the front of the file.
LEMMA OutcomesKeep ==
  ASSUME TypeOK, IsPrefix(disk, file), NEW f \in Outcomes
  PROVE  f \in Seq(Cells) /\ IsPrefix(disk, f) /\ (disk = file => f = file)
<1>1. file \in Seq(Cells) /\ disk \in Seq(Cells) /\ Len(file) \in Nat /\ Len(disk) \in Nat
  BY WInvTypes, LenProperties
<1>2. CASE f = disk
  BY <1>1, <1>2, PrefixConcat
<1>3. ASSUME NEW n \in Len(disk) .. Len(file), f = SubSeq(file, 1, n)
      PROVE  f \in Seq(Cells) /\ IsPrefix(disk, f) /\ (disk = file => f = file)
  <2>1. n \in 0 .. Len(file) /\ Len(disk) <= n
    BY <1>1
  <2>2. f \in Seq(Cells) /\ IsPrefix(disk, f)
    BY <1>1, <1>3, <2>1, Cutting
  <2>3. disk = file => n = Len(file)
    BY <1>1
  <2>4. SubSeq(file, 1, Len(file)) = file
    BY <1>1, SubSeqFull
  <2> QED
    BY <1>3, <2>2, <2>3, <2>4
<1> QED
  BY <1>2, <1>3 DEF Outcomes

LEMMA PowerLossKeeps == ASSUME WInv, TypeOK', PowerLoss PROVE WInv'
<1>1. /\ file' \in Outcomes /\ disk' = file' /\ log' = log
      /\ buf' = <<>> /\ at' = Append_ /\ pc' = "down"
  BY DEF PowerLoss, WriterLost, OpenedAt
<1>2. /\ TypeOK /\ log \in History /\ Len(log) \in Nat /\ (log # <<>> <=> Len(log) \in Nat \ {0})
      /\ file \in Seq(Cells) /\ disk \in Seq(Cells)
  BY WInvTypes DEF WInv
<1>3. file' \in Seq(Cells)
  BY DEF TypeOK
<1>4. PutsLast' /\ CutIsEmpty' /\ InFlightFills'
  BY <1>1 DEF PutsLast, CutIsEmpty, InFlightFills, InFlight
<1>5. AtTheEnd'
  <2>1. IsPrefix(file', file')
    BY <1>3, PrefixConcat
  <2> QED
    BY <1>1, <2>1 DEF AtTheEnd, Appending
<1>6. ASSUME Fresh PROVE IsPrefix(disk, file') /\ (disk = file => file' = file)
  <2>1. IsPrefix(disk, file)
    BY <1>6 DEF WInv, AtTheEnd
  <2> QED
    BY <1>1, <1>2, <2>1, OutcomesKeep
<1>7. FrontSynced'
  <2> SUFFICES ASSUME NEW n \in 0 .. Len(log), Settled(n) PROVE IsPrefix(Laid(log, n), file')
    BY <1>1, SameHistory DEF FrontSynced
  <2>1. CASE n = 0
    BY <1>3, <2>1, LaidNone, PrefixConcat
  <2>2. CASE n # 0
    <3>1. 1 \in 1 .. n
      BY <1>2, <2>2
    <3>2. Fresh
      BY <3>1 DEF Settled, Fresh
    <3>3. IsPrefix(Laid(log, n), disk) /\ IsPrefix(disk, file')
      BY <1>6, <3>2 DEF WInv, FrontSynced
    <3>4. Laid(log, n) \in Seq(Cells)
      BY <1>2, LaidCells
    <3> QED
      BY <1>2, <1>3, <3>3, <3>4, PrefixTransitive
  <2> QED
    BY <2>1, <2>2
<1>8. QuietIsExact'
  <2> SUFFICES ASSUME Quiet PROVE file' = Laid(log, Len(log))
    BY <1>1, SameHistory DEF QuietIsExact
  <2>1. log # <<>> => 1 \in 1 .. Len(log)
    BY <1>2
  <2>2. Fresh
    BY <2>1 DEF Quiet, Settled, Fresh
  <2> QED
    BY <1>6, <2>2 DEF WInv, QuietIsExact
<1> QED
  BY <1>4, <1>5, <1>7, <1>8, <1>1 DEF WInv

LEMMA InitWInv == Init => WInv
<1> SUFFICES ASSUME Init PROVE WInv
  OBVIOUS
<1>1. TypeOK
  BY InitTypes
<1>2. /\ file = <<>> /\ disk = <<>> /\ buf = <<>> /\ at = Append_ /\ pc = "idle" /\ log = <<>>
      /\ Len(log) = 0
  BY EmptySeq DEF Init
<1>3. <<>> \in Seq(Cells) /\ IsPrefix(<<>>, <<>>)
  BY EmptySeq, PrefixConcat
<1>4. PutsLast /\ CutIsEmpty /\ InFlightFills
  BY <1>2 DEF PutsLast, CutIsEmpty, InFlightFills, InFlight
<1>5. AtTheEnd
  BY <1>2, <1>3 DEF AtTheEnd, Appending
<1>6. FrontSynced
  <2> SUFFICES ASSUME NEW n \in 0 .. Len(log) PROVE IsPrefix(Laid(log, n), disk)
    BY DEF FrontSynced
  <2>1. n = 0
    BY <1>2
  <2> QED
    BY <1>2, <1>3, <2>1, LaidNone
<1>7. QuietIsExact
  BY <1>2, LaidNone DEF QuietIsExact
<1> QED
  BY <1>1, <1>4, <1>5, <1>6, <1>7 DEF WInv

LEMMA WInvStep == WInv /\ [Next]_vars => WInv'
<1> SUFFICES ASSUME WInv, [Next]_vars PROVE WInv'
  OBVIOUS
<1>1. TypeOK'
  BY TypesStep DEF WInv
<1>2. ASSUME NEW r \in scenario.records, Start(r) PROVE WInv'
  BY <1>1, <1>2, StartKeeps
<1>3. CASE Buffer
  BY <1>1, <1>3, BufferKeeps
<1>4. CASE Empty
  BY <1>1, <1>4, EmptyKeeps
<1>5. CASE PassOn
  BY <1>1, <1>5, PassOnKeeps
<1>6. CASE WriteFails
  BY <1>1, <1>6, WriteFailsKeeps
<1>7. CASE Sync
  BY <1>1, <1>7, SyncKeeps
<1>8. CASE SyncFails \/ ClearSyncFails \/ Close \/ Kill \/ Open
  BY <1>1, <1>8, StillKeeps
<1>9. CASE Truncate
  BY <1>1, <1>9, TruncateKeeps
<1>10. CASE TruncateFails
  BY <1>1, <1>10, TruncateFailsKeeps
<1>11. CASE ClearSync
  BY <1>1, <1>11, ClearSyncKeeps
<1>12. CASE PowerLoss
  BY <1>1, <1>12, PowerLossKeeps
<1>13. CASE UNCHANGED vars
  <2>1. /\ file' = file /\ disk' = disk /\ buf' = buf /\ at' = at /\ queue' = queue
        /\ pc' = pc /\ log' = log
    BY <1>13 DEF vars
  <2>2. PutsLast' /\ CutIsEmpty' /\ AtTheEnd'
    BY <2>1, SameHistory DEF WInv, PutsLast, CutIsEmpty, AtTheEnd, Appending, InFlight
  <2>3. FrontSynced' /\ QuietIsExact'
    BY <2>1, SameHistory DEF WInv, FrontSynced, QuietIsExact
  <2>4. InFlightFills'
    BY <2>1, SameHistory DEF WInv, InFlightFills, InFlight, Filling
  <2> QED
    BY <1>1, <2>2, <2>3, <2>4 DEF WInv
<1> QED
  BY <1>2, <1>3, <1>4, <1>5, <1>6, <1>7, <1>8, <1>9, <1>10, <1>11, <1>12, <1>13 DEF Next

\* The bytes of the log follow the history, and its variables keep their types,
\* through every interleaving of writes, failures, deaths and clears.
THEOREM BytesInductive == Spec => []WInv
<1> QED
  BY InitWInv, WInvStep, PTL DEF Spec

LEMMA FrontIntactHolds == ASSUME WInv PROVE FrontIntact
<1> SUFFICES ASSUME NEW n \in Undisturbed, NEW f \in Outcomes PROVE IsPrefix(Encoded(n), f)
  BY DEF FrontIntact
<1>1. /\ TypeOK /\ log \in History /\ Len(log) \in Nat
      /\ file \in Seq(Cells) /\ disk \in Seq(Cells)
  BY WInvTypes DEF WInv
<1>2. n \in 0 .. Len(log) /\ Settled(n)
  BY DEF Undisturbed, Settled
<1>3. Encoded(n) = Laid(log, n)
  BY EncodedLaid
<1>4. CASE n = 0
  <2>1. f \in Seq(Cells)
    <3>1. ASSUME NEW k \in (IF IsPrefix(disk, file) THEN Len(disk) ELSE 0) .. Len(file)
          PROVE  SubSeq(file, 1, k) \in Seq(Cells)
      <4>1. k \in 0 .. Len(file)
        BY <1>1, LenProperties
      <4> QED
        BY <1>1, <4>1, Cutting
    <3> QED
      BY <1>1, <3>1 DEF Outcomes
  <2> QED
    BY <1>3, <1>4, <2>1, LaidNone, PrefixConcat
<1>5. CASE n # 0
  <2>1. 1 \in 1 .. n
    BY <1>1, <1>2, <1>5
  <2>2. Fresh
    BY <1>2, <2>1 DEF Settled, Fresh
  <2>3. IsPrefix(Laid(log, n), disk) /\ IsPrefix(disk, file)
    BY <1>2, <2>2 DEF WInv, FrontSynced, AtTheEnd
  <2>4. f \in Seq(Cells) /\ IsPrefix(disk, f)
    BY <1>1, <2>3, OutcomesKeep
  <2>5. Laid(log, n) \in Seq(Cells)
    BY <1>1, <1>2, LaidCells
  <2> QED
    BY <1>1, <1>3, <2>3, <2>4, <2>5, PrefixTransitive
<1> QED
  BY <1>4, <1>5

\* Whatever fails and in any order, every record acknowledged before the first
\* trouble since the last clear stands whole at the front of the log, also after
\* power loss: no later write, torn, left over or misplaced, reaches back over it
\* (wal.rs:31-51, 95-113).
THEOREM FrontStays == Spec => []FrontIntact
<1>1. WInv => FrontIntact
  BY FrontIntactHolds
<1> QED
  BY <1>1, BytesInductive, PTL

-----------------------------------------------------------------------------
(* What replay reads from a cell on *)

KeyEnd(f, i) == i + 1 + Valued(f, i)
Size(f, i) == Valued(f, KeyEnd(f, i) + 1)
End(f, i) == KeyEnd(f, i) + 2 + (IF Size(f, i) = Tombstone THEN 0 ELSE Size(f, i))
Short(f, i) == Len(f) < KeyEnd(f, i) + 2 \/ Len(f) < End(f, i)
RecordAt(f, i) ==
  [key |-> SubSeq(f, i + 2, KeyEnd(f, i)),
   value |-> IF Size(f, i) = Tombstone THEN <<>>
             ELSE <<SubSeq(f, KeyEnd(f, i) + 3, End(f, i))>>]

FoundAt(g, f, i) ==
  IF Len(f) < i + 1 THEN <<>>
  ELSE IF Short(f, i) THEN <<Cut>>
  ELSE <<RecordAt(f, i)>> \o g[End(f, i) + 1]

\* g holds what replay finds from each cell on, as far back as cell n.
Parses(g, f, n) == \A i \in n .. Len(f) + 1 : g[i] = FoundAt(g, f, i)

\* A record that is all there ends within the file, behind where it starts.
LEMMA EndWithin ==
  ASSUME NEW f \in Seq(Cells), NEW i \in 1 .. Len(f) + 1, ~(Len(f) < i + 1), ~Short(f, i)
  PROVE  End(f, i) + 1 \in i + 1 .. Len(f) + 1
<1>1. Len(f) \in Nat /\ \A k \in 1 .. Len(f) : f[k] \in 0 .. Base - 1
  BY LenProperties, ElementOfSeq DEF Cells
<1>2. Base \in Nat /\ Tombstone \in Int
  BY SizesAssumption DEF Tombstone
<1>3. \A k \in 1 .. Len(f) : k + 1 <= Len(f) => Valued(f, k) \in Nat
  <2> SUFFICES ASSUME NEW k \in 1 .. Len(f), k + 1 <= Len(f) PROVE Valued(f, k) \in Nat
    OBVIOUS
  <2>1. k + 1 \in 1 .. Len(f)
    BY <1>1
  <2>2. f[k] \in Nat /\ f[k + 1] \in Nat
    BY <1>1, <1>2, <2>1
  <2>3. Base * f[k + 1] \in Nat
    BY <1>2, <2>2
  <2> QED
    BY <2>2, <2>3 DEF Valued
<1>4. i \in 1 .. Len(f) /\ i + 1 <= Len(f)
  BY <1>1
<1>5. KeyEnd(f, i) \in Nat /\ KeyEnd(f, i) >= i + 1
  BY <1>3, <1>4 DEF KeyEnd
<1>6. KeyEnd(f, i) + 1 \in 1 .. Len(f) /\ KeyEnd(f, i) + 1 + 1 <= Len(f)
  BY <1>1, <1>4, <1>5 DEF Short
<1>7. Size(f, i) \in Nat
  BY <1>3, <1>6 DEF Size
<1>8. End(f, i) \in Nat /\ End(f, i) >= KeyEnd(f, i) + 2
  BY <1>5, <1>7 DEF End
<1> QED
  BY <1>1, <1>4, <1>5, <1>8 DEF Short

LEMMA ParsesExists ==
  ASSUME NEW f \in Seq(Cells), NEW k \in 0 .. Len(f) + 1
  PROVE  \E g : Parses(g, f, Len(f) + 2 - k)
<1> DEFINE T == {m \in 0 .. Len(f) + 1 : ~\E g : Parses(g, f, Len(f) + 2 - m)}
<1> SUFFICES ASSUME T # {} PROVE FALSE
  OBVIOUS
<1>0. Len(f) \in Nat
  BY LenProperties
<1>1. PICK m \in T : \A l \in T : m <= l
  <2>1. T \subseteq Nat
    BY <1>0
  <2> QED
    BY <2>1, LeastElement
<1>2. m \in 0 .. Len(f) + 1 /\ ~\E g : Parses(g, f, Len(f) + 2 - m)
  OBVIOUS
<1>3. m # 0
  <2>1. Len(f) + 2 - 0 = Len(f) + 2 /\ Len(f) + 2 .. Len(f) + 1 = {}
    BY <1>0
  <2>2. Parses(<<>>, f, Len(f) + 2)
    BY <2>1 DEF Parses
  <2> QED
    BY <1>2, <2>1, <2>2
<1>4. m - 1 \in 0 .. Len(f) + 1 /\ m - 1 \notin T
  <2>1. m - 1 \in 0 .. Len(f) + 1 /\ ~(m <= m - 1)
    BY <1>0, <1>2, <1>3
  <2> QED
    BY <1>1, <2>1
<1>5. PICK g : Parses(g, f, Len(f) + 2 - (m - 1))
  BY <1>4
<1> DEFINE first == Len(f) + 2 - m
           h == [i \in first .. Len(f) + 1 |-> IF i = first THEN FoundAt(g, f, i) ELSE g[i]]
<1>6. first \in 1 .. Len(f) + 1 /\ Len(f) + 2 - (m - 1) = first + 1
  BY <1>0, <1>2, <1>3
<1>7. \A i \in first .. Len(f) + 1 : FoundAt(h, f, i) = FoundAt(g, f, i)
  <2>1. ASSUME NEW i \in first .. Len(f) + 1, ~(Len(f) < i + 1), ~Short(f, i)
        PROVE  h[End(f, i) + 1] = g[End(f, i) + 1]
    <3>1. i \in 1 .. Len(f) + 1
      BY <1>0, <1>6
    <3>2. End(f, i) + 1 \in i + 1 .. Len(f) + 1
      BY <2>1, <3>1, EndWithin
    <3> DEFINE e == End(f, i) + 1
    <3> HIDE DEF e, first
    <3>3. e \in first .. Len(f) + 1 /\ e # first
      BY <1>0, <1>6, <3>1, <3>2 DEF e
    <3>4. h[e] = g[e]
      BY <3>3
    <3> QED
      BY <3>4 DEF e
  <2> HIDE DEF h
  <2> QED
    BY <2>1 DEF FoundAt
<1>8. ASSUME NEW i \in first .. Len(f) + 1 PROVE h[i] = FoundAt(h, f, i)
  <2>1. CASE i = first
    <3>1. h[i] = FoundAt(g, f, i)
      BY <2>1
    <3> QED
      BY <1>7, <3>1
  <2>2. CASE i # first
    <3>1. h[i] = g[i]
      BY <2>2
    <3>2. i \in first + 1 .. Len(f) + 1
      BY <1>0, <1>6, <2>2
    <3>3. g[i] = FoundAt(g, f, i)
      BY <1>5, <1>6, <3>2 DEF Parses
    <3> QED
      BY <1>7, <3>1, <3>3
  <2> QED
    BY <2>1, <2>2
<1>9. Parses(h, f, first)
  <2> HIDE DEF h, first
  <2> QED
    BY <1>8 DEF Parses
<1> QED
  BY <1>2, <1>9

LEMMA ParsedIs ==
  ASSUME NEW f \in Seq(Cells)
  PROVE  \E g : Parses(g, f, 1) /\ Parsed(f) = g[1]
<1> DEFINE n == Len(f) + 1
           Body(g) == [i \in 1 .. n |-> FoundAt(g, f, i)]
           from == CHOOSE g : g = Body(g)
<1>1. Len(f) \in Nat /\ n \in Nat /\ 1 \in 1 .. n
  BY LenProperties
<1>2. PICK g : Parses(g, f, 1)
  <2>1. Len(f) + 1 \in 0 .. Len(f) + 1 /\ Len(f) + 2 - (Len(f) + 1) = 1
    BY <1>1
  <2>2. \E g : Parses(g, f, Len(f) + 2 - (Len(f) + 1))
    BY <2>1, ParsesExists
  <2> QED
    BY <2>1, <2>2
<1> DEFINE h == [i \in 1 .. n |-> g[i]]
<1>3. \A i \in 1 .. n : FoundAt(h, f, i) = FoundAt(g, f, i)
  <2> SUFFICES ASSUME NEW i \in 1 .. n, ~(Len(f) < i + 1), ~Short(f, i)
               PROVE  h[End(f, i) + 1] = g[End(f, i) + 1]
    BY DEF FoundAt
  <2>1. End(f, i) + 1 \in 1 .. n
    BY <1>1, EndWithin
  <2> QED
    BY <2>1
<1>4. h = Body(h)
  <2>1. \A i \in 1 .. n : g[i] = FoundAt(h, f, i)
    BY <1>2, <1>3 DEF Parses
  <2> QED
    BY <2>1
<1>5. from = Body(from)
  <2> HIDE DEF h, Body
  <2> QED
    BY <1>4
<1>6. Parsed(f) = from[1]
  BY DEF Parsed, FoundAt, Short, RecordAt, End, Size, KeyEnd
<1>7. Parses(from, f, 1)
  <2>1. \A i \in 1 .. n : Body(from)[i] = FoundAt(from, f, i)
    OBVIOUS
  <2> HIDE DEF from
  <2> QED
    BY <1>5, <2>1 DEF Parses
<1> QED
  BY <1>6, <1>7

-----------------------------------------------------------------------------
(* Where the fields of a record lie in its bytes *)

ValueLen(r) == IF r.value = <<>> THEN 0 ELSE Len(r.value[1])
SizeCells(r) == Number(IF r.value = <<>> THEN Tombstone ELSE Len(r.value[1]))

LEMMA NumberIs ==
  ASSUME NEW n \in 0 .. Tombstone
  PROVE  Len(Number(n)) = 2 /\ Number(n)[1] + Base * Number(n)[2] = n
<1>1. Base \in Nat \ {0}
  BY SizesAssumption
<1>2. n = Base * (n \div Base) + (n % Base)
  BY <1>1
<1>3. Base * (n \div Base) \in Int /\ n % Base \in Int
  BY <1>1
<1> QED
  BY <1>2, <1>3 DEF Number

LEMMA FlattenOne ==
  ASSUME NEW S, NEW x \in Seq(S)
  PROVE  FlattenSeq(<<x>>) = x
<1>1. <<>> \in Seq(Seq(S)) /\ <<x>> = Append(<<>>, x)
  BY EmptySeq
<1>2. FlattenSeq(Append(<<>>, x)) = FlattenSeq(<<>>) \o x
  BY <1>1, FlattenAppend
<1>3. FlattenSeq(<<>>) = <<>>
  BY DEF FlattenSeq
<1> QED
  BY <1>1, <1>2, <1>3, ConcatEmptySeq

LEMMA BytesAre ==
  ASSUME NEW r \in Records \cup {NoRecord}
  PROVE  LET key == Number(Len(r.key)) \o r.key
         IN  Bytes(r) = IF r.value = <<>> THEN key \o SizeCells(r)
                        ELSE (key \o SizeCells(r)) \o r.value[1]
<1> DEFINE a == Number(Len(r.key))
           b == r.key
           c == SizeCells(r)
           d == r.value[1]
<1>1. a \in Seq(Cells) /\ b \in Seq(Cells) /\ c \in Seq(Cells) /\ (r.value # <<>> => d \in Seq(Cells))
  <2>1. Tombstone \in 0 .. Tombstone
    BY SizesAssumption DEF Tombstone
  <2> QED
    BY <2>1, RecordsAre, NumberCells DEF SizeCells
<1>2. Chunks(r) = IF r.value = <<>> THEN <<a, b>> \o <<c>> ELSE <<a, b>> \o <<c, d>>
  BY DEF Chunks, SizeCells
<1> HIDE DEF a, b, c, d
<1>3. /\ <<a>> \in Seq(Seq(Cells)) /\ <<a, b>> \in Seq(Seq(Cells)) /\ <<a, b, c>> \in Seq(Seq(Cells))
      /\ <<a, b>> = Append(<<a>>, b) /\ <<a, b, c>> = Append(<<a, b>>, c)
      /\ <<a, b, c, d>> = Append(<<a, b, c>>, d)
  BY <1>1
<1>8. <<a, b>> \o <<c>> = <<a, b, c>>
  BY <1>1, <1>3, AppendIsConcat
<1>9. r.value # <<>> => <<a, b>> \o <<c, d>> = <<a, b, c, d>>
  <2> SUFFICES ASSUME r.value # <<>> PROVE <<a, b>> \o <<c, d>> = <<a, b, c, d>>
    OBVIOUS
  <2>1. <<c>> \in Seq(Seq(Cells)) /\ <<d>> \in Seq(Seq(Cells)) /\ <<c, d>> = Append(<<c>>, d)
    BY <1>1
  <2>2. <<c, d>> = <<c>> \o <<d>> /\ <<a, b, c, d>> = <<a, b, c>> \o <<d>>
    BY <1>1, <1>3, <2>1, AppendIsConcat
  <2>3. (<<a, b>> \o <<c>>) \o <<d>> = <<a, b>> \o (<<c>> \o <<d>>)
    BY <1>3, <2>1, ConcatAssociative
  <2> QED
    BY <1>8, <2>2, <2>3
<1>4. FlattenSeq(<<a>>) = a
  BY <1>1, FlattenOne
<1>5. FlattenSeq(<<a, b>>) = a \o b
  BY <1>1, <1>3, <1>4, FlattenAppend
<1>6. FlattenSeq(<<a, b, c>>) = (a \o b) \o c
  BY <1>1, <1>3, <1>5, FlattenAppend
<1>7. r.value # <<>> => FlattenSeq(<<a, b, c, d>>) = ((a \o b) \o c) \o d
  BY <1>1, <1>3, <1>6, FlattenAppend
<1> QED
  BY <1>2, <1>6, <1>7, <1>8, <1>9 DEF Bytes, a, b, c, d

LEMMA Fields ==
  ASSUME NEW r \in Records \cup {NoRecord}
  PROVE  LET b == Bytes(r)
             k == Len(r.key)
             v == ValueLen(r)
         IN  /\ k \in Nat /\ v \in Nat /\ Len(b) = k + v + 4
             /\ Valued(b, 1) = k
             /\ \A i \in 1 .. k : b[i + 2] = r.key[i]
             /\ Valued(b, k + 3) = IF r.value = <<>> THEN Tombstone ELSE v
             /\ r.value # <<>> => v # Tombstone /\ \A i \in 1 .. v : b[i + k + 4] = r.value[1][i]
<1> DEFINE a == Number(Len(r.key))
           c == SizeCells(r)
           k == Len(r.key)
           v == ValueLen(r)
           value == IF r.value = <<>> THEN <<>> ELSE r.value[1]
           size == IF r.value = <<>> THEN Tombstone ELSE v
<1>1. /\ r.key \in Seq(Cells) /\ k \in 0 .. Tombstone /\ k \in Nat
      /\ r.value # <<>> => r.value[1] \in Seq(Cells) /\ v \in 0 .. Tombstone
      /\ value \in Seq(Cells) /\ Len(value) = v /\ v \in Nat
      /\ size \in 0 .. Tombstone
  <2>1. Tombstone \in 0 .. Tombstone
    BY SizesAssumption DEF Tombstone
  <2>2. r.key \in Seq(Cells) /\ k \in 0 .. Tombstone /\ k \in Nat
    BY RecordsAre, LenProperties
  <2>3. CASE r.value = <<>>
    BY <2>1, <2>2, <2>3, EmptySeq DEF ValueLen
  <2>4. CASE r.value # <<>>
    BY <2>2, <2>4, RecordsAre, LenProperties DEF ValueLen
  <2> QED
    BY <2>3, <2>4
<1>2. r.value # <<>> => v # Tombstone
  <2>1. r # NoRecord \/ r.value = <<>>
    BY DEF NoRecord
  <2>2. ASSUME r.value # <<>>, r \in Records PROVE Len(r.value[1]) < Tombstone
    <3>1. r.value[1] \in Values
      BY <2>2 DEF Records
    <3> QED
      BY <3>1, SizesAssumption
  <2>3. Tombstone \in Int
    BY SizesAssumption DEF Tombstone
  <2> QED
    BY <1>1, <2>1, <2>2, <2>3 DEF ValueLen
<1>3. /\ a \in Seq(Cells) /\ Len(a) = 2 /\ Valued(a, 1) = k
      /\ c \in Seq(Cells) /\ Len(c) = 2 /\ Valued(c, 1) = size
  <2>1. a = Number(k) /\ c = Number(size)
    BY DEF SizeCells, ValueLen
  <2> HIDE DEF a, c, k, size
  <2>2. 1 + 1 = 2
    OBVIOUS
  <2> QED
    BY <1>1, <2>1, <2>2, NumberIs, NumberCells DEF Valued
<1> DEFINE ab == a \o r.key
           abc == ab \o c
           all == abc \o value
<1>4. Bytes(r) = all
  <2>1. abc \in Seq(Cells)
    BY <1>1, <1>3, ConcatProperties
  <2>2. abc \o <<>> = abc
    BY <2>1, ConcatEmptySeq
  <2> QED
    BY <2>2, BytesAre
<1> HIDE DEF a, c, value
<1>5. /\ ab \in Seq(Cells) /\ Len(ab) = k + 2
      /\ \A i \in 1 .. k + 2 : ab[i] = IF i <= 2 THEN a[i] ELSE r.key[i - 2]
  <2>1. /\ ab \in Seq(Cells) /\ Len(ab) = Len(a) + Len(r.key)
        /\ \A i \in 1 .. Len(a) + Len(r.key) :
             ab[i] = IF i <= Len(a) THEN a[i] ELSE r.key[i - Len(a)]
    BY <1>1, <1>3, ConcatProperties
  <2>2. Len(a) + Len(r.key) = k + 2
    BY <1>1, <1>3
  <2> HIDE DEF ab, k
  <2> QED
    BY <1>3, <2>1, <2>2
<1> HIDE DEF ab
<1>6. /\ abc \in Seq(Cells) /\ Len(abc) = k + 4
      /\ \A i \in 1 .. k + 4 : abc[i] = IF i <= k + 2 THEN ab[i] ELSE c[i - (k + 2)]
  <2>0. ab \in Seq(Cells) /\ c \in Seq(Cells)
    BY <1>3, <1>5
  <2>1. /\ abc \in Seq(Cells) /\ Len(abc) = Len(ab) + Len(c)
        /\ \A i \in 1 .. Len(ab) + Len(c) :
             abc[i] = IF i <= Len(ab) THEN ab[i] ELSE c[i - Len(ab)]
    BY <2>0, ConcatProperties
  <2>2. Len(ab) + Len(c) = k + 4
    BY <1>1, <1>3, <1>5
  <2> HIDE DEF abc, k
  <2> QED
    BY <1>5, <2>1, <2>2
<1> HIDE DEF abc
<1>7. /\ Len(all) = k + v + 4
      /\ \A i \in 1 .. k + v + 4 : all[i] = IF i <= k + 4 THEN abc[i] ELSE value[i - (k + 4)]
  <2>1. /\ Len(all) = Len(abc) + Len(value)
        /\ \A i \in 1 .. Len(abc) + Len(value) :
             all[i] = IF i <= Len(abc) THEN abc[i] ELSE value[i - Len(abc)]
    BY <1>1, <1>6, ConcatProperties
  <2>2. Len(abc) + Len(value) = k + v + 4
    BY <1>1, <1>6
  <2> HIDE DEF all, k, v
  <2> QED
    BY <1>6, <2>1, <2>2
<1> HIDE DEF all, k, v, size
<1>8. Valued(all, 1) = k
  <2>1. all[1] = a[1] /\ all[2] = a[2]
    BY <1>1, <1>5, <1>6, <1>7
  <2>2. 1 + 1 = 2
    OBVIOUS
  <2> QED
    BY <1>3, <2>1, <2>2 DEF Valued
<1>9. \A i \in 1 .. k : all[i + 2] = r.key[i]
  <2> SUFFICES ASSUME NEW i \in 1 .. k PROVE all[i + 2] = r.key[i]
    OBVIOUS
  <2>1. all[i + 2] = abc[i + 2] /\ abc[i + 2] = ab[i + 2]
    BY <1>1, <1>6, <1>7
  <2>2. ab[i + 2] = r.key[(i + 2) - 2] /\ (i + 2) - 2 = i
    BY <1>1, <1>5
  <2> QED
    BY <2>1, <2>2
<1>10. Valued(all, k + 3) = size
  <2>1. all[k + 3] = abc[k + 3] /\ all[k + 4] = abc[k + 4]
    BY <1>1, <1>7
  <2>2. abc[k + 3] = c[(k + 3) - (k + 2)] /\ abc[k + 4] = c[(k + 4) - (k + 2)]
    BY <1>1, <1>6
  <2>3. (k + 3) - (k + 2) = 1 /\ (k + 4) - (k + 2) = 2 /\ k + 3 + 1 = k + 4 /\ 1 + 1 = 2
    BY <1>1
  <2> QED
    BY <1>3, <2>1, <2>2, <2>3 DEF Valued
<1>11. \A i \in 1 .. v : all[i + k + 4] = value[i]
  <2> SUFFICES ASSUME NEW i \in 1 .. v PROVE all[i + k + 4] = value[i]
    OBVIOUS
  <2>1. i + k + 4 \in 1 .. k + v + 4 /\ ~(i + k + 4 <= k + 4) /\ (i + k + 4) - (k + 4) = i
    BY <1>1
  <2> QED
    BY <1>7, <2>1
<1> QED
  BY <1>1, <1>2, <1>4, <1>7, <1>8, <1>9, <1>10, <1>11 DEF k, v, value, size

-----------------------------------------------------------------------------
(* Replay reads back what put wrote *)

LEMMA Window ==
  ASSUME NEW S, NEW f \in Seq(S), NEW s \in Seq(S), NEW o \in Nat,
         o + Len(s) <= Len(f), \A i \in 1 .. Len(s) : f[o + i] = s[i]
  PROVE  SubSeq(f, o + 1, o + Len(s)) = s
<1> DEFINE m == o + 1
           n == o + Len(s)
           u == SubSeq(f, m, n)
<1>1. Len(s) \in Nat /\ Len(f) \in Nat /\ m \in Nat /\ n \in Nat
  BY LenProperties
<1>2. \A i \in m .. n : f[i] \in S
  <2>1. \A i \in m .. n : i \in 1 .. Len(f)
    BY <1>1
  <2> QED
    BY <2>1, ElementOfSeq
<1>3. m \in 1 .. n + 1
  BY <1>1
<1>4. n - m + 1 = Len(s) /\ (m <= n <=> Len(s) # 0)
  BY <1>1
<1> HIDE DEF m, n
<1>5. /\ u \in Seq(S) /\ Len(u) = IF m <= n THEN n - m + 1 ELSE 0
      /\ \A i \in 1 .. n - m + 1 : u[i] = f[m + i - 1]
  BY <1>1, <1>2, <1>3, SubSeqProperties
<1> HIDE DEF u
<1>6. Len(u) = Len(s)
  BY <1>4, <1>5
<1>7. ASSUME NEW i \in 1 .. Len(s) PROVE u[i] = s[i]
  <2>1. m + i - 1 = o + i
    BY <1>1 DEF m
  <2> QED
    BY <1>4, <1>5, <1>7, <2>1
<1> QED
  BY <1>5, <1>6, <1>7, SeqEqual DEF u, m, n

\* A file that holds the first w bytes of a record from cell o + 1 on.
Holds(f, o, r, w) ==
  /\ o \in Nat /\ w \in 0 .. Len(Bytes(r)) /\ o + w <= Len(f)
  /\ \A i \in 1 .. w : f[o + i] = Bytes(r)[i]

LEMMA ReadsBack ==
  ASSUME NEW f \in Seq(Cells), NEW r \in Records \cup {NoRecord}, NEW o, NEW w, Holds(f, o, r, w)
  PROVE  /\ w >= 2 => KeyEnd(f, o + 1) = o + 2 + Len(r.key)
         /\ w >= Len(r.key) + 4 => End(f, o + 1) = o + Len(Bytes(r))
         /\ w = Len(Bytes(r)) => RecordAt(f, o + 1) = r
<1> DEFINE b == Bytes(r)
           k == Len(r.key)
           v == ValueLen(r)
<1>1. /\ k \in Nat /\ v \in Nat /\ Len(b) = k + v + 4
      /\ Valued(b, 1) = k
      /\ \A i \in 1 .. k : b[i + 2] = r.key[i]
      /\ Valued(b, k + 3) = IF r.value = <<>> THEN Tombstone ELSE v
      /\ r.value # <<>> => v # Tombstone /\ \A i \in 1 .. v : b[i + k + 4] = r.value[1][i]
  BY Fields
<1>2. o \in Nat /\ w \in 0 .. Len(b) /\ o + w <= Len(f) /\ \A i \in 1 .. w : f[o + i] = b[i]
  BY DEF Holds
<1> HIDE DEF b, k, v
<1>3. w \in Nat /\ Len(b) \in Nat /\ Len(f) \in Nat
  BY <1>1, <1>2, LenProperties
<1>4. \A i \in Nat \ {0} : i + 1 <= w => Valued(f, o + i) = Valued(b, i)
  <2> SUFFICES ASSUME NEW i \in Nat \ {0}, i + 1 <= w PROVE Valued(f, o + i) = Valued(b, i)
    OBVIOUS
  <2>1. i \in 1 .. w /\ i + 1 \in 1 .. w /\ o + i + 1 = o + (i + 1)
    BY <1>2, <1>3
  <2>2. f[o + i] = b[i] /\ f[o + i + 1] = b[i + 1]
    BY <1>2, <2>1
  <2> QED
    BY <2>2 DEF Valued
<1>5. ASSUME w >= 2 PROVE KeyEnd(f, o + 1) = o + 2 + k
  <2>1. Valued(f, o + 1) = k
    BY <1>1, <1>3, <1>4, <1>5
  <2> QED
    BY <1>1, <1>2, <2>1 DEF KeyEnd
<1>6. ASSUME w >= k + 4
      PROVE  /\ Size(f, o + 1) = IF r.value = <<>> THEN Tombstone ELSE v
             /\ End(f, o + 1) = o + Len(b)
  <2>1. KeyEnd(f, o + 1) = o + 2 + k
    BY <1>1, <1>3, <1>5, <1>6
  <2>2. o + 2 + k + 1 = o + (k + 3) /\ k + 3 \in Nat \ {0} /\ k + 3 + 1 <= w
    BY <1>1, <1>2, <1>3, <1>6
  <2>3. Size(f, o + 1) = Valued(b, k + 3)
    BY <1>4, <2>1, <2>2 DEF Size
  <2>4. r.value = <<>> => v = 0
    BY DEF v, ValueLen
  <2>5. End(f, o + 1) = o + 2 + k + 2 + v
    BY <1>1, <2>1, <2>3, <2>4 DEF End
  <2> QED
    BY <1>1, <1>2, <2>3, <2>5
<1>7. ASSUME w = Len(b) PROVE RecordAt(f, o + 1) = r
  <2>1. w >= 2 /\ w >= k + 4
    BY <1>1, <1>7
  <2>2. KeyEnd(f, o + 1) = o + 2 + k /\ End(f, o + 1) = o + Len(b)
    BY <1>5, <1>6, <2>1
  <2>3. SubSeq(f, o + 1 + 2, o + 2 + k) = r.key
    <3> DEFINE p == o + 2
    <3>1. p \in Nat /\ p + k <= Len(f) /\ o + 1 + 2 = p + 1
      BY <1>1, <1>2, <1>3, <2>1
    <3>2. \A i \in 1 .. k : f[p + i] = r.key[i]
      <4> SUFFICES ASSUME NEW i \in 1 .. k PROVE f[p + i] = r.key[i]
        OBVIOUS
      <4>1. i + 2 \in 1 .. w /\ p + i = o + (i + 2)
        BY <1>1, <1>2, <1>3, <2>1
      <4> HIDE DEF p
      <4> QED
        BY <1>1, <1>2, <4>1
    <3>3. r.key \in Seq(Cells) /\ k = Len(r.key)
      BY RecordsAre DEF k
    <3> HIDE DEF p, k
    <3>4. SubSeq(f, p + 1, p + Len(r.key)) = r.key
      BY <3>1, <3>2, <3>3, Window
    <3> QED
      BY <3>1, <3>3, <3>4 DEF p
  <2>4. ASSUME r.value # <<>>
        PROVE  SubSeq(f, KeyEnd(f, o + 1) + 3, End(f, o + 1)) = r.value[1]
    <3> DEFINE p == o + k + 4
    <3>1. v = Len(r.value[1]) /\ r.value[1] \in Seq(Cells)
      BY <2>4, RecordsAre DEF v, ValueLen
    <3>2. p \in Nat /\ p + v <= Len(f) /\ o + 2 + k + 3 = p + 1 /\ o + Len(b) = p + v
      BY <1>1, <1>2, <1>3, <1>7
    <3>3. \A i \in 1 .. v : f[p + i] = r.value[1][i]
      <4> SUFFICES ASSUME NEW i \in 1 .. v PROVE f[p + i] = r.value[1][i]
        OBVIOUS
      <4>1. i + k + 4 \in 1 .. w /\ p + i = o + (i + k + 4)
        BY <1>1, <1>2, <1>3, <1>7
      <4>2. f[p + i] = b[i + k + 4]
        BY <1>2, <4>1
      <4> HIDE DEF p
      <4> QED
        BY <1>1, <2>4, <4>2
    <3> HIDE DEF p, v
    <3>4. SubSeq(f, p + 1, p + Len(r.value[1])) = r.value[1]
      BY <3>1, <3>2, <3>3, Window
    <3> QED
      BY <2>2, <3>1, <3>2, <3>4
  <2>5. r = [key |-> r.key, value |-> r.value] /\ (r.value # <<>> => r.value = <<r.value[1]>>)
    BY DEF Records, NoRecord
  <2>6. Size(f, o + 1) = Tombstone <=> r.value = <<>>
    BY <1>1, <1>6, <2>1
  <2> QED
    BY <2>2, <2>3, <2>4, <2>5, <2>6 DEF RecordAt
<1> QED
  BY <1>5, <1>6, <1>7 DEF b, k

LEMMA FoundWhole ==
  ASSUME NEW f \in Seq(Cells), NEW r \in Records \cup {NoRecord}, NEW o, NEW g,
         Holds(f, o, r, Len(Bytes(r)))
  PROVE  FoundAt(g, f, o + 1) = <<r>> \o g[o + Len(Bytes(r)) + 1]
<1> DEFINE w == Len(Bytes(r))
<1>1. w = Len(r.key) + ValueLen(r) + 4 /\ Len(r.key) \in Nat /\ ValueLen(r) \in Nat
  BY Fields
<1>2. o \in Nat /\ o + w <= Len(f) /\ Len(f) \in Nat
  BY LenProperties DEF Holds
<1>3. /\ KeyEnd(f, o + 1) = o + 2 + Len(r.key)
      /\ End(f, o + 1) = o + w
      /\ RecordAt(f, o + 1) = r
  BY <1>1, ReadsBack
<1> HIDE DEF w
<1>4. ~(Len(f) < o + 1 + 1)
  BY <1>1, <1>2
<1>5. ~(Len(f) < KeyEnd(f, o + 1) + 2) /\ ~(Len(f) < End(f, o + 1))
  <2> DEFINE k == Len(r.key)
             v == ValueLen(r)
  <2>1. w = k + v + 4 /\ k \in Nat /\ v \in Nat /\ KeyEnd(f, o + 1) = o + 2 + k
    BY <1>1, <1>3
  <2> HIDE DEF k, v
  <2> QED
    BY <1>2, <1>3, <2>1
<1> QED
  BY <1>3, <1>4, <1>5 DEF FoundAt, Short, w

LEMMA FoundTorn ==
  ASSUME NEW f \in Seq(Cells), NEW r \in Records \cup {NoRecord}, NEW o, NEW g, NEW w,
         Holds(f, o, r, w), w < Len(Bytes(r)), Len(f) = o + w
  PROVE  FoundAt(g, f, o + 1) = IF w < 2 THEN <<>> ELSE <<Cut>>
<1>1. Len(Bytes(r)) = Len(r.key) + ValueLen(r) + 4 /\ Len(r.key) \in Nat /\ ValueLen(r) \in Nat
  BY Fields
<1>2. o \in Nat /\ w \in Nat
  BY <1>1 DEF Holds
<1>3. CASE w < 2
  <2>1. Len(f) < o + 1 + 1
    BY <1>2, <1>3
  <2> QED
    BY <1>3, <2>1 DEF FoundAt
<1>4. CASE ~(w < 2)
  <2> DEFINE k == Len(r.key)
             v == ValueLen(r)
             n == Len(Bytes(r))
  <2>1. w >= 2
    BY <1>2, <1>4
  <2>2. KeyEnd(f, o + 1) = o + 2 + k /\ (w >= k + 4 => End(f, o + 1) = o + n)
    BY <2>1, ReadsBack
  <2>3. n = k + v + 4 /\ k \in Nat /\ v \in Nat /\ w < n
    BY <1>1
  <2> HIDE DEF k, v, n
  <2>4. Short(f, o + 1)
    BY <1>2, <2>2, <2>3 DEF Short
  <2>5. ~(Len(f) < o + 1 + 1)
    BY <1>2, <1>4
  <2> QED
    BY <1>4, <2>4, <2>5 DEF FoundAt
<1> QED
  BY <1>3, <1>4

LEMMA LaidPrefix ==
  ASSUME NEW l \in History, NEW m \in 0 .. Len(l), NEW n \in m .. Len(l)
  PROVE  IsPrefix(Laid(l, m), Laid(l, n))
<1> DEFINE T == {k \in m .. Len(l) : ~IsPrefix(Laid(l, m), Laid(l, k))}
<1> SUFFICES ASSUME T # {} PROVE FALSE
  OBVIOUS
<1>0. Len(l) \in Nat
  BY HistoryLen
<1>1. PICK k \in T : \A j \in T : k <= j
  <2>1. T \subseteq Nat
    BY <1>0
  <2> QED
    BY <2>1, LeastElement
<1>2. k \in m .. Len(l) /\ ~IsPrefix(Laid(l, m), Laid(l, k))
  OBVIOUS
<1>3. k # m
  <2>1. IsPrefix(Laid(l, m), Laid(l, m))
    BY LaidCells, PrefixConcat
  <2> QED
    BY <1>2, <2>1
<1>4. k - 1 \in m .. Len(l) /\ k - 1 \in 0 .. Len(l) - 1 /\ ~(k <= k - 1) /\ k - 1 + 1 = k
  BY <1>0, <1>2, <1>3
<1>5. IsPrefix(Laid(l, m), Laid(l, k - 1))
  BY <1>1, <1>4
<1>6. /\ Laid(l, m) \in Seq(Cells) /\ Laid(l, k - 1) \in Seq(Cells)
      /\ Bytes(l[k].record) \in Seq(Cells)
  <2>1. k - 1 \in 0 .. Len(l) /\ k \in 1 .. Len(l)
    BY <1>0, <1>2, <1>4
  <2> QED
    BY <2>1, LaidCells, EventAt
<1>7. Laid(l, k) = Laid(l, k - 1) \o Bytes(l[k].record)
  <2>1. Laid(l, k - 1 + 1) = Laid(l, k - 1) \o Bytes(l[k - 1 + 1].record)
    BY <1>4, LaidStep
  <2> QED
    BY <1>4, <2>1
<1>8. IsPrefix(Laid(l, m), Laid(l, k))
  <2> DEFINE a == Laid(l, m)
             b == Laid(l, k - 1)
             c == Bytes(l[k].record)
  <2>1. a \in Seq(Cells) /\ b \in Seq(Cells) /\ c \in Seq(Cells) /\ IsPrefix(a, b)
    BY <1>5, <1>6
  <2> HIDE DEF a, b, c
  <2>2. b \o c \in Seq(Cells) /\ IsPrefix(b, b \o c)
    BY <2>1, PrefixConcat
  <2>3. IsPrefix(a, b \o c)
    BY <2>1, <2>2, PrefixTransitive
  <2> QED
    BY <1>7, <2>3 DEF a, b, c
<1> QED
  BY <1>2, <1>8

\* The records of a history from the one after m on, and what a record cut short
\* after w bytes adds to them.
From(l, m) == [i \in 1 .. Len(l) - m |-> l[m + i].record]
Rest(w) == IF w < 2 THEN <<>> ELSE <<Cut>>
Found == Records \cup {NoRecord, Cut}

LEMMA FromIs ==
  ASSUME NEW l \in History, NEW m \in 0 .. Len(l), NEW w
  PROVE  /\ From(l, m) \in Seq(Found) /\ Rest(w) \in Seq(Found)
         /\ Len(From(l, m)) = Len(l) - m
         /\ \A i \in 1 .. Len(l) - m : From(l, m)[i] = l[m + i].record
         /\ m = Len(l) => From(l, m) = <<>>
         /\ m # Len(l) => From(l, m) \o Rest(w) = <<l[m + 1].record>> \o (From(l, m + 1) \o Rest(w))
<1>1. m \in Nat /\ Len(l) \in Nat /\ Len(l) - m \in Nat
  BY HistoryLen
<1>2. \A i \in 1 .. Len(l) : l[i].record \in Found
  BY EventAt DEF Event, Found
<1>3. ASSUME NEW n \in 0 .. Len(l)
      PROVE  /\ From(l, n) \in Seq(Found) /\ Len(From(l, n)) = Len(l) - n
             /\ \A i \in 1 .. Len(l) - n : From(l, n)[i] = l[n + i].record
  <2>1. n \in Nat /\ Len(l) - n \in Nat /\ \A i \in 1 .. Len(l) - n : n + i \in 1 .. Len(l)
    BY <1>1
  <2>2. \A i \in 1 .. Len(l) - n : l[n + i].record \in Found
    BY <1>2, <2>1
  <2>3. From(l, n) \in Seq(Found)
    BY <2>1, <2>2, IsASeq DEF From
  <2> QED
    BY <2>1, <2>3 DEF From
<1>4. Rest(w) \in Seq(Found)
  <2>1. Cut \in Found
    BY DEF Found
  <2>2. <<Cut>> \in Seq(Found) /\ <<>> \in Seq(Found)
    BY <2>1
  <2> QED
    BY <2>2 DEF Rest
<1>5. ASSUME m = Len(l) PROVE From(l, m) = <<>>
  <2>1. Len(l) - m = 0 /\ m \in 0 .. Len(l)
    BY <1>1, <1>5
  <2>2. Len(From(l, m)) = 0 /\ From(l, m) \in Seq(Found)
    BY <1>3, <2>1
  <2> QED
    BY <2>2, EmptySeq
<1>6. ASSUME m # Len(l)
      PROVE  From(l, m) \o Rest(w) = <<l[m + 1].record>> \o (From(l, m + 1) \o Rest(w))
  <2> DEFINE x == l[m + 1].record
             a == From(l, m)
             b == From(l, m + 1)
             n == Len(l) - m
  <2>1. m + 1 \in 0 .. Len(l) /\ m + 1 \in 1 .. Len(l) /\ n \in Nat \ {0} /\ Len(l) - (m + 1) = n - 1
    BY <1>1, <1>6
  <2>2. a \in Seq(Found) /\ b \in Seq(Found) /\ x \in Found
    BY <1>2, <1>3, <2>1
  <2>9. <<x>> \in Seq(Found)
    BY <2>2
  <2>3. Len(a) = n /\ a[1] = x /\ \A i \in 2 .. n : a[i] = l[m + i].record
    <3>1. Len(a) = n /\ \A i \in 1 .. n : a[i] = l[m + i].record
      BY <1>3
    <3> HIDE DEF n, a
    <3>2. 1 \in 1 .. n /\ \A i \in 2 .. n : i \in 1 .. n
      BY <2>1
    <3> QED
      BY <3>1, <3>2
  <2>4. Len(b) = n - 1 /\ \A i \in 2 .. n : b[i - 1] = l[m + i].record
    <3>1. Len(b) = n - 1 /\ \A i \in 1 .. n - 1 : b[i] = l[m + 1 + i].record
      BY <1>3, <2>1
    <3> HIDE DEF n, b
    <3>2. \A i \in 2 .. n : i - 1 \in 1 .. n - 1 /\ m + 1 + (i - 1) = m + i
      BY <1>1, <2>1
    <3> QED
      BY <3>1, <3>2
  <2> HIDE DEF a, b, x, n
  <2> DEFINE c == <<x>> \o b
  <2>5. /\ c \in Seq(Found) /\ Len(c) = n
        /\ \A i \in 1 .. n : c[i] = IF i = 1 THEN x ELSE b[i - 1]
    <3>1. Len(<<x>>) = 1 /\ <<x>>[1] = x
      OBVIOUS
    <3>2. /\ c \in Seq(Found) /\ Len(c) = Len(<<x>>) + Len(b)
          /\ \A i \in 1 .. Len(<<x>>) + Len(b) :
               c[i] = IF i <= Len(<<x>>) THEN <<x>>[i] ELSE b[i - Len(<<x>>)]
      BY <2>2, <2>9, ConcatProperties
    <3>3. Len(<<x>>) + Len(b) = n /\ \A i \in 1 .. n : i <= 1 <=> i = 1
      BY <2>1, <2>4, <3>1
    <3> HIDE DEF c
    <3> QED
      BY <3>1, <3>2, <3>3
  <2> HIDE DEF c
  <2>6. \A i \in 1 .. n : a[i] = c[i]
    <3> SUFFICES ASSUME NEW i \in 1 .. n PROVE a[i] = c[i]
      OBVIOUS
    <3>1. i = 1 \/ i \in 2 .. n
      BY <2>1
    <3> QED
      BY <2>3, <2>4, <2>5, <3>1
  <2>7. a = c
    BY <2>2, <2>3, <2>5, <2>6, SeqEqual
  <2>8. (<<x>> \o b) \o Rest(w) = <<x>> \o (b \o Rest(w))
    BY <1>4, <2>2, <2>9, ConcatAssociative
  <2> QED
    BY <2>7, <2>8 DEF a, b, c, x
<1> QED
  BY <1>3, <1>4, <1>5, <1>6

\* The bytes of records one after the other, and the first w of another, read as
\* those records and, if a length was written of the other, as an end cut short.
LEMMA ParsedLaid ==
  ASSUME NEW l \in History, NEW r \in Records \cup {NoRecord}, NEW w \in 0 .. Len(Bytes(r)) - 1
  PROVE  LET f == Laid(l, Len(l)) \o SubSeq(Bytes(r), 1, w)
         IN  f \in Seq(Cells) /\ Parsed(f) = From(l, 0) \o Rest(w)
<1> DEFINE N == Len(l)
           whole == Laid(l, N)
           torn == SubSeq(Bytes(r), 1, w)
           f == whole \o torn
           size(m) == Len(Laid(l, m))
<1>1. N \in Nat /\ w \in Nat /\ w <= Len(Bytes(r)) /\ w < Len(Bytes(r)) /\ Bytes(r) \in Seq(Cells)
  BY HistoryLen, BytesCells, LenProperties
<1>2. /\ torn \in Seq(Cells) /\ Len(torn) = w
      /\ \A i \in 1 .. w : torn[i] = Bytes(r)[i]
  BY <1>1, Cutting
<1>3. \A m \in 0 .. N : Laid(l, m) \in Seq(Cells) /\ size(m) \in Nat
  BY LaidCells, LenProperties
<1>4. whole \in Seq(Cells) /\ Len(whole) = size(N) /\ size(N) \in Nat
  BY <1>1, <1>3
<1>5. /\ f \in Seq(Cells) /\ Len(f) = size(N) + w
      /\ \A i \in 1 .. w : f[size(N) + i] = torn[i]
      /\ IsPrefix(whole, f)
  <2> DEFINE u == size(N)
  <2>1. whole \in Seq(Cells) /\ torn \in Seq(Cells) /\ Len(whole) = u /\ Len(torn) = w /\ u \in Nat
    BY <1>2, <1>4
  <2> HIDE DEF whole, torn, u
  <2>2. /\ f \in Seq(Cells) /\ Len(f) = u + w
        /\ \A i \in 1 .. u + w : f[i] = IF i <= u THEN whole[i] ELSE torn[i - u]
        /\ IsPrefix(whole, f)
    BY <2>1, ConcatProperties, PrefixConcat
  <2>3. \A i \in 1 .. w : u + i \in 1 .. u + w /\ ~(u + i <= u) /\ (u + i) - u = i
    BY <1>1, <2>1
  <2> HIDE DEF f
  <2>4. \A i \in 1 .. w : f[u + i] = torn[i]
    BY <2>2, <2>3
  <2> QED
    BY <2>2, <2>4 DEF u
<1> HIDE DEF whole, torn, f
<1>6. Holds(f, size(N), r, w)
  <2>1. w \in 0 .. Len(Bytes(r))
    BY <1>1, LenProperties
  <2>2. size(N) + w <= Len(f)
    BY <1>1, <1>4, <1>5
  <2> QED
    BY <1>2, <1>4, <1>5, <2>1, <2>2 DEF Holds
<1>7. ASSUME NEW m \in 0 .. N - 1
      PROVE  /\ Holds(f, size(m), l[m + 1].record, Len(Bytes(l[m + 1].record)))
             /\ size(m + 1) = size(m) + Len(Bytes(l[m + 1].record))
             /\ size(m) + 1 \in 1 .. Len(f) + 1
  <2> DEFINE x == Bytes(l[m + 1].record)
             a == Laid(l, m)
             b == Laid(l, m + 1)
  <2>1. m \in 0 .. N /\ m + 1 \in 0 .. N /\ m + 1 \in 1 .. N /\ m \in 0 .. Len(l) - 1 /\ N \in m + 1 .. N
    BY <1>1
  <2>2. a \in Seq(Cells) /\ b \in Seq(Cells) /\ x \in Seq(Cells) /\ b = a \o x
    BY <1>3, <2>1, EventAt, LaidStep
  <2>3. IsPrefix(b, whole)
    BY <2>1, LaidPrefix DEF whole
  <2> HIDE DEF a, b, x
  <2>4. IsPrefix(b, f)
    BY <1>4, <1>5, <2>2, <2>3, PrefixTransitive
  <2>5. Len(b) <= Len(f) /\ \A i \in 1 .. Len(b) : b[i] = f[i]
    <3>1. f \in Seq(Cells) /\ b \in Seq(Cells)
      BY <1>5, <2>2
    <3> QED
      BY <2>4, <3>1, PrefixIs
  <2>6. /\ Len(a) \in Nat /\ Len(x) \in Nat /\ Len(b) = Len(a) + Len(x) /\ Len(f) \in Nat
        /\ \A i \in 1 .. Len(a) + Len(x) : b[i] = IF i <= Len(a) THEN a[i] ELSE x[i - Len(a)]
    BY <1>5, <2>2, ConcatProperties, LenProperties
  <2>7. \A i \in 1 .. Len(x) : f[Len(a) + i] = x[i]
    <3> SUFFICES ASSUME NEW i \in 1 .. Len(x) PROVE f[Len(a) + i] = x[i]
      OBVIOUS
    <3>1. Len(a) + i \in 1 .. Len(b) /\ ~(Len(a) + i <= Len(a)) /\ (Len(a) + i) - Len(a) = i
      BY <2>6
    <3> QED
      BY <2>5, <2>6, <3>1
  <2>8. Len(x) \in 0 .. Len(x) /\ Len(a) + Len(x) <= Len(f) /\ Len(a) + 1 \in 1 .. Len(f) + 1
    BY <2>5, <2>6
  <2>9. Holds(f, Len(a), l[m + 1].record, Len(x))
    BY <2>6, <2>7, <2>8 DEF Holds, x
  <2> QED
    BY <2>6, <2>8, <2>9 DEF a, b, x
<1>8. PICK g : Parses(g, f, 1) /\ Parsed(f) = g[1]
  BY <1>5, ParsedIs
<1> DEFINE T == {k \in 0 .. N : g[size(N - k) + 1] # From(l, N - k) \o Rest(w)}
<1>9. ASSUME T # {} PROVE FALSE
  <2>1. PICK k \in T : \A j \in T : k <= j
    <3>1. T \subseteq Nat
      BY <1>1
    <3> QED
      BY <1>9, <3>1, LeastElement
  <2>2. k \in 0 .. N /\ g[size(N - k) + 1] # From(l, N - k) \o Rest(w)
    OBVIOUS
  <2>3. CASE k = 0
    <3>1. N - k = N
      BY <1>1, <2>3
    <3>2. size(N) + 1 \in 1 .. Len(f) + 1
      BY <1>1, <1>4, <1>5
    <3>3. g[size(N) + 1] = FoundAt(g, f, size(N) + 1)
      BY <1>8, <3>2 DEF Parses
    <3>4. FoundAt(g, f, size(N) + 1) = Rest(w)
      BY <1>1, <1>5, <1>6, FoundTorn DEF Rest
    <3>5. From(l, N) \o Rest(w) = Rest(w)
      <4>1. N \in 0 .. N
        BY <1>1
      <4> QED
        BY <4>1, FromIs, ConcatEmptySeq
    <3> QED
      BY <2>2, <3>1, <3>3, <3>4, <3>5
  <2>4. CASE k # 0
    <3> DEFINE m == N - k
               x == l[m + 1].record
    <3>1. /\ m \in 0 .. N - 1 /\ m \in 0 .. N /\ m # N /\ m + 1 = N - (k - 1)
          /\ k - 1 \in 0 .. N /\ ~(k <= k - 1) /\ m + 1 \in 1 .. N
      BY <1>1, <2>2, <2>4
    <3>2. g[size(m + 1) + 1] = From(l, m + 1) \o Rest(w)
      <4>1. k - 1 \notin T
        BY <2>1, <3>1
      <4> HIDE DEF m
      <4> QED
        BY <3>1, <4>1
    <3>3. x \in Records \cup {NoRecord}
      BY <3>1, EventAt DEF Event
    <3> HIDE DEF m
    <3>4. g[size(m) + 1] = FoundAt(g, f, size(m) + 1)
      BY <1>7, <1>8, <3>1 DEF Parses
    <3>5. FoundAt(g, f, size(m) + 1) = <<x>> \o g[size(m) + Len(Bytes(x)) + 1]
      BY <1>5, <1>7, <3>1, <3>3, FoundWhole
    <3>6. g[size(m) + 1] = <<x>> \o (From(l, m + 1) \o Rest(w))
      BY <1>7, <3>1, <3>2, <3>4, <3>5
    <3>7. g[size(m) + 1] = From(l, m) \o Rest(w)
      BY <3>1, <3>6, FromIs
    <3> QED
      BY <2>2, <3>7 DEF m
  <2> QED
    BY <2>3, <2>4
<1>10. g[size(0) + 1] = From(l, 0) \o Rest(w)
  <2>1. N \in 0 .. N /\ N - N = 0
    BY <1>1
  <2>2. N \notin T
    BY <1>9
  <2> HIDE DEF N
  <2> QED
    BY <2>1, <2>2
<1>11. size(0) + 1 = 1
  BY LaidNone
<1> QED
  BY <1>5, <1>8, <1>10, <1>11 DEF f, whole, torn

LEMMA ReplayLaid ==
  ASSUME NEW l \in History, NEW r \in Records \cup {NoRecord}, NEW w \in 0 .. Len(Bytes(r)) - 1
  PROVE  LET f == Laid(l, Len(l)) \o SubSeq(Bytes(r), 1, w)
         IN  /\ Replay(f).ok <=> w < 2
             /\ w < 2 => Replay(f).entries = From(l, 0)
<1> DEFINE f == Laid(l, Len(l)) \o SubSeq(Bytes(r), 1, w)
           e == From(l, 0)
           all == Parsed(f)
<1>1. Len(l) \in Nat /\ 0 \in 0 .. Len(l) /\ Len(l) - 0 = Len(l)
  BY HistoryLen
<1>2. e \in Seq(Found) /\ Rest(w) \in Seq(Found) /\ Len(e) = Len(l)
      /\ \A i \in 1 .. Len(l) : e[i] = l[i].record
  <2>1. /\ e \in Seq(Found) /\ Rest(w) \in Seq(Found) /\ Len(e) = Len(l)
        /\ \A i \in 1 .. Len(l) : e[i] = l[0 + i].record
    BY <1>1, FromIs
  <2>2. \A i \in 1 .. Len(l) : 0 + i = i
    BY <1>1
  <2> QED
    BY <2>1, <2>2
<1>3. all = e \o Rest(w)
  BY ParsedLaid
<1>4. Replay(f) = IF all # <<>> /\ Last(all) = Cut THEN [ok |-> FALSE, entries |-> <<>>]
                  ELSE [ok |-> TRUE, entries |-> all]
  BY DEF Replay
<1> HIDE DEF e, all, f
<1>5. CASE w < 2
  <2>1. all = e
    BY <1>2, <1>3, <1>5, ConcatEmptySeq DEF Rest
  <2>2. ASSUME all # <<>> PROVE Last(all) # Cut
    <3>1. Len(l) \in 1 .. Len(l)
      BY <1>1, <1>2, <2>1, <2>2, EmptySeq
    <3>2. Last(all) = l[Len(l)].record
      BY <1>2, <2>1, <3>1 DEF Last
    <3>3. l[Len(l)].record \in Records \cup {NoRecord}
      BY <3>1, EventAt DEF Event
    <3>4. Cut \notin Records \cup {NoRecord}
      BY DEF Cut, Records, NoRecord
    <3> QED
      BY <3>2, <3>3, <3>4
  <2>3. Replay(f) = [ok |-> TRUE, entries |-> all]
    BY <1>4, <2>2
  <2> QED
    BY <1>5, <2>1, <2>3 DEF f, e
<1>6. CASE ~(w < 2)
  <2>1. all = Append(e, Cut)
    BY <1>2, <1>3, <1>6, AppendIsConcat DEF Rest, Found
  <2>2. Cut \in Found
    BY DEF Found
  <2>3. all \in Seq(Found) /\ Len(all) = Len(l) + 1 /\ all[Len(l) + 1] = Cut /\ all # <<>>
    BY <1>2, <2>1, <2>2, AppendProperties
  <2>4. Last(all) = Cut
    BY <2>3 DEF Last
  <2>5. Replay(f) = [ok |-> FALSE, entries |-> <<>>]
    BY <1>4, <2>3, <2>4
  <2> QED
    BY <1>6, <2>5 DEF f
<1> QED
  BY <1>5, <1>6

-----------------------------------------------------------------------------
(* The records of a history that reached the file *)

\* Positions in a history of n records, in ascending order.
Picks(n) == {s \in UNION {[1 .. m -> 1 .. n] : m \in 0 .. n} :
               \A i, j \in DOMAIN s : i < j => s[i] < s[j]}

Picked(l, s) == [i \in DOMAIN s |-> l[s[i]]]
Held(l, s) == Laid(Picked(l, s), Len(s))

LEMMA PickIs ==
  ASSUME NEW n \in Nat, NEW s \in Picks(n)
  PROVE  /\ s \in Seq(1 .. n) /\ Len(s) \in 0 .. n /\ Len(s) \in Nat /\ DOMAIN s = 1 .. Len(s)
         /\ \A i \in 1 .. Len(s) : s[i] \in 1 .. n
         /\ \A i, j \in 1 .. Len(s) : i < j => s[i] < s[j]
<1>1. PICK m \in 0 .. n : s \in [1 .. m -> 1 .. n]
  BY DEF Picks
<1>2. s \in Seq(1 .. n) /\ Len(s) = m /\ DOMAIN s = 1 .. m
  BY <1>1
<1>3. \A i, j \in DOMAIN s : i < j => s[i] < s[j]
  BY DEF Picks
<1> QED
  BY <1>1, <1>2, <1>3

LEMMA PickMade ==
  ASSUME NEW n \in Nat, NEW s \in Seq(1 .. n), Len(s) <= n,
         \A i, j \in 1 .. Len(s) : i < j => s[i] < s[j]
  PROVE  s \in Picks(n)
<1>1. s \in [1 .. Len(s) -> 1 .. n] /\ Len(s) \in 0 .. n /\ DOMAIN s = 1 .. Len(s)
  BY LenProperties
<1> QED
  BY <1>1 DEF Picks

LEMMA PickNone == ASSUME NEW n \in Nat PROVE <<>> \in Picks(n)
<1> DEFINE e == <<>>
<1>1. e \in Seq(1 .. n) /\ Len(e) = 0
  BY EmptySeq
<1> HIDE DEF e
<1>2. Len(e) <= n /\ \A i, j \in 1 .. Len(e) : i < j => e[i] < e[j]
  BY <1>1
<1>3. e \in Picks(n)
  BY <1>1, <1>2, PickMade
<1> QED
  BY <1>3 DEF e

LEMMA PickWider ==
  ASSUME NEW n \in Nat, NEW m \in 0 .. n, NEW s \in Picks(m)
  PROVE  s \in Picks(n)
<1>1. m \in Nat /\ 1 .. m \subseteq 1 .. n
  OBVIOUS
<1>2. /\ s \in Seq(1 .. m) /\ Len(s) \in 0 .. m
      /\ \A i, j \in 1 .. Len(s) : i < j => s[i] < s[j]
  BY <1>1, PickIs
<1>3. s \in Seq(1 .. n) /\ Len(s) <= n
  BY <1>1, <1>2, SeqMonotonic
<1> QED
  BY <1>2, <1>3, PickMade

LEMMA PickMore ==
  ASSUME NEW n \in Nat \ {0}, NEW s \in Picks(n - 1)
  PROVE  /\ Append(s, n) \in Picks(n) /\ s \in Seq(1 .. n)
         /\ Range(Append(s, n)) = Range(s) \cup {n} /\ IsPrefix(s, Append(s, n))
<1> DEFINE m == n - 1
           t == Append(s, n)
<1>1. m \in Nat /\ n = m + 1 /\ 1 .. m \subseteq 1 .. n /\ n \in 1 .. n
  OBVIOUS
<1> HIDE DEF m
<1>2. /\ s \in Seq(1 .. m) /\ Len(s) \in 0 .. m /\ Len(s) \in Nat
      /\ \A i \in 1 .. Len(s) : s[i] \in 1 .. m
      /\ \A i, j \in 1 .. Len(s) : i < j => s[i] < s[j]
  BY <1>1, PickIs DEF m
<1>3. s \in Seq(1 .. n)
  BY <1>1, <1>2, SeqMonotonic
<1>4. /\ t \in Seq(1 .. n) /\ Len(t) = Len(s) + 1
      /\ \A i \in 1 .. Len(s) : t[i] = s[i]
      /\ t[Len(s) + 1] = n
  BY <1>1, <1>3, AppendProperties
<1>5. Range(t) = Range(s) \cup {n}
  <2>1. /\ Range(t) = {t[i] : i \in 1 .. Len(t)}
        /\ Range(s) = {s[i] : i \in 1 .. Len(s)}
    BY <1>3, <1>4, RangeEquality
  <2>2. \A i \in 1 .. Len(t) : i \in 1 .. Len(s) \/ i = Len(s) + 1
    BY <1>2, <1>4
  <2>3. Len(s) + 1 \in 1 .. Len(t) /\ \A i \in 1 .. Len(s) : i \in 1 .. Len(t)
    BY <1>2, <1>4
  <2> HIDE DEF t
  <2> QED
    BY <1>4, <2>1, <2>2, <2>3
<1> HIDE DEF t
<1>6. ASSUME NEW i \in 1 .. Len(t), NEW j \in 1 .. Len(t), i < j PROVE t[i] < t[j]
  <2>1. i \in 1 .. Len(s) /\ (j \in 1 .. Len(s) \/ j = Len(s) + 1)
    BY <1>2, <1>4, <1>6
  <2>2. CASE j \in 1 .. Len(s)
    BY <1>2, <1>4, <1>6, <2>1, <2>2
  <2>3. CASE j = Len(s) + 1
    <3>1. t[i] \in 1 .. m /\ t[j] = n
      BY <1>2, <1>4, <2>1, <2>3
    <3> QED
      BY <1>1, <3>1
  <2> QED
    BY <2>1, <2>2, <2>3
<1>7. t \in Picks(n)
  <2>1. Len(t) <= n
    BY <1>1, <1>2, <1>4
  <2> QED
    BY <1>4, <1>6, <2>1, PickMade
<1>8. IsPrefix(s, t)
  <2>1. Len(s) <= Len(t)
    BY <1>2, <1>4
  <2> QED
    BY <1>3, <1>4, <2>1, PrefixIs
<1> QED
  BY <1>3, <1>5, <1>7, <1>8 DEF t

LEMMA PickCut ==
  ASSUME NEW n \in Nat, NEW s \in Picks(n), NEW m \in 0 .. Len(s)
  PROVE  /\ SubSeq(s, 1, m) \in Picks(n) /\ Len(SubSeq(s, 1, m)) = m
         /\ \A i \in 1 .. m : SubSeq(s, 1, m)[i] = s[i]
<1> DEFINE t == SubSeq(s, 1, m)
<1>1. /\ s \in Seq(1 .. n) /\ Len(s) \in 0 .. n /\ Len(s) \in Nat
      /\ \A i, j \in 1 .. Len(s) : i < j => s[i] < s[j]
  BY PickIs
<1>2. t \in Seq(1 .. n) /\ Len(t) = m /\ \A i \in 1 .. m : t[i] = s[i]
  BY <1>1, Cutting
<1> HIDE DEF t
<1>3. Len(t) <= n /\ \A i \in 1 .. m : i \in 1 .. Len(s)
  BY <1>1, <1>2
<1>4. \A i, j \in 1 .. Len(t) : i < j => t[i] < t[j]
  BY <1>1, <1>2, <1>3
<1>5. t \in Picks(n)
  BY <1>2, <1>3, <1>4, PickMade
<1> QED
  BY <1>2, <1>5 DEF t

LEMMA PickedIs ==
  ASSUME NEW l \in History, NEW s \in Picks(Len(l))
  PROVE  /\ Picked(l, s) \in History /\ Len(Picked(l, s)) = Len(s)
         /\ \A i \in 1 .. Len(s) : Picked(l, s)[i] = l[s[i]]
         /\ Held(l, s) \in Seq(Cells)
<1>1. Len(l) \in Nat
  BY HistoryLen
<1>2. Len(s) \in Nat /\ DOMAIN s = 1 .. Len(s) /\ \A i \in 1 .. Len(s) : s[i] \in 1 .. Len(l)
  BY <1>1, PickIs
<1>3. Picked(l, s) = [i \in 1 .. Len(s) |-> l[s[i]]]
  BY <1>2 DEF Picked
<1>4. \A i \in 1 .. Len(s) : l[s[i]] \in Event
  BY <1>2, EventAt
<1>5. [i \in 1 .. Len(s) |-> l[s[i]]] \in Seq(Event)
  BY <1>2, <1>4, IsASeq
<1>6. Picked(l, s) \in History
  BY <1>3, <1>5 DEF History
<1>7. Len(Picked(l, s)) = Len(s)
  BY <1>2, <1>3
<1>8. Len(s) \in 0 .. Len(Picked(l, s))
  BY <1>2, <1>7
<1>9. Held(l, s) \in Seq(Cells)
  BY <1>6, <1>8, LaidCells DEF Held
<1> QED
  BY <1>3, <1>6, <1>7, <1>9

LEMMA HeldNone == ASSUME NEW l PROVE Held(l, <<>>) = <<>>
BY LaidNone DEF Held

LEMMA HeldSame ==
  ASSUME NEW n \in Nat, NEW s \in Picks(n), NEW l, NEW m,
         \A i \in 1 .. n : l[i].record = m[i].record
  PROVE  Held(l, s) = Held(m, s)
<1>1. Len(s) \in Nat /\ DOMAIN s = 1 .. Len(s) /\ \A i \in 1 .. Len(s) : s[i] \in 1 .. n
  BY PickIs
<1> DEFINE a == Picked(l, s)
           b == Picked(m, s)
<1>2. \A i \in 1 .. Len(s) : a[i].record = b[i].record
  BY <1>1 DEF Picked
<1> HIDE DEF a, b
<1>3. Laid(a, Len(s)) = Laid(b, Len(s))
  BY <1>1, <1>2, LaidSame
<1> QED
  BY <1>3 DEF Held, a, b

\* The first m records of a selection are held by the part of it.
LEMMA HeldPart ==
  ASSUME NEW l \in History, NEW s \in Picks(Len(l)), NEW m \in 0 .. Len(s)
  PROVE  Laid(Picked(l, s), m) = Held(l, SubSeq(s, 1, m))
<1> DEFINE t == SubSeq(s, 1, m)
           a == Picked(l, s)
           b == Picked(l, t)
<1>1. Len(l) \in Nat
  BY HistoryLen
<1>2. /\ t \in Picks(Len(l)) /\ Len(t) = m /\ \A i \in 1 .. m : t[i] = s[i]
      /\ m \in Nat /\ Len(s) \in Nat
  BY <1>1, PickCut, PickIs
<1>3. \A i \in 1 .. m : a[i] = l[s[i]] /\ b[i] = l[t[i]]
  <2>1. \A i \in 1 .. m : i \in 1 .. Len(s)
    BY <1>2
  <2> HIDE DEF t
  <2> QED
    BY <1>2, <2>1, PickedIs
<1> HIDE DEF a, b, t
<1>4. Laid(a, m) = Laid(b, m)
  <2>1. \A i \in 1 .. m : a[i].record = b[i].record
    BY <1>2, <1>3
  <2> QED
    BY <1>2, <2>1, LaidSame
<1> QED
  BY <1>2, <1>4 DEF Held, a, b, t

LEMMA HeldMore ==
  ASSUME NEW l \in History, NEW n \in 1 .. Len(l), NEW s \in Picks(n - 1)
  PROVE  /\ s \in Picks(Len(l)) /\ Append(s, n) \in Picks(Len(l))
         /\ Held(l, Append(s, n)) = Held(l, s) \o Bytes(l[n].record)
<1> DEFINE t == Append(s, n)
           b == Picked(l, t)
           k == Len(s)
<1>1. Len(l) \in Nat /\ n \in Nat \ {0} /\ n - 1 \in Nat /\ n \in 0 .. Len(l) /\ n - 1 \in 0 .. Len(l)
  BY HistoryLen
<1>2. s \in Picks(Len(l)) /\ t \in Picks(Len(l)) /\ s \in Seq(1 .. n)
  BY <1>1, PickMore, PickWider
<1>3. k \in Nat /\ Len(t) = k + 1 /\ t[k + 1] = n /\ \A i \in 1 .. k : t[i] = s[i]
  <2>1. n \in 1 .. n
    BY <1>1
  <2> QED
    BY <1>2, <2>1, AppendProperties, LenProperties
<1> HIDE DEF t, k
<1>4. /\ b \in History /\ Len(b) = k + 1
      /\ \A i \in 1 .. k + 1 : b[i] = l[t[i]]
      /\ \A i \in 1 .. k : Picked(l, s)[i] = l[s[i]]
  BY <1>2, <1>3, PickedIs DEF k
<1> HIDE DEF b
<1>5. Laid(b, k + 1) = Laid(b, k) \o Bytes(b[k + 1].record)
  <2>1. k \in 0 .. Len(b) - 1
    BY <1>3, <1>4
  <2> QED
    BY <1>4, <2>1, LaidStep
<1>6. Laid(b, k) = Held(l, s)
  <2>1. \A i \in 1 .. k : i \in 1 .. k + 1
    BY <1>3
  <2>2. \A i \in 1 .. k : b[i].record = Picked(l, s)[i].record
    BY <1>3, <1>4, <2>1
  <2>3. Laid(b, k) = Laid(Picked(l, s), k)
    BY <1>3, <2>2, LaidSame
  <2> QED
    BY <2>3 DEF Held, k
<1>7. b[k + 1] = l[n]
  <2>1. k + 1 \in 1 .. k + 1
    BY <1>3
  <2> QED
    BY <1>3, <1>4, <2>1
<1>8. Held(l, t) = Laid(b, k + 1)
  BY <1>3 DEF Held, b
<1> QED
  BY <1>2, <1>5, <1>6, <1>7, <1>8 DEF t

-----------------------------------------------------------------------------
(* What a reader finds *)

\* A file that holds the records s, and the first w bytes of r cut short.
Reads(f, s, r, w) ==
  /\ s \in Picks(Len(log))
  /\ r \in Records \cup {NoRecord} /\ w \in 0 .. Len(Bytes(r)) - 1
  /\ f = Held(log, s) \o SubSeq(Bytes(r), 1, w)

LEMMA ReadsWhole ==
  ASSUME log \in History, NEW s \in Picks(Len(log))
  PROVE  Reads(Held(log, s), s, NoRecord, 0)
<1>1. NoRecord \in Records \cup {NoRecord} /\ 0 \in 0 .. Len(Bytes(NoRecord)) - 1
  BY Fields
<1>2. SubSeq(Bytes(NoRecord), 1, 0) = <<>>
  BY SubSeqEmpty
<1>3. Held(log, s) \o <<>> = Held(log, s)
  BY PickedIs, ConcatEmptySeq
<1> QED
  BY <1>1, <1>2, <1>3 DEF Reads

\* The positions up to one of an ascending sequence are as many as its rank.
LEMMA RankInPick ==
  ASSUME NEW n \in Nat, NEW s \in Picks(n), NEW m \in 0 .. Len(s)
  PROVE  Cardinality({s[i] : i \in 1 .. m}) = m
<1> DEFINE f == [i \in 1 .. m |-> s[i]]
           T == {s[i] : i \in 1 .. m}
<1>1. /\ Len(s) \in Nat /\ m \in Nat /\ \A i \in 1 .. m : i \in 1 .. Len(s) /\ s[i] \in 1 .. n
      /\ \A i, j \in 1 .. Len(s) : i < j => s[i] < s[j]
  <2>1. /\ Len(s) \in Nat /\ \A i \in 1 .. Len(s) : s[i] \in 1 .. n
        /\ \A i, j \in 1 .. Len(s) : i < j => s[i] < s[j]
    BY PickIs
  <2>2. m \in Nat /\ \A i \in 1 .. m : i \in 1 .. Len(s)
    BY <2>1
  <2> QED
    BY <2>1, <2>2
<1>2. ASSUME NEW i \in 1 .. m, NEW j \in 1 .. m, s[i] = s[j] PROVE i = j
  <2>1. ~(i < j) /\ ~(j < i)
    <3>1. s[i] \in Int /\ s[j] \in Int
      BY <1>1
    <3>2. ~(s[i] < s[j]) /\ ~(s[j] < s[i])
      BY <1>2, <3>1
    <3> QED
      BY <1>1, <3>2
  <2> QED
    BY <1>1, <2>1
<1>3. f \in Bijection(1 .. m, T)
  BY <1>2 DEF Bijection, Injection, Surjection, IsInjective
<1>4. IsFiniteSet(1 .. m) /\ Cardinality(1 .. m) = m
  <2>1. 1 \in Int /\ m \in Int
    BY <1>1
  <2>2. IsFiniteSet(1 .. m) /\ Cardinality(1 .. m) = IF 1 > m THEN 0 ELSE m - 1 + 1
    BY <2>1, FS_Interval
  <2> QED
    BY <1>1, <2>2
<1>5. ExistsBijection(1 .. m, T)
  BY <1>3 DEF ExistsBijection
<1> HIDE DEF T
<1>6. Cardinality(T) = Cardinality(1 .. m)
  BY <1>4, <1>5, FS_Bijection
<1> QED
  BY <1>4, <1>6 DEF T

\* What a reader makes of the file is in the history, in its order.
LEMMA FaithfulReading ==
  ASSUME log \in History, NEW f, NEW s, NEW r, NEW w, Reads(f, s, r, w), Replay(f).ok,
         \A i \in DOMAIN log : log[i].acked => i \in Range(s)
  PROVE  Faithful(Replay(f).entries)
<1> DEFINE N == Len(log)
           e == Replay(f).entries
           kept == Range(s)
           k == Len(s)
<1>1. N \in Nat /\ DOMAIN log = 1 .. N
  BY LenProperties DEF History
<1>2. s \in Picks(N) /\ f = Held(log, s) \o SubSeq(Bytes(r), 1, w)
      /\ r \in Records \cup {NoRecord} /\ w \in 0 .. Len(Bytes(r)) - 1
  BY DEF Reads
<1>3. /\ s \in Seq(1 .. N) /\ k \in Nat /\ \A i \in 1 .. k : s[i] \in 1 .. N
      /\ \A i, j \in 1 .. k : i < j => s[i] < s[j]
  BY <1>1, <1>2, PickIs
<1>4. e = From(Picked(log, s), 0)
  <2> DEFINE l == Picked(log, s)
  <2>1. l \in History /\ Len(l) = k /\ f = Laid(l, Len(l)) \o SubSeq(Bytes(r), 1, w)
    BY <1>2, PickedIs DEF Held
  <2> HIDE DEF l, e
  <2>2. Replay(f).entries = From(l, 0)
    BY <1>2, <2>1, ReplayLaid
  <2> QED
    BY <2>2 DEF e, l
<1>5. Len(e) = k /\ \A i \in 1 .. k : e[i] = log[s[i]].record
  <2> DEFINE l == Picked(log, s)
  <2>1. l \in History /\ Len(l) = k /\ \A i \in 1 .. k : l[i] = log[s[i]]
    BY <1>2, PickedIs
  <2> HIDE DEF l, e, k
  <2>2. 0 \in 0 .. Len(l) /\ Len(l) - 0 = k /\ \A i \in 1 .. k : 0 + i = i
    BY <1>3, <2>1
  <2>3. Len(From(l, 0)) = Len(l) - 0 /\ \A i \in 1 .. Len(l) - 0 : From(l, 0)[i] = l[0 + i].record
    BY <2>1, <2>2, FromIs
  <2>4. \A i \in 1 .. k : From(l, 0)[i] = l[i].record
    BY <2>2, <2>3
  <2> QED
    BY <1>4, <2>1, <2>2, <2>3, <2>4 DEF l
<1>6. kept = {s[i] : i \in 1 .. k} /\ kept \in SUBSET DOMAIN log
  <2>1. kept = {s[i] : i \in 1 .. k}
    BY <1>3, RangeEquality
  <2> QED
    BY <1>1, <1>3, <2>1
<1> HIDE DEF e, kept
<1>7. Cardinality(kept) = Len(e)
  <2>1. k \in 0 .. Len(s)
    BY <1>3
  <2> QED
    BY <1>1, <1>2, <1>5, <1>6, <2>1, RankInPick
<1>8. ASSUME NEW i \in kept
      PROVE  e[Cardinality({j \in kept : j <= i})] = log[i].record
  <2>1. PICK m \in 1 .. k : i = s[m]
    BY <1>6
  <2>2. {j \in kept : j <= i} = {s[j] : j \in 1 .. m}
    <3>1. ASSUME NEW j \in 1 .. k PROVE s[j] <= s[m] <=> j \in 1 .. m
      <4>1. s[j] \in Int /\ s[m] \in Int
        BY <1>3
      <4>2. CASE j < m
        BY <1>3, <4>1, <4>2
      <4>3. CASE j = m
        BY <1>3, <4>1, <4>3
      <4>4. CASE m < j
        <5>1. s[m] < s[j]
          BY <1>3, <4>4
        <5> QED
          BY <4>1, <4>4, <5>1
      <4> QED
        BY <4>2, <4>3, <4>4
    <3>2. \A j \in 1 .. m : j \in 1 .. k
      BY <1>3
    <3> HIDE DEF k
    <3> QED
      BY <1>6, <2>1, <3>1, <3>2
  <2>3. Cardinality({j \in kept : j <= i}) = m
    <3>1. m \in 0 .. Len(s)
      BY <1>3
    <3> QED
      BY <1>1, <1>2, <2>2, <3>1, RankInPick
  <2> QED
    BY <1>5, <2>1, <2>3
<1>9. \A i \in DOMAIN log : log[i].acked => i \in kept
  BY DEF kept
<1> QED
  BY <1>6, <1>7, <1>8, <1>9 DEF Faithful, e

\* The first k cells of a file read as m of its records, all it holds whole, and
\* the next one cut short.
ReadsPart(f, s, k, m) ==
  /\ \E q, v : Reads(SubSeq(f, 1, k), SubSeq(s, 1, m), q, v)
  /\ \A d \in 0 .. Len(s) : Len(Laid(Picked(log, s), d)) <= k => d <= m

LEMMA PartReads ==
  ASSUME log \in History, NEW f, NEW s, NEW r, NEW w, Reads(f, s, r, w), NEW k \in 0 .. Len(f)
  PROVE  \E m \in 0 .. Len(s) : ReadsPart(f, s, k, m)
<1> DEFINE N == Len(s)
           l == Picked(log, s)
           size(m) == Len(Laid(l, m))
           torn == SubSeq(Bytes(r), 1, w)
           g == SubSeq(f, 1, k)
<1>1. Len(log) \in Nat /\ s \in Picks(Len(log)) /\ f = Held(log, s) \o torn
      /\ r \in Records \cup {NoRecord} /\ w \in 0 .. Len(Bytes(r)) - 1
  BY HistoryLen DEF Reads
<1>2. N \in Nat /\ l \in History /\ Len(l) = N /\ \A i \in 1 .. N : l[i] = log[s[i]]
  BY <1>1, PickIs, PickedIs
<1>3. \A m \in 0 .. N : Laid(l, m) \in Seq(Cells) /\ size(m) \in Nat
  BY <1>2, LaidCells, LenProperties
<1>4. torn \in Seq(Cells) /\ Len(torn) = w /\ w \in Nat /\ w < Len(Bytes(r)) /\ Bytes(r) \in Seq(Cells)
      /\ Len(Bytes(r)) \in Nat
  <2>1. Bytes(r) \in Seq(Cells) /\ Len(Bytes(r)) \in Nat
    BY <1>1, BytesCells, LenProperties
  <2>2. w \in 0 .. Len(Bytes(r)) /\ w \in Nat /\ w < Len(Bytes(r))
    BY <1>1, <2>1
  <2> QED
    BY <2>1, <2>2, Cutting
<1>5. N \in 0 .. N /\ Held(log, s) = Laid(l, N) /\ f \in Seq(Cells) /\ Len(f) = size(N) + w
  <2>1. N \in 0 .. N /\ Held(log, s) = Laid(l, N)
    BY <1>2 DEF Held
  <2> QED
    BY <1>1, <1>3, <1>4, <2>1, ConcatProperties
<1>6. \A m \in 0 .. N : IsPrefix(Laid(l, m), f)
  <2> SUFFICES ASSUME NEW m \in 0 .. N PROVE IsPrefix(Laid(l, m), f)
    OBVIOUS
  <2>1. IsPrefix(Laid(l, m), Laid(l, N))
    <3>1. m \in 0 .. Len(l) /\ N \in m .. Len(l)
      BY <1>2
    <3> QED
      BY <1>2, <3>1, LaidPrefix
  <2>2. IsPrefix(Laid(l, N), f)
    BY <1>1, <1>3, <1>4, <1>5, PrefixConcat
  <2> QED
    BY <1>3, <1>5, <2>1, <2>2, PrefixTransitive
<1>7. k \in Nat /\ k <= Len(f) /\ Len(f) \in Nat
      /\ g \in Seq(Cells) /\ Len(g) = k /\ \A i \in 1 .. k : g[i] = f[i]
  <2>1. k \in Nat /\ k <= Len(f) /\ Len(f) \in Nat
    BY <1>5, LenProperties
  <2> QED
    BY <1>5, <2>1, Cutting
\* The records that the part holds whole.
<1> DEFINE Past == {d \in 0 .. N : size(N - d) <= k}
<1>8. PICK m \in 0 .. N : size(m) <= k /\ \A d \in 0 .. N : size(d) <= k => d <= m
  <2>1. N \in Past
    <3>1. N - N = 0 /\ size(0) = 0
      BY <1>2, LaidNone
    <3> QED
      BY <1>2, <1>7, <3>1
  <2>2. PICK n \in Past : \A j \in Past : n <= j
    <3>1. Past \subseteq Nat
      BY <1>2
    <3> HIDE DEF Past
    <3> QED
      BY <2>1, <3>1, LeastElement
  <2>3. n \in 0 .. N /\ N - n \in 0 .. N /\ size(N - n) <= k
    BY <1>2
  <2>4. ASSUME NEW d \in 0 .. N, size(d) <= k PROVE d <= N - n
    <3>1. N - d \in 0 .. N /\ N - (N - d) = d
      BY <1>2
    <3>2. N - d \in Past
      BY <2>4, <3>1
    <3>3. n <= N - d
      BY <2>2, <3>2
    <3> HIDE DEF N
    <3> QED
      BY <1>2, <2>3, <3>3
  <2> QED
    BY <2>3, <2>4
<1> HIDE DEF N, l, torn, g
\* The next record, or what the file has of one behind the last.
<1> DEFINE q == IF m = N THEN r ELSE l[m + 1].record
           b == Bytes(q)
           v == k - size(m)
<1>9. size(m) \in Nat /\ v \in Nat /\ size(m) + v = k
  BY <1>3, <1>7, <1>8
<1>10. q \in Records \cup {NoRecord}
  <2>1. m # N => m + 1 \in 1 .. N
    BY <1>2
  <2> QED
    BY <1>1, <1>2, <2>1, EventAt DEF Event
<1>11. b \in Seq(Cells) /\ Len(b) \in Nat
  BY <1>10, BytesCells, LenProperties
<1>12. /\ v \in 0 .. Len(b) - 1
       /\ \A i \in 1 .. v : f[size(m) + i] = b[i]
  <2>1. CASE m = N
    <3>1. v <= w
      BY <1>4, <1>5, <1>7, <1>9, <2>1
    <3>2. v \in 0 .. Len(b) - 1
      BY <1>4, <1>9, <1>11, <2>1, <3>1
    <3>3. ASSUME NEW i \in 1 .. v PROVE f[size(m) + i] = b[i]
      <4> DEFINE a == Laid(l, N)
      <4>1. a \in Seq(Cells) /\ Len(a) \in Nat /\ f = a \o torn /\ size(m) = Len(a)
        BY <1>1, <1>3, <1>5, <2>1
      <4> HIDE DEF a
      <4>2. i \in 1 .. w /\ Len(a) + i \in 1 .. Len(a) + Len(torn) /\ ~(Len(a) + i <= Len(a))
            /\ (Len(a) + i) - Len(a) = i
        BY <1>4, <1>9, <3>1, <4>1
      <4>3. f[Len(a) + i] = torn[i]
        <5>1. \A j \in 1 .. Len(a) + Len(torn) :
                (a \o torn)[j] = IF j <= Len(a) THEN a[j] ELSE torn[j - Len(a)]
          BY <1>4, <4>1, ConcatProperties
        <5> QED
          BY <4>1, <4>2, <5>1
      <4>4. torn[i] = Bytes(r)[i]
        <5>1. w \in 0 .. Len(Bytes(r))
          BY <1>4
        <5> QED
          BY <1>4, <4>2, <5>1, Cutting DEF torn
      <4> QED
        BY <2>1, <4>1, <4>3, <4>4
    <3> QED
      BY <3>2, <3>3
  <2>2. CASE m # N
    <3>1. m + 1 \in 0 .. N /\ m \in 0 .. Len(l) - 1 /\ ~(m + 1 <= m) /\ m + 1 \in 1 .. N
      BY <1>2, <2>2
    <3> DEFINE a == Laid(l, m)
               c == Laid(l, m + 1)
    <3>2. a \in Seq(Cells) /\ c \in Seq(Cells) /\ c = a \o b /\ Len(a) = size(m) /\ Len(c) = size(m + 1)
      BY <1>2, <1>3, <2>2, <3>1, LaidStep
    <3>3. ~(Len(c) <= k)
      BY <1>8, <3>1
    <3>4. IsPrefix(c, f)
      BY <1>6, <3>1
    <3> HIDE DEF a, c, b
    <3>5. /\ Len(c) = Len(a) + Len(b) /\ Len(a) \in Nat
          /\ \A j \in 1 .. Len(a) + Len(b) : c[j] = IF j <= Len(a) THEN a[j] ELSE b[j - Len(a)]
      BY <1>11, <3>2, ConcatProperties, LenProperties
    <3>6. v \in 0 .. Len(b) - 1
      BY <1>7, <1>9, <1>11, <3>2, <3>3, <3>5
    <3>7. ASSUME NEW i \in 1 .. v PROVE f[Len(a) + i] = b[i]
      <4>1. Len(a) + i \in 1 .. Len(a) + Len(b) /\ ~(Len(a) + i <= Len(a)) /\ (Len(a) + i) - Len(a) = i
        BY <1>11, <3>5, <3>6
      <4>2. c[Len(a) + i] = b[i]
        BY <3>5, <4>1
      <4>3. \A j \in 1 .. Len(c) : c[j] = f[j]
        <5>1. f \in Seq(Cells) /\ c \in Seq(Cells)
          BY <1>5, <3>2
        <5> QED
          BY <3>4, <5>1, PrefixIs
      <4> QED
        BY <3>5, <4>1, <4>2, <4>3
    <3> QED
      BY <3>2, <3>6, <3>7
  <2> QED
    BY <2>1, <2>2
<1>13. g = Laid(l, m) \o SubSeq(b, 1, v)
  <2> DEFINE a == Laid(l, m)
             d == SubSeq(b, 1, v)
             c == a \o d
  <2>1. a \in Seq(Cells) /\ Len(a) = size(m) /\ Len(a) \in Nat /\ IsPrefix(a, f)
    BY <1>3, <1>6
  <2>2. d \in Seq(Cells) /\ Len(d) = v /\ \A i \in 1 .. v : d[i] = b[i]
    <3>1. v \in 0 .. Len(b)
      BY <1>11, <1>12
    <3> HIDE DEF b, v
    <3> QED
      BY <1>11, <3>1, Cutting
  <2> HIDE DEF a, d, v
  <2>3. /\ c \in Seq(Cells) /\ Len(c) = k
        /\ \A i \in 1 .. k : c[i] = IF i <= Len(a) THEN a[i] ELSE d[i - Len(a)]
    BY <1>9, <2>1, <2>2, ConcatProperties
  <2> HIDE DEF c
  <2>4. ASSUME NEW i \in 1 .. k PROVE g[i] = c[i]
    <3>1. CASE i <= Len(a)
      <4>1. i \in 1 .. Len(a)
        BY <1>7, <2>1, <3>1
      <4>2. a[i] = f[i]
        BY <1>5, <2>1, <4>1, PrefixIs
      <4> QED
        BY <1>7, <2>3, <3>1, <4>2
    <3>2. CASE ~(i <= Len(a))
      <4>1. i - Len(a) \in 1 .. v /\ Len(a) + (i - Len(a)) = i
        BY <1>7, <1>9, <2>1, <3>2
      <4>2. f[i] = b[i - Len(a)]
        BY <1>12, <2>1, <4>1
      <4>3. d[i - Len(a)] = b[i - Len(a)]
        BY <2>2, <4>1
      <4> QED
        BY <1>7, <2>3, <3>2, <4>2, <4>3
    <3> QED
      BY <3>1, <3>2
  <2>5. g = c
    BY <1>7, <2>3, <2>4, SeqEqual
  <2> QED
    BY <2>5 DEF a, c, d, v
<1>14. SubSeq(s, 1, m) \in Picks(Len(log)) /\ Laid(l, m) = Held(log, SubSeq(s, 1, m))
  BY <1>1, <1>8, PickCut, HeldPart DEF N, l
<1>15. Reads(g, SubSeq(s, 1, m), q, v)
  <2> HIDE DEF q, v
  <2> QED
    BY <1>10, <1>12, <1>13, <1>14 DEF Reads, b
<1> QED
  BY <1>8, <1>15 DEF ReadsPart, g, N, l

-----------------------------------------------------------------------------
(* The records kept *)

Latest == log[Len(log)].record
Torn(n) == SubSeq(Bytes(Latest), 1, n)
Sent(j) == FlattenSeq(SubSeq(Chunks(Latest), 1, j))

\* While a record is put, the file holds the records s and the first n bytes of
\* it.  Calls do not split lengths, nor records that fit in the buffer.
Putting(s) ==
  /\ s \in Picks(Len(log) - 1) /\ Latest \in scenario.records
  /\ \E j \in 0 .. Len(Chunks(Latest)) :
       /\ queue = SubSeq(Chunks(Latest), j + 1, Len(Chunks(Latest)))
       /\ file \o buf = Held(log, s) \o Sent(j)
  /\ \E n \in 0 .. Len(Bytes(Latest)) :
       /\ n # 1 /\ file = Held(log, s) \o Torn(n)
       /\ WholeRecords => n \in {0, Len(Bytes(Latest))}

\* Otherwise it holds the records s, and after a kill perhaps a part of the last.
Left(s) ==
  /\ buf = <<>>
  /\ \/ file = Held(log, s)
     \/ /\ pc = "down" /\ ~WholeRecords /\ log # <<>> /\ s \in Picks(Len(log) - 1)
        /\ \E n \in 2 .. Len(Bytes(Latest)) - 1 : file = Held(log, s) \o Torn(n)

\* What was synced holds the records t.  If one of the history is acknowledged,
\* it is among them, and nothing was cut since they were synced.
Synced(s, t) ==
  /\ disk = Held(log, t)
  /\ \A i \in DOMAIN log : log[i].acked => i \in Range(t) /\ IsPrefix(t, s)

Keeping(s, t) == /\ s \in Picks(Len(log)) /\ t \in Picks(Len(log))
                 /\ Synced(s, t)
                 /\ IF pc = "put" THEN Putting(s) ELSE Left(s)

KInv == (pc # "clear_sync" => Appending) /\ \E s, t \in Picks(Len(log)) : Keeping(s, t)
KeptInv == WholeCalls => KInv

LEMMA FlattenPrefix ==
  ASSUME NEW S, NEW seqs \in Seq(Seq(S)), NEW i \in 0 .. Len(seqs), NEW j \in i .. Len(seqs)
  PROVE  /\ FlattenSeq(SubSeq(seqs, 1, j)) \in Seq(S)
         /\ IsPrefix(FlattenSeq(SubSeq(seqs, 1, i)), FlattenSeq(SubSeq(seqs, 1, j)))
<1> DEFINE flat(k) == FlattenSeq(SubSeq(seqs, 1, k))
           T == {k \in i .. Len(seqs) : ~IsPrefix(flat(i), flat(k))}
<1>0. Len(seqs) \in Nat /\ i \in Nat
  BY LenProperties
<1>1. \A k \in 0 .. Len(seqs) : SubSeq(seqs, 1, k) \in Seq(Seq(S)) /\ flat(k) \in Seq(S)
  BY Cutting, FlattenAppend, EmptySeq
<1>2. j \in 0 .. Len(seqs)
  BY <1>0
<1>3. ASSUME T # {} PROVE FALSE
  <2>1. PICK k \in T : \A m \in T : k <= m
    <3>1. T \subseteq Nat
      BY <1>0
    <3> HIDE DEF T
    <3> QED
      BY <1>3, <3>1, LeastElement
  <2>2. k \in i .. Len(seqs) /\ ~IsPrefix(flat(i), flat(k))
    OBVIOUS
  <2>3. k # i
    <3>1. IsPrefix(flat(i), flat(i))
      BY <1>1, PrefixConcat
    <3> QED
      BY <2>2, <3>1
  <2>4. k - 1 \in i .. Len(seqs) /\ k - 1 \in 0 .. Len(seqs) /\ ~(k <= k - 1) /\ k - 1 + 1 = k
        /\ k \in 1 .. Len(seqs) /\ Len(seqs) \in k .. Len(seqs)
    BY <1>0, <2>2, <2>3
  <2>5. IsPrefix(flat(i), flat(k - 1))
    BY <2>1, <2>4
  <2>6. seqs[k] \in Seq(S) /\ flat(k) = flat(k - 1) \o seqs[k]
    <3> DEFINE rest == SubSeq(seqs, k - 1 + 1, Len(seqs))
    <3>1. Head(rest) = seqs[k]
      BY <2>4, HeadTailOfSubSeq
    <3>2. rest # <<>>
      <4>1. \A m \in k .. Len(seqs) : seqs[m] \in Seq(S)
        <5>1. \A m \in k .. Len(seqs) : m \in 1 .. Len(seqs)
          BY <1>0, <2>4
        <5> QED
          BY <5>1, ElementOfSeq
      <4>2. Len(rest) = IF k <= Len(seqs) THEN Len(seqs) - k + 1 ELSE 0
        <5>1. k \in Int /\ Len(seqs) \in Int
          BY <1>0, <2>4
        <5> QED
          BY <2>4, <4>1, <5>1, SubSeqProperties
      <4>3. Len(rest) # 0
        BY <1>0, <2>4, <4>2
      <4> QED
        BY <4>3, EmptySeq
    <3> HIDE DEF rest
    <3>3. /\ Head(rest) \in Seq(S)
          /\ FlattenSeq(SubSeq(seqs, 1, k - 1 + 1)) = FlattenSeq(SubSeq(seqs, 1, k - 1)) \o Head(rest)
      BY <2>4, <3>2, ChunkTaken DEF rest
    <3> QED
      BY <2>4, <3>1, <3>3
  <2>7. IsPrefix(flat(k - 1), flat(k)) /\ flat(i) \in Seq(S) /\ flat(k - 1) \in Seq(S) /\ flat(k) \in Seq(S)
    <3>1. i \in 0 .. Len(seqs) /\ k \in 0 .. Len(seqs)
      BY <2>4
    <3>2. flat(i) \in Seq(S) /\ flat(k - 1) \in Seq(S) /\ flat(k) \in Seq(S)
      BY <1>1, <2>4, <3>1
    <3> HIDE DEF flat
    <3> QED
      BY <2>6, <3>2, PrefixConcat
  <2> HIDE DEF flat
  <2>8. IsPrefix(flat(i), flat(k))
    BY <2>5, <2>7, PrefixTransitive
  <2> QED
    BY <2>2, <2>8
<1> QED
  BY <1>1, <1>2, <1>3

\* A prefix is what the sequence begins with.
LEMMA PrefixCut ==
  ASSUME NEW S, NEW s \in Seq(S), NEW t \in Seq(S), IsPrefix(s, t)
  PROVE  Len(s) \in 0 .. Len(t) /\ s = SubSeq(t, 1, Len(s))
<1>1. Len(s) \in Nat /\ Len(t) \in Nat /\ Len(s) <= Len(t)
  BY PrefixIs, LenProperties
<1>2. SubSeq(s, 1, Len(s)) = s
  BY SubSeqFull
<1> QED
  BY <1>1, <1>2 DEF IsPrefix

\* The chunks of a record that have been sent are its first bytes, never only
\* half of a length.
LEMMA SentIs ==
  ASSUME NEW r \in Records \cup {NoRecord}, NEW j \in 0 .. Len(Chunks(r))
  PROVE  LET sent == FlattenSeq(SubSeq(Chunks(r), 1, j))
         IN  /\ sent \in Seq(Cells) /\ Len(sent) \in 0 .. Len(Bytes(r)) /\ Len(sent) # 1
             /\ sent = SubSeq(Bytes(r), 1, Len(sent))
             /\ j = 0 => sent = <<>>
             /\ j = Len(Chunks(r)) => sent = Bytes(r)
             /\ j # 0 => Len(sent) >= 2
<1> DEFINE c == Chunks(r)
           sent == FlattenSeq(SubSeq(c, 1, j))
<1>1. c \in Seq(Seq(Cells)) /\ Len(c) \in Nat /\ j \in Nat /\ Len(c) \in j .. Len(c)
  BY ChunksCells, LenProperties
<1>2. SubSeq(c, 1, Len(c)) = c
  BY <1>1, SubSeqFull
<1>3. sent \in Seq(Cells) /\ IsPrefix(sent, Bytes(r)) /\ Bytes(r) \in Seq(Cells)
  <2>1. j \in 0 .. Len(c) /\ j \in j .. Len(c)
    BY <1>1
  <2>2. sent \in Seq(Cells)
    BY <1>1, <2>1, FlattenPrefix
  <2>3. FlattenSeq(SubSeq(c, 1, Len(c))) \in Seq(Cells)
        /\ IsPrefix(sent, FlattenSeq(SubSeq(c, 1, Len(c))))
    BY <1>1, <2>1, FlattenPrefix
  <2> QED
    BY <1>2, <2>2, <2>3 DEF Bytes
<1>4. Len(sent) \in 0 .. Len(Bytes(r)) /\ sent = SubSeq(Bytes(r), 1, Len(sent))
  <2> HIDE DEF sent
  <2> QED
    BY <1>3, PrefixCut
<1>5. ASSUME j = 0 PROVE sent = <<>>
  <2>1. SubSeq(c, 1, 0) = <<>>
    BY SubSeqEmpty
  <2> QED
    BY <1>5, <2>1 DEF FlattenSeq
<1>6. ASSUME j = Len(c) PROVE sent = Bytes(r)
  BY <1>2, <1>6 DEF Bytes
<1>7. ASSUME j # 0 PROVE Len(sent) >= 2
  <2>1. 1 \in 0 .. Len(c) /\ j \in 1 .. Len(c)
    BY <1>1, <1>7
  <2> DEFINE a == FlattenSeq(SubSeq(c, 1, 1))
  <2>2. IsPrefix(a, sent) /\ a \in Seq(Cells)
    <3>1. 1 \in 1 .. Len(c)
      BY <2>1
    <3> QED
      BY <1>1, <2>1, <3>1, FlattenPrefix
  <2>3. Len(a) = 2
    <3>1. c[1] = Number(Len(r.key))
      BY DEF Chunks
    <3>2. SubSeq(c, 1, 1) = <<c[1]>>
      <4> DEFINE u == SubSeq(c, 1, 1)
                 v == <<c[1]>>
      <4>1. u \in Seq(Seq(Cells)) /\ Len(u) = 1 /\ \A i \in 1 .. 1 : u[i] = c[i]
        BY <1>1, <2>1, Cutting
      <4>2. 1 \in 1 .. Len(c)
        BY <2>1
      <4>3. c[1] \in Seq(Cells)
        BY <1>1, <4>2, ElementOfSeq
      <4> HIDE DEF u
      <4>4. v \in Seq(Seq(Cells)) /\ Len(v) = 1 /\ \A i \in 1 .. 1 : u[i] = v[i]
        BY <4>1, <4>3
      <4> HIDE DEF v
      <4>5. u = v
        BY <4>1, <4>4, SeqEqual
      <4> QED
        BY <4>5 DEF u, v
    <3>3. Number(Len(r.key)) \in Seq(Cells) /\ Len(Number(Len(r.key))) = 2
      BY RecordsAre, NumberCells, NumberIs
    <3> HIDE DEF c
    <3> QED
      BY <3>1, <3>2, <3>3, FlattenOne
  <2> HIDE DEF a, sent
  <2>4. Len(a) <= Len(sent) /\ Len(sent) \in Nat
    BY <1>3, <2>2, PrefixIs, LenProperties
  <2> QED
    BY <2>3, <2>4
<1>8. Len(sent) # 1
  <2> DEFINE n == Len(sent)
  <2>1. n \in Nat /\ (j # 0 => n >= 2)
    BY <1>3, <1>7, LenProperties
  <2>2. j = 0 => n = 0
    BY <1>5, EmptySeq
  <2> HIDE DEF n
  <2>3. n # 1
    BY <2>1, <2>2
  <2> QED
    BY <2>3 DEF n
<1> QED
  BY <1>3, <1>4, <1>5, <1>6, <1>7, <1>8

-----------------------------------------------------------------------------
(* Every step keeps the records *)

LEMMA SameScenario ==
  ASSUME [Next]_vars
  PROVE  scenario' = scenario /\ (WholeCalls' <=> WholeCalls) /\ (WholeRecords' <=> WholeRecords)
<1>1. scenario' = scenario
  BY DEF Next, vars, Start, Buffer, Empty, PassOn, WriteFails, Sync, SyncFails, Truncate,
         TruncateFails, ClearSync, ClearSyncFails, Close, Kill, PowerLoss, Open
<1> QED
  BY <1>1 DEF WholeCalls, WholeRecords, OneCall, Buffered

\* The last record, and the records before it with none, some or all of it.
LEMMA LatestIs ==
  ASSUME TypeOK, log # <<>>
  PROVE  /\ Latest \in Records \cup {NoRecord}
         /\ Chunks(Latest) \in Seq(Seq(Cells)) /\ Len(Chunks(Latest)) \in Nat
         /\ Bytes(Latest) \in Seq(Cells) /\ Len(Bytes(Latest)) \in Nat /\ Len(Bytes(Latest)) >= 4
         /\ Torn(0) = <<>> /\ Torn(Len(Bytes(Latest))) = Bytes(Latest)
         /\ \A s \in Picks(Len(log) - 1) :
              /\ s \in Picks(Len(log)) /\ Append(s, Len(log)) \in Picks(Len(log))
              /\ Held(log, s) \in Seq(Cells)
              /\ Held(log, s) \o <<>> = Held(log, s)
              /\ Held(log, Append(s, Len(log))) = Held(log, s) \o Bytes(Latest)
<1>1. log \in History /\ Len(log) \in Nat \ {0} /\ Len(log) \in 1 .. Len(log)
  BY WInvTypes
<1>2. Latest \in Records \cup {NoRecord}
  BY <1>1, EventAt DEF Latest, Event
<1>3. /\ Chunks(Latest) \in Seq(Seq(Cells)) /\ Len(Chunks(Latest)) \in Nat
      /\ Bytes(Latest) \in Seq(Cells) /\ Len(Bytes(Latest)) \in Nat
  BY <1>2, ChunksCells, BytesCells, LenProperties
<1>4. Len(Bytes(Latest)) >= 4
  <2> DEFINE k == Len(Latest.key)
             v == ValueLen(Latest)
  <2>1. k \in Nat /\ v \in Nat /\ Len(Bytes(Latest)) = k + v + 4
    BY <1>2, Fields
  <2> HIDE DEF k, v
  <2> QED
    BY <2>1
<1>5. Torn(0) = <<>> /\ Torn(Len(Bytes(Latest))) = Bytes(Latest)
  BY <1>3, SubSeqEmpty, SubSeqFull DEF Torn
<1>6. ASSUME NEW s \in Picks(Len(log) - 1)
      PROVE  /\ s \in Picks(Len(log)) /\ Append(s, Len(log)) \in Picks(Len(log))
             /\ Held(log, s) \in Seq(Cells)
             /\ Held(log, s) \o <<>> = Held(log, s)
             /\ Held(log, Append(s, Len(log))) = Held(log, s) \o Bytes(Latest)
  <2>1. /\ s \in Picks(Len(log)) /\ Append(s, Len(log)) \in Picks(Len(log))
        /\ Held(log, Append(s, Len(log))) = Held(log, s) \o Bytes(Latest)
    BY <1>1, HeldMore DEF Latest
  <2>2. Held(log, s) \in Seq(Cells)
    BY <1>1, <2>1, PickedIs
  <2> QED
    BY <2>1, <2>2, ConcatEmptySeq
<1> QED
  BY <1>2, <1>3, <1>4, <1>5, <1>6

\* A step that leaves the history and what was synced alone.
LEMMA SyncedStays ==
  ASSUME log' = log, disk' = disk, NEW s, NEW t, Synced(s, t)
  PROVE  Synced(s, t)' /\ \A r : Held(log', r) = Held(log, r)
BY DEF Synced

\* A put that has sent j chunks, of which n bytes are in the file.
Halfway(s, j, n) ==
  /\ j \in 0 .. Len(Chunks(Latest)) /\ n \in 0 .. Len(Bytes(Latest))
  /\ queue = SubSeq(Chunks(Latest), j + 1, Len(Chunks(Latest)))
  /\ file \o buf = Held(log, s) \o Sent(j)
  /\ n # 1 /\ file = Held(log, s) \o Torn(n)
  /\ WholeRecords => n \in {0, Len(Bytes(Latest))}

LEMMA PuttingIs ==
  ASSUME NEW s
  PROVE  Putting(s) <=> /\ s \in Picks(Len(log) - 1) /\ Latest \in scenario.records
                        /\ \E j, n : Halfway(s, j, n)
BY DEF Putting, Halfway

LEMMA PuttingOn ==
  ASSUME WInv, WholeCalls, KInv, [Next]_vars, pc = "put", pc' = "put", log' = log, disk' = disk,
         Appending',
         NEW s, NEW t, Keeping(s, t), NEW j, NEW n, Halfway(s, j, n)'
  PROVE  KInv'
<1>1. scenario' = scenario
  BY SameScenario
<1>2. s \in Picks(Len(log)) /\ t \in Picks(Len(log)) /\ Synced(s, t) /\ Putting(s)
  BY DEF Keeping
<1>3. Synced(s, t)'
  BY <1>2, SyncedStays
<1>4. Latest' = Latest
  BY DEF Latest
<1>5. s \in Picks(Len(log) - 1) /\ Latest \in scenario.records
  BY <1>2 DEF Putting
<1>6. Putting(s)'
  BY <1>1, <1>4, <1>5 DEF Putting, Halfway
<1>7. Keeping(s, t)'
  BY <1>2, <1>3, <1>6 DEF Keeping
<1>8. Len(log') = Len(log)
  OBVIOUS
<1> QED
  BY <1>2, <1>7, <1>8 DEF KInv

\* Where a put stands that has not sent all chunks, and sends the next.
LEMMA Sending ==
  ASSUME TypeOK, log # <<>>, NEW s \in Picks(Len(log) - 1), NEW j, NEW n, Halfway(s, j, n),
         queue # <<>>
  PROVE  /\ j + 1 \in 0 .. Len(Chunks(Latest)) /\ Head(queue) \in Seq(Cells)
         /\ Tail(queue) = SubSeq(Chunks(Latest), j + 1 + 1, Len(Chunks(Latest)))
         /\ Sent(j) \in Seq(Cells) /\ Sent(j + 1) = Sent(j) \o Head(queue)
         /\ (file \o buf) \o Head(queue) = Held(log, s) \o Sent(j + 1)
<1> DEFINE c == Chunks(Latest)
           h == Head(queue)
           before == Held(log, s)
<1>1. c \in Seq(Seq(Cells)) /\ before \in Seq(Cells)
  BY LatestIs
<1>2. j \in 0 .. Len(c) /\ queue = SubSeq(c, j + 1, Len(c)) /\ file \o buf = before \o Sent(j)
  BY DEF Halfway
<1> HIDE DEF c, before
<1>3. /\ j + 1 \in 0 .. Len(c) /\ h \in Seq(Cells)
      /\ Tail(queue) = SubSeq(c, j + 1 + 1, Len(c))
      /\ FlattenSeq(SubSeq(c, 1, j)) \in Seq(Cells)
      /\ FlattenSeq(SubSeq(c, 1, j + 1)) = FlattenSeq(SubSeq(c, 1, j)) \o h
  BY <1>1, <1>2, ChunkTaken
<1>4. Sent(j) \in Seq(Cells) /\ Sent(j + 1) = Sent(j) \o h
  BY <1>3 DEF Sent, c
<1> HIDE DEF h
<1>5. (before \o Sent(j)) \o h = before \o Sent(j + 1)
  <2>1. (before \o Sent(j)) \o h = before \o (Sent(j) \o h)
    BY <1>1, <1>3, <1>4, InARow
  <2> QED
    BY <1>4, <2>1
<1> QED
  BY <1>2, <1>3, <1>4, <1>5 DEF c, h, before

LEMMA BufferKept == ASSUME WInv, WholeCalls, KInv, TypeOK', [Next]_vars, Buffer PROVE KInv'
<1>1. /\ pc = "put" /\ pc' = "put" /\ queue # <<>>
      /\ buf' = buf \o Head(queue) /\ queue' = Tail(queue)
      /\ log' = log /\ disk' = disk /\ file' = file /\ at' = at /\ scenario' = scenario
  BY DEF Buffer
<1>2. TypeOK /\ log # <<>> /\ file \in Seq(Cells) /\ buf \in Seq(Cells)
  BY <1>1, WInvTypes DEF WInv, PutsLast
<1>3. PICK s, t \in Picks(Len(log)) : Keeping(s, t)
  BY DEF KInv
<1>4. s \in Picks(Len(log) - 1) /\ \E j, n : Halfway(s, j, n)
  BY <1>1, <1>3, PuttingIs DEF Keeping
<1>5. PICK j, n : Halfway(s, j, n)
  BY <1>4
<1>6. /\ j + 1 \in 0 .. Len(Chunks(Latest)) /\ Head(queue) \in Seq(Cells)
      /\ Tail(queue) = SubSeq(Chunks(Latest), j + 1 + 1, Len(Chunks(Latest)))
      /\ (file \o buf) \o Head(queue) = Held(log, s) \o Sent(j + 1)
  BY <1>1, <1>2, <1>4, <1>5, Sending
<1>7. file' \o buf' = Held(log, s) \o Sent(j + 1)
  BY <1>1, <1>2, <1>6, InARow
<1>8. WholeRecords' => WholeRecords
  BY SameScenario
<1>9. Halfway(s, j + 1, n)'
  BY <1>1, <1>5, <1>6, <1>7, <1>8 DEF Halfway, Latest, Sent, Torn
<1>10. Appending'
  BY <1>1 DEF KInv, Appending
<1> QED
  BY <1>1, <1>3, <1>9, <1>10, PuttingOn

\* The chunks sent are in the file or in the buffer; a record that is buffered
\* has room there.
LEMMA SentSize ==
  ASSUME TypeOK, log # <<>>, NEW s \in Picks(Len(log) - 1), NEW j, NEW n, Halfway(s, j, n)
  PROVE  /\ Sent(j) \in Seq(Cells) /\ Len(Sent(j)) \in 0 .. Len(Bytes(Latest)) /\ Len(Sent(j)) # 1
         /\ Sent(j) = Torn(Len(Sent(j)))
         /\ Len(Sent(j)) = n + Len(buf) /\ n \in Nat /\ Len(buf) \in Nat
         /\ queue = <<>> => Sent(j) = Bytes(Latest)
         /\ WholeRecords /\ Latest \in scenario.records => Len(Bytes(Latest)) <= Capacity
<1>0. j \in 0 .. Len(Chunks(Latest)) /\ n \in 0 .. Len(Bytes(Latest))
  BY DEF Halfway
<1>1. /\ Sent(j) \in Seq(Cells) /\ Len(Sent(j)) \in 0 .. Len(Bytes(Latest)) /\ Len(Sent(j)) # 1
      /\ Sent(j) = Torn(Len(Sent(j)))
      /\ j = Len(Chunks(Latest)) => Sent(j) = Bytes(Latest)
  BY <1>0, LatestIs, SentIs DEF Sent, Torn
<1>2. Len(Sent(j)) = n + Len(buf) /\ n \in Nat /\ Len(buf) \in Nat
  <2> DEFINE a == Held(log, s)
             b == Torn(n)
             c == Sent(j)
  <2>1. /\ a \in Seq(Cells) /\ c \in Seq(Cells) /\ buf \in Seq(Cells) /\ file \in Seq(Cells)
        /\ file = a \o b /\ file \o buf = a \o c
    BY <1>1, LatestIs, WInvTypes DEF Halfway
  <2>2. b \in Seq(Cells) /\ Len(b) = n /\ n \in Nat
    BY <1>0, LatestIs, Cutting DEF Torn
  <2> HIDE DEF a, b, c
  <2>3. Len(file) = Len(a) + Len(b) /\ Len(file \o buf) = Len(file) + Len(buf)
        /\ Len(a \o c) = Len(a) + Len(c)
    BY <2>1, <2>2, ConcatProperties
  <2>4. Len(a) \in Nat /\ Len(c) \in Nat /\ Len(buf) \in Nat /\ Len(file) \in Nat
    BY <2>1, LenProperties
  <2>5. Len(c) = n + Len(buf)
    BY <2>1, <2>2, <2>3, <2>4
  <2> QED
    BY <2>2, <2>4, <2>5 DEF c
<1>3. ASSUME queue = <<>> PROVE j = Len(Chunks(Latest))
  <2> DEFINE c == Chunks(Latest)
  <2>1. c \in Seq(Seq(Cells)) /\ Len(c) \in Nat /\ queue = SubSeq(c, j + 1, Len(c)) /\ j \in 0 .. Len(c)
    BY <1>0, LatestIs DEF Halfway
  <2> HIDE DEF c
  <2>2. \A i \in j + 1 .. Len(c) : c[i] \in Seq(Cells)
    BY <2>1, ElementOfSeq
  <2>3. Len(SubSeq(c, j + 1, Len(c))) = IF j + 1 <= Len(c) THEN Len(c) - (j + 1) + 1 ELSE 0
    BY <2>1, <2>2, SubSeqProperties
  <2>4. Len(SubSeq(c, j + 1, Len(c))) = 0
    BY <1>3, <2>1, EmptySeq
  <2>5. j = Len(c)
    BY <2>1, <2>3, <2>4
  <2> QED
    BY <2>5 DEF c
<1>4. WholeRecords /\ Latest \in scenario.records => Len(Bytes(Latest)) <= Capacity
  BY DEF WholeRecords, OneCall, Buffered, Bytes
<1> QED
  BY <1>1, <1>2, <1>3, <1>4

LEMMA EmptySends ==
  ASSUME WInv, WholeCalls, KInv, TypeOK', [Next]_vars, Empty, NEW s, NEW t, Keeping(s, t)
  PROVE  /\ Appending' /\ \E j, n : Halfway(s, j, n)'
         /\ \E x \in Seq(Cells) : file' = file \o x
<1>1. /\ pc = "put" /\ pc' = "put" /\ WriteCall(buf)
      /\ buf' = <<>> /\ queue' = queue /\ log' = log /\ disk' = disk /\ scenario' = scenario
      /\ queue # <<>> => Len(Head(queue)) > Capacity - Len(buf)
  BY DEF Empty, Emptying, Spare
<1>2. TypeOK /\ log # <<>> /\ file \in Seq(Cells) /\ buf \in Seq(Cells) /\ at \in {Append_} \cup Nat
  BY <1>1, WInvTypes DEF WInv, PutsLast
<1>4. s \in Picks(Len(log) - 1) /\ Latest \in scenario.records /\ \E j, n : Halfway(s, j, n)
  BY <1>1, PuttingIs DEF Keeping
<1>5. PICK j, n : Halfway(s, j, n)
  BY <1>4
<1>6. file' = file \o buf /\ Appending' /\ file' \in Seq(Cells)
  BY <1>1, <1>2, WriteCallIs DEF KInv
<1> DEFINE m == Len(Sent(j))
<1>7. /\ Sent(j) \in Seq(Cells) /\ m \in 0 .. Len(Bytes(Latest)) /\ m # 1
      /\ Sent(j) = Torn(m)
      /\ m = n + Len(buf) /\ n \in Nat /\ Len(buf) \in Nat
      /\ queue = <<>> => Sent(j) = Bytes(Latest)
      /\ WholeRecords => Len(Bytes(Latest)) <= Capacity
  BY <1>2, <1>4, <1>5, SentSize
<1>8. file' \o buf' = Held(log, s) \o Sent(j) /\ file' = Held(log, s) \o Torn(m)
  BY <1>1, <1>5, <1>6, <1>7, ConcatEmptySeq DEF Halfway
<1>9. ASSUME WholeRecords PROVE m \in {0, Len(Bytes(Latest))}
  <2>1. CASE queue = <<>>
    BY <1>7, <2>1
  <2>2. CASE queue # <<>>
    <3> DEFINE h == Head(queue)
               k == Len(Sent(j + 1))
    <3>1. j + 1 \in 0 .. Len(Chunks(Latest)) /\ h \in Seq(Cells) /\ Sent(j + 1) = Sent(j) \o h
      BY <1>2, <1>4, <1>5, <2>2, Sending
    <3>2. k \in 0 .. Len(Bytes(Latest))
      BY <1>2, <3>1, LatestIs, SentIs DEF Sent
    <3> HIDE DEF h
    <3>3. k = m + Len(h) /\ Len(h) \in Nat
      BY <1>7, <3>1, ConcatProperties, LenProperties
    <3>4. Len(h) > Capacity - Len(buf) /\ Capacity \in Nat
      BY <1>1, <2>2, SizesAssumption DEF h
    <3>5. Len(Bytes(Latest)) \in Nat
      BY <1>2, LatestIs
    <3> HIDE DEF m, k
    <3> QED
      BY <1>7, <1>9, <3>2, <3>3, <3>4, <3>5
  <2> QED
    BY <2>1, <2>2
<1>10. WholeRecords' => WholeRecords
  BY SameScenario
<1>12. PICK k : k = m
  OBVIOUS
<1> HIDE DEF m
<1>11. Halfway(s, j, k)'
  BY <1>1, <1>5, <1>7, <1>8, <1>9, <1>10, <1>12 DEF Halfway, Latest, Sent, Torn
<1> QED
  BY <1>2, <1>6, <1>11

LEMMA PassOnSends ==
  ASSUME WInv, WholeCalls, KInv, TypeOK', [Next]_vars, PassOn, NEW s, NEW t, Keeping(s, t)
  PROVE  /\ Appending' /\ \E j, n : Halfway(s, j, n)'
         /\ \E x \in Seq(Cells) : file' = file \o x
<1>1. /\ pc = "put" /\ pc' = "put" /\ WriteCall(Head(queue)) /\ queue # <<>>
      /\ buf = <<>> /\ buf' = buf /\ queue' = Tail(queue) /\ log' = log /\ disk' = disk
      /\ scenario' = scenario /\ Len(Head(queue)) >= Capacity
  BY DEF PassOn, PassingOn
<1>2. TypeOK /\ log # <<>> /\ file \in Seq(Cells) /\ at \in {Append_} \cup Nat
  BY <1>1, WInvTypes DEF WInv, PutsLast
<1>4. s \in Picks(Len(log) - 1) /\ Latest \in scenario.records /\ \E j, n : Halfway(s, j, n)
  BY <1>1, PuttingIs DEF Keeping
<1>5. PICK j, n : Halfway(s, j, n)
  BY <1>4
<1> DEFINE h == Head(queue)
           m == Len(Sent(j + 1))
<1>6. /\ j + 1 \in 0 .. Len(Chunks(Latest)) /\ h \in Seq(Cells)
      /\ Tail(queue) = SubSeq(Chunks(Latest), j + 1 + 1, Len(Chunks(Latest)))
      /\ Sent(j) \in Seq(Cells) /\ Sent(j + 1) = Sent(j) \o h
      /\ (file \o buf) \o h = Held(log, s) \o Sent(j + 1)
  BY <1>1, <1>2, <1>4, <1>5, Sending
<1>7. file' = file \o h /\ Appending' /\ file' \in Seq(Cells)
  BY <1>1, <1>2, <1>6, WriteCallIs DEF KInv
<1>8. /\ m \in 0 .. Len(Bytes(Latest)) /\ m # 1 /\ Sent(j + 1) = Torn(m)
  BY <1>2, <1>6, LatestIs, SentIs DEF Sent, Torn
<1>9. file' \o buf' = Held(log, s) \o Sent(j + 1) /\ file' = Held(log, s) \o Torn(m)
  <2>1. file \o buf = file /\ file' \o buf' = file'
    BY <1>1, <1>2, <1>7, ConcatEmptySeq
  <2> QED
    BY <1>6, <1>7, <1>8, <2>1
<1>10. ASSUME WholeRecords PROVE m \in {0, Len(Bytes(Latest))}
  <2>1. m = Len(Sent(j)) + Len(h) /\ Len(h) \in Nat /\ Len(Sent(j)) \in Nat
    <3> HIDE DEF h
    <3> QED
      BY <1>6, ConcatProperties, LenProperties
  <2>2. Len(Bytes(Latest)) <= Capacity /\ Len(Bytes(Latest)) \in Nat /\ Capacity \in Nat
    BY <1>2, <1>4, <1>5, <1>10, SentSize, LatestIs, SizesAssumption
  <2>3. Len(h) >= Capacity
    BY <1>1
  <2> HIDE DEF m, h
  <2> QED
    BY <1>8, <2>1, <2>2, <2>3
<1>11. WholeRecords' => WholeRecords
  BY SameScenario
<1>13. PICK k : k = m
  OBVIOUS
<1> HIDE DEF m
<1>12. Halfway(s, j + 1, k)'
  BY <1>1, <1>6, <1>8, <1>9, <1>10, <1>11, <1>13 DEF Halfway, Latest, Sent, Torn
<1> QED
  BY <1>6, <1>7, <1>12

LEMMA PrefixRange ==
  ASSUME NEW S, NEW s \in Seq(S), NEW t \in Seq(S), IsPrefix(s, t)
  PROVE  Range(s) \subseteq Range(t)
<1>1. Len(s) \in Nat /\ Len(t) \in Nat /\ Len(s) <= Len(t) /\ \A i \in 1 .. Len(s) : s[i] = t[i]
  BY PrefixIs, LenProperties
<1>2. Range(s) = {s[i] : i \in 1 .. Len(s)} /\ Range(t) = {t[i] : i \in 1 .. Len(t)}
  BY RangeEquality
<1>3. \A i \in 1 .. Len(s) : i \in 1 .. Len(t)
  BY <1>1
<1> QED
  BY <1>1, <1>2, <1>3

\* The records kept, and after them the last.
LEMMA WithLatest ==
  ASSUME TypeOK, log # <<>>, NEW s \in Picks(Len(log) - 1)
  PROVE  \E u \in Picks(Len(log)) :
           /\ Held(log, u) = Held(log, s) \o Bytes(Latest)
           /\ Range(u) = Range(s) \cup {Len(log)}
           /\ \A t \in Picks(Len(log)) : Synced(s, t) => Synced(u, t)
<1> DEFINE N == Len(log)
           u == Append(s, N)
<1>1. N \in Nat \ {0}
  BY WInvTypes
<1>2. u \in Picks(N) /\ s \in Picks(N) /\ Held(log, u) = Held(log, s) \o Bytes(Latest)
  BY LatestIs
<1>3. Range(u) = Range(s) \cup {N} /\ IsPrefix(s, u)
  BY <1>1, PickMore
<1>4. ASSUME NEW t \in Picks(N), Synced(s, t) PROVE Synced(u, t)
  <2>1. t \in Seq(1 .. N) /\ s \in Seq(1 .. N) /\ u \in Seq(1 .. N)
    <3> HIDE DEF u, N
    <3> QED
      BY <1>1, <1>2, PickIs
  <2>2. IsPrefix(t, s) => IsPrefix(t, u)
    <3> HIDE DEF u, N
    <3> QED
      BY <1>3, <2>1, PrefixTransitive
  <2> QED
    BY <1>4, <2>2 DEF Synced
<1> QED
  BY <1>2, <1>3, <1>4

\* When a put has passed all on, the file holds its record too.
LEMMA PassedOn ==
  ASSUME TypeOK, log # <<>>, NEW s, Putting(s), queue = <<>>, buf = <<>>
  PROVE  file = Held(log, s) \o Bytes(Latest)
<1>1. s \in Picks(Len(log) - 1) /\ \E j, n : Halfway(s, j, n)
  BY PuttingIs
<1>2. PICK j, n : Halfway(s, j, n)
  BY <1>1
<1>3. Sent(j) = Bytes(Latest)
  BY <1>1, <1>2, SentSize
<1>4. file \o buf = file
  BY WInvTypes, ConcatEmptySeq
<1> QED
  BY <1>2, <1>3, <1>4 DEF Halfway

LEMMA StartKept ==
  ASSUME WInv, WholeCalls, KInv, TypeOK', [Next]_vars, NEW r \in scenario.records, Start(r)
  PROVE  KInv'
<1> DEFINE e == [record |-> r, acked |-> FALSE]
<1>0. PICK N : N = Len(log)
  OBVIOUS
<1>1. /\ pc = "idle" /\ pc' = "put" /\ queue' = Chunks(r) /\ log' = Append(log, e)
      /\ file' = file /\ disk' = disk /\ buf' = buf /\ at' = at /\ scenario' = scenario
  BY DEF Start
<1>2. TypeOK /\ log \in History /\ N \in Nat /\ DOMAIN log = 1 .. N
  BY <1>0, WInvTypes DEF WInv
<1>3. r \in Records \cup {NoRecord} /\ e \in Event
  <2>1. scenario \in Scenarios
    BY <1>2 DEF TypeOK
  <2>2. r \in Records
    BY <2>1, ScenariosAssumption
  <2> QED
    BY <2>2 DEF Event
<1>4. /\ Len(log') = N + 1 /\ \A i \in 1 .. N : log'[i] = log[i]
      /\ log'[N + 1] = e /\ DOMAIN log' = 1 .. N + 1
  <2>1. log \in Seq(Event) /\ Append(log, e) \in Seq(Event)
    BY <1>2, <1>3, AppendProperties DEF History
  <2> HIDE DEF e
  <2> QED
    BY <1>0, <1>1, <1>3, <2>1, AppendProperties, LenProperties
<1>5. PICK s, t \in Picks(N) : Keeping(s, t)
  BY <1>0 DEF KInv
<1>6. Synced(s, t) /\ file = Held(log, s) /\ buf = <<>>
  BY <1>1, <1>5 DEF Keeping, Left
<1>7. s \in Picks(N + 1) /\ t \in Picks(N + 1) /\ N + 1 - 1 = N
  <2>1. N + 1 \in Nat /\ N \in 0 .. N + 1
    BY <1>2
  <2> QED
    BY <1>2, <1>5, <2>1, PickWider
<1>8. Held(log', s) = Held(log, s) /\ Held(log', t) = Held(log, t)
  <2>1. \A i \in 1 .. N : log'[i].record = log[i].record
    BY <1>4
  <2> QED
    BY <1>2, <1>5, <2>1, HeldSame
<1>9. Latest' = r
  BY <1>4 DEF Latest
<1> DEFINE c == Chunks(r)
<1>10. c \in Seq(Seq(Cells)) /\ Len(c) \in Nat /\ Bytes(r) \in Seq(Cells) /\ Len(Bytes(r)) \in Nat
  BY <1>3, ChunksCells, BytesCells, LenProperties
<1>11. 0 \in 0 .. Len(c) /\ queue' = SubSeq(c, 0 + 1, Len(c)) /\ 0 \in 0 .. Len(Bytes(r))
  <2>1. SubSeq(c, 1, Len(c)) = c /\ 0 + 1 = 1
    BY <1>10, SubSeqFull
  <2> QED
    BY <1>1, <1>10, <2>1
<1>12. FlattenSeq(SubSeq(c, 1, 0)) = <<>> /\ SubSeq(Bytes(r), 1, 0) = <<>>
  BY SubSeqEmpty DEF FlattenSeq
<1>13. file \o <<>> = file /\ Held(log, s) \o <<>> = Held(log, s)
  BY <1>2, <1>6, WInvTypes, ConcatEmptySeq
<1>14. Synced(s, t)'
  <2>1. ASSUME NEW i \in 1 .. N + 1, log'[i].acked PROVE i \in Range(t) /\ IsPrefix(t, s)
    <3>1. i # N + 1
      BY <1>4, <2>1
    <3>2. i \in DOMAIN log /\ log[i].acked
      BY <1>2, <1>4, <2>1, <3>1
    <3> QED
      BY <1>6, <3>2 DEF Synced
  <2> HIDE DEF e
  <2> QED
    BY <1>1, <1>4, <1>6, <1>8, <2>1 DEF Synced
<1>15. Putting(s)'
  <2>1. \E j \in 0 .. Len(c) :
          /\ queue' = SubSeq(c, j + 1, Len(c))
          /\ file' \o buf' = Held(log', s) \o FlattenSeq(SubSeq(c, 1, j))
    BY <1>1, <1>6, <1>8, <1>11, <1>12, <1>13
  <2>2. \E n \in 0 .. Len(Bytes(r)) :
          /\ n # 1 /\ file' = Held(log', s) \o SubSeq(Bytes(r), 1, n)
          /\ WholeRecords' => n \in {0, Len(Bytes(r))}
    <3>1. file' = Held(log', s) \o SubSeq(Bytes(r), 1, 0)
      BY <1>1, <1>6, <1>8, <1>12, <1>13
    <3>2. 0 # 1 /\ 0 \in {0, Len(Bytes(r))}
      OBVIOUS
    <3> QED
      BY <1>11, <3>1, <3>2
  <2>3. s \in Picks(Len(log') - 1)
    <3>1. Len(log') - 1 = N
      <4> HIDE DEF e
      <4> QED
        BY <1>2, <1>4
    <3>2. s \in Picks(N)
      BY <1>5
    <3> QED
      BY <3>1, <3>2
  <2> HIDE DEF c
  <2> QED
    BY <1>1, <1>9, <2>1, <2>2, <2>3 DEF Putting, Sent, Torn, c
<1>16. Keeping(s, t)'
  BY <1>1, <1>4, <1>7, <1>14, <1>15 DEF Keeping
<1>17. Appending'
  BY <1>1 DEF KInv, Appending
<1> QED
  BY <1>4, <1>7, <1>16, <1>17 DEF KInv

LEMMA SyncKept == ASSUME WInv, WholeCalls, KInv, TypeOK', [Next]_vars, Sync PROVE KInv'
<1>0. PICK N : N = Len(log)
  OBVIOUS
<1>1. /\ pc = "put" /\ pc' = "idle" /\ queue = <<>> /\ buf = <<>> /\ buf' = buf
      /\ disk' = file /\ file' = file /\ at' = at
      /\ log' = [log EXCEPT ![N].acked = TRUE]
  BY <1>0 DEF Sync, SyncedNow
<1>2. /\ TypeOK /\ log \in History /\ log # <<>> /\ N \in Nat \ {0} /\ DOMAIN log = 1 .. N
  BY <1>0, <1>1, WInvTypes DEF WInv, PutsLast
<1>3. Len(log') = N /\ DOMAIN log' = 1 .. N
      /\ \A i \in 1 .. N : log'[i].record = log[i].record /\ (i # N => log'[i] = log[i])
  <2>1. log \in Seq(Event)
    BY <1>2 DEF History
  <2>2. Len(log') = N /\ DOMAIN log' = 1 .. N
    BY <1>0, <1>1, <1>2, <2>1
  <2>3. \A i \in 1 .. N : log'[i] = IF i = N THEN [log[N] EXCEPT !.acked = TRUE] ELSE log[i]
    BY <1>1, <1>2
  <2>4. \A i \in 1 .. N : log[i] \in Event
    BY <1>0, <2>1, ElementOfSeq
  <2> QED
    BY <2>2, <2>3, <2>4 DEF Event
<1>4. PICK s, t \in Picks(N) : Keeping(s, t)
  BY <1>0 DEF KInv
<1>5. Synced(s, t) /\ Putting(s) /\ s \in Picks(N - 1)
  BY <1>0, <1>1, <1>4 DEF Keeping, Putting
<1>6. PICK u \in Picks(N) : /\ Held(log, u) = Held(log, s) \o Bytes(Latest)
                            /\ Range(u) = Range(s) \cup {N}
  BY <1>0, <1>2, <1>5, WithLatest
<1>7. file = Held(log, u)
  BY <1>1, <1>2, <1>5, <1>6, PassedOn
<1>8. Held(log', u) = Held(log, u)
  <2>1. \A i \in 1 .. N : log'[i].record = log[i].record
    BY <1>3
  <2> QED
    BY <1>2, <1>6, <2>1, HeldSame
<1>9. Synced(u, u)'
  <2>1. ASSUME NEW i \in 1 .. N, log'[i].acked PROVE i \in Range(u)
    <3>1. CASE i = N
      BY <1>6, <3>1
    <3>2. CASE i # N
      <4>1. i \in Range(t) /\ IsPrefix(t, s)
        BY <1>2, <1>3, <1>5, <2>1, <3>2 DEF Synced
      <4>2. t \in Seq(1 .. N) /\ s \in Seq(1 .. N)
        BY <1>2, <1>4, PickIs
      <4>3. i \in Range(s)
        BY <4>1, <4>2, PrefixRange
      <4> QED
        BY <1>6, <4>3
    <3> QED
      BY <3>1, <3>2
  <2>2. IsPrefix(u, u)
    <3>1. u \in Seq(1 .. N)
      BY <1>2, <1>6, PickIs
    <3> QED
      BY <3>1, PrefixConcat
  <2> QED
    BY <1>1, <1>3, <1>7, <1>8, <2>1, <2>2 DEF Synced
<1>10. Left(u)'
  BY <1>1, <1>7, <1>8 DEF Left
<1>11. Keeping(u, u)' /\ Appending'
  BY <1>1, <1>3, <1>6, <1>9, <1>10 DEF Keeping, KInv, Appending
<1> QED
  BY <1>3, <1>6, <1>11 DEF KInv

LEMMA SyncFailsKept == ASSUME WInv, WholeCalls, KInv, TypeOK', [Next]_vars, SyncFails PROVE KInv'
<1>1. /\ pc = "put" /\ pc' = "idle" /\ queue = <<>> /\ buf = <<>> /\ buf' = buf
      /\ disk' = disk /\ file' = file /\ at' = at /\ log' = log
  BY DEF SyncFails
<1>2. TypeOK /\ log # <<>>
  BY <1>1 DEF WInv, PutsLast
<1>3. PICK s, t \in Picks(Len(log)) : Keeping(s, t)
  BY DEF KInv
<1>4. Synced(s, t) /\ Putting(s) /\ s \in Picks(Len(log) - 1)
  BY <1>1, <1>3 DEF Keeping, Putting
<1>5. PICK u \in Picks(Len(log)) : Held(log, u) = Held(log, s) \o Bytes(Latest) /\ Synced(u, t)
  BY <1>2, <1>3, <1>4, WithLatest
<1>6. file = Held(log, u)
  BY <1>1, <1>2, <1>4, <1>5, PassedOn
<1>7. Synced(u, t)' /\ Left(u)'
  BY <1>1, <1>5, <1>6, SyncedStays DEF Left
<1>8. Keeping(u, t)' /\ Appending'
  BY <1>1, <1>3, <1>5, <1>7 DEF Keeping, KInv, Appending
<1> QED
  BY <1>1, <1>3, <1>5, <1>8 DEF KInv

\* What a clear releases has the same records, none to be recovered.
LEMMA ReleasedKept ==
  ASSUME log \in History, log' = Released
  PROVE  /\ Len(log') = Len(log) /\ DOMAIN log' = DOMAIN log
         /\ \A i \in DOMAIN log' : ~log'[i].acked
         /\ \A s \in Picks(Len(log)) : Held(log', s) = Held(log, s)
<1>1. Len(log) \in Nat /\ DOMAIN log = 1 .. Len(log)
  BY LenProperties DEF History
<1>2. Len(log') = Len(log) /\ DOMAIN log' = DOMAIN log /\ \A i \in 1 .. Len(log) : ~log'[i].acked
  BY <1>1, ReleasedIs DEF Released
<1>3. \A i \in 1 .. Len(log) : log'[i].record = log[i].record
  BY <1>1, EventAt DEF Released, Event
<1>4. \A s \in Picks(Len(log)) : Held(log', s) = Held(log, s)
  BY <1>1, <1>3, HeldSame
<1> QED
  BY <1>1, <1>2, <1>4

LEMMA TruncateKept == ASSUME WInv, WholeCalls, KInv, TypeOK', [Next]_vars, Truncate PROVE KInv'
<1>1. /\ pc = "idle" /\ pc' = "clear_sync" /\ file' = <<>> /\ log' = Released
      /\ disk' = disk /\ buf' = buf
  BY DEF Truncate, Truncated
<1>2. log \in History /\ Len(log) \in Nat
  BY WInvTypes DEF WInv
<1>3. PICK s, t \in Picks(Len(log)) : Keeping(s, t)
  BY DEF KInv
<1>4. disk = Held(log, t) /\ buf = <<>>
  BY <1>1, <1>3 DEF Keeping, Synced, Left
<1>5. /\ Len(log') = Len(log) /\ \A i \in DOMAIN log' : ~log'[i].acked
      /\ Held(log', t) = Held(log, t)
  BY <1>1, <1>2, <1>3, ReleasedKept
<1>6. <<>> \in Picks(Len(log)) /\ Held(log', <<>>) = <<>>
  BY <1>2, PickNone, HeldNone
<1>7. Synced(<<>>, t)' /\ Left(<<>>)'
  BY <1>1, <1>4, <1>5, <1>6 DEF Synced, Left
<1>8. Keeping(<<>>, t)'
  BY <1>1, <1>3, <1>5, <1>6, <1>7 DEF Keeping
<1> QED
  BY <1>1, <1>3, <1>5, <1>6, <1>8 DEF KInv

LEMMA TruncateFailsKept ==
  ASSUME WInv, WholeCalls, KInv, TypeOK', [Next]_vars, TruncateFails PROVE KInv'
<1>1. /\ pc = "idle" /\ pc' = pc /\ file' = file /\ log' = Released
      /\ disk' = disk /\ buf' = buf /\ at' = at
  BY DEF TruncateFails
<1>2. log \in History
  BY WInvTypes DEF WInv
<1>3. PICK s, t \in Picks(Len(log)) : Keeping(s, t)
  BY DEF KInv
<1>4. disk = Held(log, t) /\ buf = <<>> /\ file = Held(log, s)
  BY <1>1, <1>3 DEF Keeping, Synced, Left
<1>5. /\ Len(log') = Len(log) /\ \A i \in DOMAIN log' : ~log'[i].acked
      /\ Held(log', t) = Held(log, t) /\ Held(log', s) = Held(log, s)
  BY <1>1, <1>2, <1>3, ReleasedKept
<1>6. Synced(s, t)' /\ Left(s)'
  BY <1>1, <1>4, <1>5 DEF Synced, Left
<1>7. Keeping(s, t)' /\ Appending'
  BY <1>1, <1>3, <1>5, <1>6 DEF Keeping, KInv, Appending
<1> QED
  BY <1>3, <1>5, <1>7 DEF KInv

LEMMA ClearSyncKept == ASSUME WInv, WholeCalls, KInv, TypeOK', [Next]_vars, ClearSync PROVE KInv'
<1>1. /\ pc = "clear_sync" /\ pc' = "idle" /\ file = <<>> /\ disk' = file
      /\ file' = Written(at, buf) /\ buf' = <<>> /\ at' = 0
      /\ log' = IF buf = <<>> THEN <<>> ELSE <<Debris>>
  BY DEF ClearSync, WInv, CutIsEmpty
<1>2. PICK s, t \in Picks(Len(log)) : Keeping(s, t)
  BY DEF KInv
<1>3. buf = <<>>
  BY <1>1, <1>2 DEF Keeping, Left
<1>4. file' = <<>> /\ disk' = <<>> /\ log' = <<>> /\ Len(log') = 0 /\ Len(file') = 0
  BY <1>1, <1>3, WInvTypes, WrittenIs, EmptySeq DEF WInv
<1>5. <<>> \in Picks(Len(log')) /\ Held(log', <<>>) = <<>> /\ DOMAIN log' = {}
  <2>1. 0 \in Nat
    OBVIOUS
  <2> QED
    BY <1>4, <2>1, PickNone, HeldNone
<1>6. Synced(<<>>, <<>>)' /\ Left(<<>>)'
  BY <1>1, <1>4, <1>5 DEF Synced, Left
<1>7. Keeping(<<>>, <<>>)' /\ Appending'
  BY <1>1, <1>4, <1>5, <1>6 DEF Keeping, Appending
<1> QED
  BY <1>5, <1>7 DEF KInv

\* The end of the process leaves records in the file, and perhaps a torn one.
LEMMA EndKept == ASSUME WInv, WholeCalls, KInv, TypeOK', [Next]_vars, Close \/ Kill PROVE KInv'
<1>1. /\ pc # "down" /\ pc' = "down" /\ buf' = <<>> /\ at' = Append_
      /\ disk' = disk /\ log' = log
  BY DEF Close, Kill, WriterLost, OpenedAt
<1>2. PICK s, t \in Picks(Len(log)) : Keeping(s, t)
  BY DEF KInv
<1>3. Synced(s, t) /\ (pc # "put" => Left(s)) /\ (pc = "put" => Putting(s))
  BY <1>2 DEF Keeping
<1>4. file' = file
  <2>1. CASE Close
    <3>1. pc = "idle" /\ file' = Written(at, buf)
      BY <2>1 DEF Close
    <3>2. buf = <<>>
      BY <1>3, <3>1 DEF Left
    <3> QED
      BY <3>1, <3>2, WInvTypes, WrittenIs DEF WInv
  <2>2. CASE Kill
    BY <2>2 DEF Kill
  <2> QED
    BY <2>1, <2>2
<1>5. WholeRecords' <=> WholeRecords
  BY SameScenario
<1>6. Len(log') = Len(log) /\ Latest' = Latest /\ \A n : Torn(n)' = Torn(n)
  BY <1>1 DEF Latest, Torn
<1>7. PICK u \in Picks(Len(log)) : Synced(u, t) /\ Left(u)'
  <2>1. CASE pc # "put"
    <3>1. file = Held(log, s)
      BY <1>1, <1>3, <2>1 DEF Left
    <3>2. Left(s)'
      BY <1>1, <1>4, <3>1 DEF Left
    <3> QED
      BY <1>2, <1>3, <3>2
  <2>2. CASE pc = "put"
    <3>1. TypeOK /\ log # <<>> /\ Putting(s) /\ s \in Picks(Len(log) - 1)
      BY <1>3, <2>2 DEF WInv, PutsLast, Putting
    <3> DEFINE size == Len(Bytes(Latest))
    <3>2. PICK n \in 0 .. size :
            n # 1 /\ file = Held(log, s) \o Torn(n) /\ (WholeRecords => n \in {0, size})
      BY <3>1 DEF Putting
    <3>3. size \in Nat /\ Torn(0) = <<>> /\ Torn(size) = Bytes(Latest) /\ Held(log, s) \o <<>> = Held(log, s)
      BY <3>1, LatestIs
    <3>4. CASE n = 0
      <4>1. file = Held(log, s)
        BY <3>2, <3>3, <3>4
      <4>2. Left(s)'
        BY <1>1, <1>4, <4>1 DEF Left
      <4> QED
        BY <1>2, <1>3, <4>2
    <3>5. CASE n = size
      <4>1. PICK u \in Picks(Len(log)) : Held(log, u) = Held(log, s) \o Bytes(Latest) /\ Synced(u, t)
        BY <1>2, <1>3, <3>1, WithLatest
      <4>2. file = Held(log, u)
        BY <3>2, <3>3, <3>5, <4>1
      <4>3. Left(u)'
        BY <1>1, <1>4, <4>2 DEF Left
      <4> QED
        BY <4>1, <4>3
    <3>6. CASE n # 0 /\ n # size
      <4>1. ~WholeRecords /\ n \in 2 .. size - 1
        BY <3>2, <3>3, <3>6
      <4>2. file' = Held(log', s) \o Torn(n)'
        BY <1>1, <1>4, <1>6, <3>2
      <4>3. \E m \in 2 .. Len(Bytes(Latest')) - 1 : file' = Held(log', s) \o Torn(m)'
        BY <1>6, <4>1, <4>2
      <4>4. log' # <<>> /\ s \in Picks(Len(log') - 1)
        BY <1>1, <3>1
      <4>5. Left(s)'
        BY <1>1, <1>5, <4>1, <4>3, <4>4 DEF Left
      <4> QED
        BY <1>2, <1>3, <4>5
    <3> QED
      BY <3>4, <3>5, <3>6
  <2> QED
    BY <2>1, <2>2
<1>8. Synced(u, t)'
  BY <1>1, <1>7, SyncedStays
<1>9. Keeping(u, t)' /\ Appending'
  BY <1>1, <1>2, <1>6, <1>7, <1>8 DEF Keeping, Appending
<1> QED
  BY <1>2, <1>6, <1>7, <1>9 DEF KInv

\* Only a log that replays is opened: none with a record torn off.
LEMMA OpenKept == ASSUME WInv, WholeCalls, KInv, TypeOK', [Next]_vars, Open PROVE KInv'
<1>1. /\ pc = "down" /\ pc' = "idle" /\ Replay(file).ok /\ file' = file /\ disk' = disk
      /\ buf' = buf /\ at' = at /\ log' = log
  BY DEF Open
<1>2. PICK s, t \in Picks(Len(log)) : Keeping(s, t)
  BY DEF KInv
<1>3. Synced(s, t) /\ Left(s)
  BY <1>1, <1>2 DEF Keeping
<1>4. file = Held(log, s)
  <2> SUFFICES ASSUME log # <<>>, s \in Picks(Len(log) - 1),
                      NEW n \in 2 .. Len(Bytes(Latest)) - 1, file = Held(log, s) \o Torn(n)
               PROVE  FALSE
    BY <1>3 DEF Left
  <2> DEFINE l == Picked(log, s)
  <2>1. TypeOK /\ log \in History
    BY WInvTypes DEF WInv
  <2>2. l \in History /\ Len(l) = Len(s)
    BY <1>2, <2>1, PickedIs
  <2>3. Latest \in Records \cup {NoRecord} /\ n \in 0 .. Len(Bytes(Latest)) - 1 /\ ~(n < 2)
    BY <2>1, LatestIs
  <2>4. file = Laid(l, Len(l)) \o SubSeq(Bytes(Latest), 1, n)
    BY <2>2 DEF Held, Torn
  <2> HIDE DEF l
  <2>5. Replay(file).ok <=> n < 2
    BY <2>2, <2>3, <2>4, ReplayLaid
  <2> QED
    BY <1>1, <2>3, <2>5
<1>5. Synced(s, t)' /\ Left(s)'
  BY <1>1, <1>3, <1>4, SyncedStays DEF Left
<1>6. Keeping(s, t)' /\ Appending'
  BY <1>1, <1>2, <1>5 DEF Keeping, KInv, Appending
<1> QED
  BY <1>1, <1>2, <1>6 DEF KInv

LEMMA InitKept == ASSUME Init PROVE KInv
<1>1. /\ file = <<>> /\ disk = <<>> /\ buf = <<>> /\ at = Append_ /\ pc = "idle" /\ log = <<>>
      /\ Len(log) = 0 /\ DOMAIN log = {}
  BY EmptySeq DEF Init
<1>2. <<>> \in Picks(Len(log)) /\ Held(log, <<>>) = <<>>
  <2>1. 0 \in Nat
    OBVIOUS
  <2> QED
    BY <1>1, <2>1, PickNone, HeldNone
<1>3. Synced(<<>>, <<>>) /\ Left(<<>>)
  BY <1>1, <1>2 DEF Synced, Left
<1>4. Keeping(<<>>, <<>>) /\ Appending
  BY <1>1, <1>2, <1>3 DEF Keeping, Appending
<1> QED
  BY <1>2, <1>4 DEF KInv

LEMMA KeptStep == WInv /\ KeptInv /\ WInv' /\ [Next]_vars => KeptInv'
<1> SUFFICES ASSUME WInv, KeptInv, WInv', [Next]_vars, WholeCalls' PROVE KInv'
  BY DEF KeptInv
<1>1. WholeCalls /\ KInv /\ TypeOK'
  BY SameScenario DEF KeptInv, WInv
<1>2. ASSUME NEW r \in scenario.records, Start(r) PROVE KInv'
  BY <1>1, <1>2, StartKept
<1>3. CASE Buffer
  BY <1>1, <1>3, BufferKept
<1>4. CASE Empty \/ PassOn
  <2>1. PICK s, t \in Picks(Len(log)) : Keeping(s, t)
    BY <1>1 DEF KInv
  <2>2. Appending' /\ \E j, n : Halfway(s, j, n)'
    BY <1>1, <1>4, <2>1, EmptySends, PassOnSends
  <2>3. PICK j, n : Halfway(s, j, n)'
    BY <2>2
  <2>4. pc = "put" /\ pc' = "put" /\ log' = log /\ disk' = disk
    BY <1>4 DEF Empty, Emptying, PassOn, PassingOn
  <2> QED
    BY <1>1, <2>1, <2>2, <2>3, <2>4, PuttingOn
<1>6. ~WriteFails /\ ~ClearSyncFails /\ ~PowerLoss
  BY <1>1 DEF WholeCalls, WriteFails, ClearSyncFails, PowerLoss, Fail
<1>7. CASE Sync
  BY <1>1, <1>7, SyncKept
<1>8. CASE SyncFails
  BY <1>1, <1>8, SyncFailsKept
<1>9. CASE Truncate
  BY <1>1, <1>9, TruncateKept
<1>10. CASE TruncateFails
  BY <1>1, <1>10, TruncateFailsKept
<1>11. CASE ClearSync
  BY <1>1, <1>11, ClearSyncKept
<1>12. CASE Close \/ Kill
  BY <1>1, <1>12, EndKept
<1>13. CASE Open
  BY <1>1, <1>13, OpenKept
<1>14. CASE UNCHANGED vars
  <2>1. /\ file' = file /\ disk' = disk /\ buf' = buf /\ at' = at /\ queue' = queue
        /\ pc' = pc /\ log' = log /\ scenario' = scenario
    BY <1>14 DEF vars
  <2>2. WholeRecords' <=> WholeRecords
    BY SameScenario
  <2>3. \A s, t : Keeping(s, t)' <=> Keeping(s, t)
    <3>1. \A s, t : Synced(s, t)' <=> Synced(s, t)
      BY <2>1 DEF Synced
    <3>2. Latest' = Latest /\ \A n : Torn(n)' = Torn(n) /\ Sent(n)' = Sent(n)
      BY <2>1 DEF Latest, Torn, Sent
    <3>3. \A s : Putting(s)' <=> Putting(s)
      BY <2>1, <2>2, <3>2 DEF Putting
    <3>4. \A s : Left(s)' <=> Left(s)
      BY <2>1, <2>2, <3>2 DEF Left
    <3> QED
      BY <2>1, <3>1, <3>3, <3>4 DEF Keeping
  <2> QED
    BY <1>1, <2>1, <2>3 DEF KInv, Appending
<1> QED
  BY <1>2, <1>3, <1>4, <1>6, <1>7, <1>8, <1>9, <1>10, <1>11, <1>12, <1>13, <1>14 DEF Next

\* While no write is torn or misplaced, the file is the bytes of records that
\* were put, in their order, all that were acknowledged among them.
THEOREM KeptInductive == Spec => [](WInv /\ KeptInv)
<1>1. Init => WInv /\ KeptInv
  BY InitWInv, InitKept DEF KeptInv
<1>2. WInv /\ KeptInv /\ [Next]_vars => (WInv /\ KeptInv)'
  BY WInvStep, KeptStep
<1> QED
  BY <1>1, <1>2, PTL DEF Spec

-----------------------------------------------------------------------------
(* What replay makes of the records kept *)

\* A reader finds the records kept, and perhaps a part of the one being put.
LEMMA KeptReads ==
  ASSUME WInv, NEW s \in Picks(Len(log)), NEW t \in Picks(Len(log)), Keeping(s, t)
  PROVE  \E u \in Picks(Len(log)) :
           /\ Synced(u, t)
           /\ \E r, w : Reads(file, u, r, w) /\ (pc = "down" /\ WholeRecords => w = 0)
<1>1. TypeOK /\ log \in History /\ Synced(s, t)
  BY WInvTypes DEF WInv, Keeping
<1>2. ASSUME NEW u \in Picks(Len(log)), Synced(u, t), file = Held(log, u)
      PROVE  \E v \in Picks(Len(log)) :
               /\ Synced(v, t)
               /\ \E r, w : Reads(file, v, r, w) /\ (pc = "down" /\ WholeRecords => w = 0)
  <2>1. Reads(file, u, NoRecord, 0)
    BY <1>1, <1>2, ReadsWhole
  <2> QED
    BY <1>2, <2>1
<1>3. ASSUME log # <<>>, s \in Picks(Len(log) - 1), pc # "down" \/ ~WholeRecords,
             NEW n \in 0 .. Len(Bytes(Latest)), n # Len(Bytes(Latest)), file = Held(log, s) \o Torn(n)
      PROVE  \E u \in Picks(Len(log)) :
               /\ Synced(u, t)
               /\ \E r, w : Reads(file, u, r, w) /\ (pc = "down" /\ WholeRecords => w = 0)
  <2>1. Latest \in Records \cup {NoRecord} /\ Len(Bytes(Latest)) \in Nat
    BY <1>1, <1>3, LatestIs
  <2>2. n \in 0 .. Len(Bytes(Latest)) - 1
    BY <1>3, <2>1
  <2>3. Reads(file, s, Latest, n)
    BY <1>3, <2>1, <2>2 DEF Reads, Torn
  <2> QED
    BY <1>1, <1>3, <2>3
<1>4. CASE pc = "put"
  <2>1. log # <<>> /\ Putting(s) /\ s \in Picks(Len(log) - 1)
    BY <1>4 DEF WInv, PutsLast, Keeping, Putting
  <2>2. PICK n \in 0 .. Len(Bytes(Latest)) : file = Held(log, s) \o Torn(n)
    BY <2>1 DEF Putting
  <2>3. CASE n = Len(Bytes(Latest))
    <3>1. PICK u \in Picks(Len(log)) : Held(log, u) = Held(log, s) \o Bytes(Latest) /\ Synced(u, t)
      BY <1>1, <2>1, WithLatest
    <3>2. Torn(n) = Bytes(Latest)
      BY <1>1, <2>1, <2>3, LatestIs
    <3> QED
      BY <1>2, <2>2, <3>1, <3>2
  <2>4. CASE n # Len(Bytes(Latest))
    BY <1>3, <1>4, <2>1, <2>2, <2>4
  <2> QED
    BY <2>3, <2>4
<1>5. CASE pc # "put"
  <2>1. Left(s)
    BY <1>5 DEF Keeping
  <2>2. CASE file = Held(log, s)
    BY <1>1, <1>2, <2>2
  <2>3. ASSUME log # <<>>, s \in Picks(Len(log) - 1), ~WholeRecords,
               NEW n \in 2 .. Len(Bytes(Latest)) - 1, file = Held(log, s) \o Torn(n)
        PROVE  n \in 0 .. Len(Bytes(Latest)) /\ n # Len(Bytes(Latest))
    <3>1. Len(Bytes(Latest)) \in Nat
      BY <1>1, <2>3, LatestIs
    <3> QED
      BY <3>1
  <2> QED
    BY <1>3, <2>1, <2>2, <2>3 DEF Left
<1> QED
  BY <1>4, <1>5

\* What power loss can leave of a file that holds u, of which t is synced.
LEMMA OutcomeReads ==
  ASSUME WInv, NEW u \in Picks(Len(log)), NEW t \in Picks(Len(log)), Synced(u, t),
         NEW r, NEW w, Reads(file, u, r, w), NEW f \in Outcomes \cup {file}
  PROVE  \E v, q, x : /\ Reads(f, v, q, x)
                      /\ \A i \in DOMAIN log : log[i].acked => i \in Range(v)
<1>1. TypeOK /\ log \in History /\ Len(log) \in Nat /\ disk = Held(log, t)
      /\ file \in Seq(Cells) /\ disk \in Seq(Cells)
  BY WInvTypes DEF WInv, Synced
<1>2. u \in Seq(1 .. Len(log)) /\ t \in Seq(1 .. Len(log)) /\ Len(u) \in Nat
  BY <1>1, PickIs
<1>3. CASE f = file
  <2>1. \A i \in DOMAIN log : log[i].acked => i \in Range(u)
    BY <1>2, PrefixRange DEF Synced
  <2> QED
    BY <1>3, <2>1
<1>4. CASE f = disk
  <2>1. Reads(f, t, NoRecord, 0)
    BY <1>1, <1>4, ReadsWhole
  <2> QED
    BY <2>1 DEF Synced
<1>5. ASSUME NEW k \in (IF IsPrefix(disk, file) THEN Len(disk) ELSE 0) .. Len(file),
             f = SubSeq(file, 1, k)
      PROVE  \E v, q, x : /\ Reads(f, v, q, x)
                          /\ \A i \in DOMAIN log : log[i].acked => i \in Range(v)
  <2>1. k \in 0 .. Len(file) /\ (IsPrefix(disk, file) => Len(disk) <= k)
    BY <1>1, LenProperties
  <2>2. PICK m \in 0 .. Len(u) : ReadsPart(file, u, k, m)
    BY <1>1, <2>1, PartReads
  <2>3. ASSUME NEW i \in DOMAIN log, log[i].acked PROVE i \in Range(SubSeq(u, 1, m))
    <3>1. i \in Range(t) /\ IsPrefix(t, u)
      BY <2>3 DEF Synced
    <3>2. Len(t) \in 0 .. Len(u) /\ t = SubSeq(u, 1, Len(t))
      BY <1>2, <3>1, PrefixCut
    <3> DEFINE l == Picked(log, u)
               a == Laid(l, Len(t))
               b == Laid(l, Len(u))
    <3>3. a = disk
      BY <1>1, <3>2, HeldPart
    <3>4. IsPrefix(a, b)
      <4>1. l \in History /\ Len(l) = Len(u)
        BY <1>1, PickedIs
      <4>2. Len(t) \in 0 .. Len(l) /\ Len(u) \in Len(t) .. Len(l)
        BY <1>2, <3>2, <4>1
      <4> HIDE DEF l
      <4> QED
        BY <4>1, <4>2, LaidPrefix
    <3>5. file = b \o SubSeq(Bytes(r), 1, w) /\ b \in Seq(Cells) /\ SubSeq(Bytes(r), 1, w) \in Seq(Cells)
      <4>1. file = Held(log, u) \o SubSeq(Bytes(r), 1, w) /\ Held(log, u) \in Seq(Cells)
            /\ r \in Records \cup {NoRecord} /\ w \in 0 .. Len(Bytes(r)) - 1
        BY <1>1, PickedIs DEF Reads
      <4>2. Bytes(r) \in Seq(Cells) /\ Len(Bytes(r)) \in Nat
        BY <4>1, BytesCells, LenProperties
      <4>3. w \in 0 .. Len(Bytes(r))
        BY <4>1, <4>2
      <4>4. SubSeq(Bytes(r), 1, w) \in Seq(Cells)
        BY <4>2, <4>3, Cutting
      <4> QED
        BY <4>1, <4>4 DEF Held
    <3> HIDE DEF a, b
    <3>6. IsPrefix(disk, file)
      <4>1. IsPrefix(b, file)
        BY <3>5, PrefixConcat
      <4> QED
        BY <1>1, <3>3, <3>4, <3>5, <4>1, PrefixTransitive
    <3>7. Len(t) <= m
      BY <2>1, <2>2, <3>2, <3>3, <3>6 DEF a, ReadsPart
    <3>8. PICK p \in 1 .. Len(t) : i = t[p]
      BY <1>2, <3>1, RangeEquality
    <3>9. p \in 1 .. m /\ m \in 0 .. Len(u) /\ t[p] = u[p]
      <4>1. p \in 1 .. m
        BY <1>2, <3>2, <3>7, <3>8
      <4>2. t[p] = u[p]
        BY <1>2, <3>1, <3>8, PrefixIs
      <4> QED
        BY <4>1, <4>2
    <3>10. SubSeq(u, 1, m) \in Seq(1 .. Len(log)) /\ Len(SubSeq(u, 1, m)) = m /\ SubSeq(u, 1, m)[p] = u[p]
      BY <1>2, <3>9, Cutting
    <3> QED
      BY <3>8, <3>9, <3>10, RangeEquality
  <2> QED
    BY <1>5, <2>2, <2>3 DEF ReadsPart
<1> QED
  BY <1>3, <1>4, <1>5 DEF Outcomes

\* Whatever record replay returns was put, in the order of the puts, and none that
\* was acknowledged is missing: now, and after any kill, failing sync or clear, any
\* number of them, and after a power loss that comes next (wal.rs:55-58, 64).
THEOREM NeverSilent == Spec => []NoSilentLoss
<1>1. ASSUME WInv, KeptInv PROVE NoSilentLoss
  <2> SUFFICES ASSUME WholeCalls, NEW f \in Outcomes \cup {file}, Replay(f).ok
               PROVE  Faithful(Replay(f).entries)
    BY DEF NoSilentLoss, NothingLost
  <2>1. PICK s, t \in Picks(Len(log)) : Keeping(s, t)
    BY <1>1 DEF KeptInv, KInv
  <2>2. PICK u \in Picks(Len(log)) : Synced(u, t) /\ \E r, w : Reads(file, u, r, w)
    BY <1>1, <2>1, KeptReads
  <2>3. \E v, q, x : /\ Reads(f, v, q, x)
                     /\ \A i \in DOMAIN log : log[i].acked => i \in Range(v)
    BY <1>1, <2>1, <2>2, OutcomeReads
  <2>4. log \in History
    BY <1>1, WInvTypes DEF WInv
  <2> QED
    BY <2>3, <2>4, FaithfulReading
<1> QED
  BY <1>1, KeptInductive, PTL

\* When every record fits in the BufWriter, and leaves it in one call, a log is
\* never refused: whenever the process may have died, it can be opened again
\* (wal.rs:31-51, 64).
THEOREM AlwaysOpens == Spec => []AlwaysReplays
<1>1. ASSUME WInv, KeptInv PROVE AlwaysReplays
  <2> SUFFICES ASSUME WholeRecords, pc = "down" PROVE Replay(file).ok
    BY DEF AlwaysReplays, ShortReadEndsLog
  <2>1. PICK s, t \in Picks(Len(log)) : Keeping(s, t)
    BY <1>1 DEF KeptInv, KInv, WholeRecords
  <2>2. PICK u \in Picks(Len(log)) : \E r : Reads(file, u, r, 0)
    BY <1>1, <2>1, KeptReads
  <2>3. PICK r : Reads(file, u, r, 0)
    BY <2>2
  <2> DEFINE l == Picked(log, u)
  <2>4. l \in History /\ Len(l) = Len(u)
    BY <1>1, WInvTypes, PickedIs DEF WInv
  <2>5. /\ r \in Records \cup {NoRecord} /\ 0 \in 0 .. Len(Bytes(r)) - 1
        /\ file = Laid(l, Len(l)) \o SubSeq(Bytes(r), 1, 0)
    BY <2>3, <2>4 DEF Reads, Held
  <2> HIDE DEF l
  <2>6. Replay(file).ok <=> 0 < 2
    BY <2>4, <2>5, ReplayLaid
  <2> QED
    BY <2>6
<1> QED
  BY <1>1, KeptInductive, PTL

-----------------------------------------------------------------------------
(* The layer a log stands for *)

\* Of the entries in order, the last of each key.
LastOf(e, k) == {i \in DOMAIN e : e[i].key = k}
Greatest(T) == CHOOSE i \in T : \A j \in T : j <= i
LayerMade(e) ==
  [k \in Keys |-> IF LastOf(e, k) = {} THEN <<>> ELSE <<e[Greatest(LastOf(e, k))].value>>]

LEMMA LayerOfIs == ASSUME NEW f PROVE LayerOf(f) = LayerMade(Whole(f))
BY DEF LayerOf, LayerMade, LastOf, Greatest

LEMMA GreatestIs ==
  ASSUME NEW n \in Nat, NEW T, T \subseteq 1 .. n, T # {}
  PROVE  Greatest(T) \in T /\ \A j \in T : j <= Greatest(T)
<1> DEFINE U == {n - i : i \in T}
<1>1. U \subseteq Nat /\ U # {}
  <2>1. \A i \in T : n - i \in Nat
    OBVIOUS
  <2>2. PICK i \in T : TRUE
    OBVIOUS
  <2>3. n - i \in U
    OBVIOUS
  <2> QED
    BY <2>1, <2>3
<1>2. PICK m \in U : \A l \in U : m <= l
  <2> HIDE DEF U
  <2> QED
    BY <1>1, LeastElement
<1>3. PICK i \in T : m = n - i
  OBVIOUS
<1>4. \A j \in T : j <= i
  <2> SUFFICES ASSUME NEW j \in T PROVE j <= i
    OBVIOUS
  <2>1. n - i <= n - j
    BY <1>2, <1>3
  <2>2. i \in 1 .. n /\ j \in 1 .. n
    OBVIOUS
  <2> QED
    BY <2>1, <2>2
<1> QED
  BY <1>3, <1>4 DEF Greatest

\* One more record overrides what the others say of its key.
LEMMA LayerMore ==
  ASSUME NEW e \in Seq(Found), NEW r \in Records
  PROVE  LayerMade(Append(e, r)) = [LayerMade(e) EXCEPT ![r.key] = <<r.value>>]
<1> DEFINE n == Len(e)
           f == Append(e, r)
<1>1. n \in Nat /\ DOMAIN e = 1 .. n /\ r \in Found
  BY LenProperties DEF Found
<1>2. /\ DOMAIN f = 1 .. n + 1 /\ f[n + 1] = r
      /\ \A i \in 1 .. n : f[i] = e[i]
  <2>1. f \in Seq(Found) /\ Len(f) = n + 1 /\ f[n + 1] = r /\ \A i \in 1 .. n : f[i] = e[i]
    BY <1>1, AppendProperties
  <2> HIDE DEF f
  <2> QED
    BY <1>1, <2>1, LenProperties
<1> HIDE DEF f, n
<1>3. ASSUME NEW k \in Keys, k # r.key PROVE LayerMade(f)[k] = LayerMade(e)[k]
  <2>1. LastOf(f, k) = LastOf(e, k)
    <3>1. \A i : i \in 1 .. n + 1 /\ i # n + 1 <=> i \in 1 .. n
      BY <1>1
    <3> QED
      BY <1>1, <1>2, <1>3, <3>1 DEF LastOf
  <2>2. ASSUME LastOf(e, k) # {} PROVE Greatest(LastOf(e, k)) \in 1 .. n
    <3>1. LastOf(e, k) \subseteq 1 .. n
      BY <1>1 DEF LastOf
    <3> QED
      BY <1>1, <2>2, <3>1, GreatestIs
  <2> QED
    BY <1>2, <2>1, <2>2 DEF LayerMade
<1>4. ASSUME r.key \in Keys PROVE LayerMade(f)[r.key] = <<r.value>>
  <2> DEFINE T == LastOf(f, r.key)
  <2>1. T \subseteq 1 .. n + 1 /\ n + 1 \in T /\ n + 1 \in Nat
    <3>1. n + 1 \in 1 .. n + 1 /\ n + 1 \in Nat
      BY <1>1
    <3> QED
      BY <1>2, <3>1 DEF LastOf
  <2> HIDE DEF T
  <2>2. Greatest(T) \in T /\ n + 1 <= Greatest(T)
    BY <2>1, GreatestIs
  <2>3. Greatest(T) = n + 1
    <3>1. \A i \in 1 .. n + 1 : n + 1 <= i => i = n + 1
      BY <1>1
    <3>2. Greatest(T) \in 1 .. n + 1
      BY <2>1, <2>2
    <3> QED
      BY <2>2, <3>1, <3>2
  <2> QED
    BY <1>2, <1>4, <2>1, <2>3 DEF LayerMade, T
<1>5. LayerMade(f) = [LayerMade(e) EXCEPT ![r.key] = <<r.value>>]
  BY <1>3, <1>4 DEF LayerMade
<1> QED
  BY <1>5 DEF f

\* A list of records, as a history.
Told(e) == [i \in 1 .. Len(e) |-> [record |-> e[i], acked |-> FALSE]]

LEMMA ToldIs ==
  ASSUME NEW e \in Seq(Records)
  PROVE  /\ Told(e) \in History /\ Len(Told(e)) = Len(e) /\ Len(e) \in Nat
         /\ From(Told(e), 0) = e
         /\ Laid(Told(e), Len(e)) = BytesOf(e) /\ BytesOf(e) \in Seq(Cells)
<1> DEFINE l == Told(e)
<1>1. Len(e) \in Nat /\ DOMAIN e = 1 .. Len(e) /\ \A i \in 1 .. Len(e) : e[i] \in Records
  BY LenProperties, ElementOfSeq
<1>2. l \in History /\ Len(l) = Len(e) /\ \A i \in 1 .. Len(e) : l[i].record = e[i]
  <2>1. \A i \in 1 .. Len(e) : [record |-> e[i], acked |-> FALSE] \in Event
    BY <1>1 DEF Event
  <2>2. l \in Seq(Event)
    BY <1>1, <2>1, IsASeq DEF Told
  <2>3. DOMAIN l = 1 .. Len(e) /\ DOMAIN l = 1 .. Len(l) /\ Len(l) \in Nat
    BY <2>2, LenProperties DEF Told
  <2>4. Len(l) = Len(e)
    <3> HIDE DEF l
    <3> QED
      BY <1>1, <2>3
  <2> QED
    BY <2>2, <2>4 DEF History, Told
<1> HIDE DEF l
<1>3. From(l, 0) = e
  <2>1. Len(l) - 0 = Len(e) /\ \A i \in 1 .. Len(e) : l[0 + i].record = e[i]
    BY <1>1, <1>2
  <2>2. From(l, 0) = [i \in 1 .. Len(e) |-> e[i]]
    BY <2>1 DEF From
  <2> QED
    BY <1>1, <2>2
<1>4. Laid(l, Len(e)) = BytesOf(e)
  <2>1. [i \in 1 .. Len(e) |-> Bytes(l[i].record)] = [i \in DOMAIN e |-> FlattenSeq(Chunks(e[i]))]
    BY <1>1, <1>2 DEF Bytes
  <2> QED
    BY <2>1 DEF Laid, BytesOf
<1>5. Laid(l, Len(e)) \in Seq(Cells)
  <2>1. Len(e) \in 0 .. Len(l)
    BY <1>1, <1>2
  <2> QED
    BY <1>2, <2>1, LaidCells
<1> QED
  BY <1>1, <1>2, <1>3, <1>4, <1>5 DEF l

\* Whole records, and a record cut short after w bytes, which is no whole one.
LEMMA WholeLaid ==
  ASSUME NEW e \in Seq(Records), NEW r \in Records \cup {NoRecord},
         NEW w \in 0 .. Len(Bytes(r)) - 1
  PROVE  LET f == BytesOf(e) \o SubSeq(Bytes(r), 1, w)
         IN  Whole(f) = e /\ (Replay(f).ok <=> w < 2)
<1> DEFINE f == BytesOf(e) \o SubSeq(Bytes(r), 1, w)
           all == Parsed(f)
           l == Told(e)
<1>1. l \in History /\ Len(l) = Len(e) /\ Len(e) \in Nat /\ From(l, 0) = e /\ Laid(l, Len(l)) = BytesOf(e)
  BY ToldIs
<1> HIDE DEF l
<1>2. (Replay(f).ok <=> w < 2) /\ (w < 2 => Replay(f).entries = e)
  BY <1>1, ReplayLaid
<1>3. all = e \o Rest(w)
  BY <1>1, ParsedLaid
<1>4. Replay(f) = (IF all # <<>> /\ Last(all) = Cut THEN [ok |-> FALSE, entries |-> <<>>]
                   ELSE [ok |-> TRUE, entries |-> all])
      /\ Whole(f) = (IF all # <<>> /\ Last(all) = Cut THEN Front(all) ELSE all)
  BY DEF Replay, Whole
<1> HIDE DEF all, f
<1>5. CASE w < 2
  <2>1. Replay(f) = [ok |-> TRUE, entries |-> all] /\ Whole(f) = all
    BY <1>2, <1>4, <1>5
  <2>2. Whole(f) = e
    BY <1>2, <1>5, <2>1
  <2> QED
    BY <1>2, <2>2 DEF f
<1>6. CASE ~(w < 2)
  <2>1. Whole(f) = Front(all)
    BY <1>2, <1>4, <1>6
  <2>2. e \in Seq(Found) /\ Cut \in Found
    <3>1. \A i \in 1 .. Len(e) : e[i] \in Found
      BY ElementOfSeq DEF Found
    <3>2. e = [i \in 1 .. Len(e) |-> e[i]]
      BY LenProperties
    <3>3. e \in Seq(Found)
      BY <1>1, <3>1, <3>2, IsASeq
    <3> QED
      BY <3>3 DEF Found
  <2>3. all = Append(e, Cut)
    BY <1>3, <1>6, <2>2, AppendIsConcat DEF Rest
  <2>4. all \in Seq(Found) /\ Len(all) = Len(e) + 1 /\ \A i \in 1 .. Len(e) : all[i] = e[i]
    BY <2>2, <2>3, AppendProperties
  <2>5. Front(all) = e
    <3> DEFINE g == SubSeq(all, 1, Len(e))
    <3>1. Len(e) \in 0 .. Len(all) /\ Len(all) - 1 = Len(e)
      BY <1>1, <2>4
    <3>2. g \in Seq(Found) /\ Len(g) = Len(e) /\ \A i \in 1 .. Len(e) : g[i] = all[i]
      BY <2>4, <3>1, Cutting
    <3>3. Front(all) = g
      BY <3>1 DEF Front
    <3> HIDE DEF g
    <3>4. \A i \in 1 .. Len(g) : g[i] = e[i]
      BY <2>4, <3>2
    <3>5. g = e
      BY <2>2, <3>2, <3>4, SeqEqual
    <3> QED
      BY <3>3, <3>5
  <2> QED
    BY <1>2, <2>1, <2>5 DEF f
<1> QED
  BY <1>5, <1>6

Sound(f) == TailOf(f) = "clean"

\* A sound log is the bytes of its records ...
LEMMA SoundIs ==
  ASSUME NEW f, Sound(f)
  PROVE  Whole(f) \in Seq(Records) /\ f = BytesOf(Whole(f))
BY DEF Sound, TailOf

\* ... and the bytes of records are a sound log, whose layer they make up.
LEMMA SoundBytes ==
  ASSUME NEW e \in Seq(Records)
  PROVE  Sound(BytesOf(e)) /\ LayerOf(BytesOf(e)) = LayerMade(e)
<1> DEFINE f == BytesOf(e)
<1>1. f \in Seq(Cells)
  BY ToldIs
<1>2. f \o SubSeq(Bytes(NoRecord), 1, 0) = f
  <2>1. SubSeq(Bytes(NoRecord), 1, 0) = <<>>
    BY SubSeqEmpty
  <2> HIDE DEF f
  <2> QED
    BY <1>1, <2>1, ConcatEmptySeq
<1>3. 0 \in 0 .. Len(Bytes(NoRecord)) - 1 /\ NoRecord \in Records \cup {NoRecord} /\ 0 < 2
  BY Fields
<1>4. Whole(f) = e /\ Replay(f).ok
  BY <1>2, <1>3, WholeLaid
<1>5. Sound(f)
  BY <1>4 DEF Sound, TailOf
<1> QED
  BY <1>4, <1>5, LayerOfIs

LEMMA SoundNone == Sound(<<>>) /\ LayerOf(<<>>) = Layer!Blank
<1>1. <<>> \in Seq(Records) /\ BytesOf(<<>>) = <<>>
  BY EmptySeq DEF BytesOf, FlattenSeq
<1>2. LayerMade(<<>>) = [k \in Keys |-> <<>>]
  BY DEF LayerMade, LastOf
<1> QED
  BY <1>1, <1>2, SoundBytes DEF Layer!Blank

\* Behind a sound end a record is there whole, or as a broken end, or not at all.
LEMMA SoundAppends ==
  ASSUME NEW f, Sound(f), NEW r \in Records
  PROVE  /\ Sound(f \o Bytes(r))
         /\ LayerOf(f \o Bytes(r)) = [LayerOf(f) EXCEPT ![r.key] = <<r.value>>]
         /\ \A w \in 1 .. Len(Bytes(r)) - 1 :
              LET g == f \o SubSeq(Bytes(r), 1, w)
              IN  LayerOf(g) = LayerOf(f) /\ TailOf(g) \in Layer!Broken
<1> DEFINE e == Whole(f)
           more == Append(e, r)
<1>1. e \in Seq(Records) /\ f = BytesOf(e) /\ Len(e) \in Nat
  BY SoundIs, LenProperties
<1>2. Bytes(r) \in Seq(Cells) /\ Len(Bytes(r)) \in Nat
  BY BytesCells, LenProperties
<1>3. LayerOf(f) = LayerMade(e)
  BY LayerOfIs
<1> HIDE DEF e
<1>4. more \in Seq(Records) /\ Len(more) = Len(e) + 1 /\ more[Len(e) + 1] = r
      /\ \A i \in 1 .. Len(e) : more[i] = e[i]
  BY <1>1, AppendProperties
<1> HIDE DEF more
<1>5. BytesOf(more) = f \o Bytes(r)
  <2> DEFINE l == Told(more)
             m == Told(e)
  <2>1. l \in History /\ Len(l) = Len(e) + 1 /\ Laid(l, Len(e) + 1) = BytesOf(more)
        /\ m \in History /\ Laid(m, Len(e)) = f
    BY <1>1, <1>4, ToldIs
  <2>2. \A i \in 1 .. Len(e) + 1 : l[i].record = more[i]
    BY <1>4 DEF Told
  <2>3. \A i \in 1 .. Len(e) : m[i].record = e[i]
    BY DEF Told
  <2> HIDE DEF l, m
  <2>4. Len(e) + 1 \in 1 .. Len(e) + 1 /\ Len(e) \in 0 .. Len(l) - 1
        /\ \A i \in 1 .. Len(e) : i \in 1 .. Len(e) + 1
    BY <1>1, <2>1
  <2>5. Laid(l, Len(e) + 1) = Laid(l, Len(e)) \o Bytes(l[Len(e) + 1].record)
    BY <2>1, <2>4, LaidStep
  <2>6. Laid(l, Len(e)) = Laid(m, Len(e))
    BY <1>1, <1>4, <2>2, <2>3, <2>4, LaidSame
  <2> QED
    BY <1>4, <2>1, <2>2, <2>4, <2>5, <2>6
<1>6. LayerMade(more) = [LayerMade(e) EXCEPT ![r.key] = <<r.value>>]
  <2>1. e \in Seq(Found)
    <3>1. \A i \in 1 .. Len(e) : e[i] \in Found
      BY <1>1, ElementOfSeq DEF Found
    <3>2. e = [i \in 1 .. Len(e) |-> e[i]]
      BY <1>1, LenProperties
    <3> QED
      BY <1>1, <3>1, <3>2, IsASeq
  <2> QED
    BY <2>1, LayerMore DEF more
<1>7. ASSUME NEW w \in 1 .. Len(Bytes(r)) - 1
      PROVE  LET g == f \o SubSeq(Bytes(r), 1, w)
             IN  LayerOf(g) = LayerMade(e) /\ TailOf(g) \in Layer!Broken
  <2> DEFINE g == f \o SubSeq(Bytes(r), 1, w)
  <2>1. w \in 0 .. Len(Bytes(r)) - 1 /\ w \in 0 .. Len(Bytes(r)) /\ w \in Nat \ {0}
    BY <1>2
  <2>2. Whole(g) = e /\ (Replay(g).ok <=> w < 2)
    BY <1>1, <2>1, WholeLaid
  <2>3. g # f
    <3>1. SubSeq(Bytes(r), 1, w) \in Seq(Cells) /\ Len(SubSeq(Bytes(r), 1, w)) = w
      BY <1>2, <2>1, Cutting
    <3>2. f \in Seq(Cells)
      BY <1>1, ToldIs
    <3>3. Len(g) = Len(f) + w /\ Len(f) \in Nat
      BY <3>1, <3>2, ConcatProperties, LenProperties
    <3> HIDE DEF g
    <3> QED
      BY <2>1, <3>3
  <2> HIDE DEF g
  <2>4. TailOf(g) \in {"cut", "ragged"}
    BY <1>1, <2>2, <2>3 DEF TailOf
  <2>5. LayerOf(g) = LayerMade(e)
    BY <2>2, LayerOfIs
  <2> QED
    BY <2>4, <2>5 DEF Layer!Broken, g
<1> QED
  BY <1>3, <1>4, <1>5, <1>6, <1>7, SoundBytes

-----------------------------------------------------------------------------
(* What power loss leaves *)

\* What it leaves of a file f when d was synced.
Worst(d, f) == IF IsPrefix(d, f) THEN Len(d) ELSE 0
Parts(d, f) == {d} \cup {SubSeq(f, 1, n) : n \in Worst(d, f) .. Len(f)}

LEMMA PartsAre ==
  ASSUME NEW d \in Seq(Cells), NEW f \in Seq(Cells)
  PROVE  Worst(d, f) \in 0 .. Len(f) /\ Len(f) \in Nat /\ f \in Parts(d, f)
<1>1. Len(f) \in Nat /\ Len(d) \in Nat
  BY LenProperties
<1>2. Worst(d, f) \in 0 .. Len(f)
  BY <1>1, PrefixIs DEF Worst
<1>3. SubSeq(f, 1, Len(f)) = f /\ Len(f) \in Worst(d, f) .. Len(f)
  BY <1>1, <1>2, SubSeqFull
<1> QED
  BY <1>1, <1>2, <1>3 DEF Parts

LEMMA OutcomesAre == Outcomes = Parts(disk, file) /\ Outcomes' = Parts(disk', file')
BY DEF Outcomes, Parts, Worst

\* A file of which all is synced can only be found as it is.
LEMMA AllSynced == ASSUME NEW f \in Seq(Cells) PROVE Parts(f, f) = {f}
<1>1. Len(f) \in Nat /\ IsPrefix(f, f) /\ SubSeq(f, 1, Len(f)) = f
  BY LenProperties, PrefixConcat, SubSeqFull
<1>2. Worst(f, f) .. Len(f) = {Len(f)}
  BY <1>1 DEF Worst
<1> QED
  BY <1>1, <1>2 DEF Parts

\* Writing at the end adds what has the first bytes written at its end.
LEMMA OutcomesGrow ==
  ASSUME NEW d \in Seq(Cells), NEW f \in Seq(Cells), NEW b \in Seq(Cells), NEW g \in Parts(d, f \o b)
  PROVE  g \in Parts(d, f) \/ \E w \in 1 .. Len(b) : g = f \o SubSeq(b, 1, w)
<1> DEFINE h == f \o b
<1>1. /\ h \in Seq(Cells) /\ Len(h) = Len(f) + Len(b) /\ Len(f) \in Nat /\ Len(b) \in Nat
      /\ \A i \in 1 .. Len(f) + Len(b) : h[i] = IF i <= Len(f) THEN f[i] ELSE b[i - Len(f)]
      /\ IsPrefix(f, h)
  BY ConcatProperties, PrefixConcat, LenProperties
<1> HIDE DEF h
<1>2. Worst(d, h) \in 0 .. Len(h) /\ Worst(d, f) \in 0 .. Len(f)
  BY <1>1, PartsAre
<1>3. CASE g = d
  BY <1>3 DEF Parts
<1>4. ASSUME NEW n \in Worst(d, h) .. Len(h), g = SubSeq(h, 1, n)
      PROVE  g \in Parts(d, f) \/ \E w \in 1 .. Len(b) : g = f \o SubSeq(b, 1, w)
  <2>1. n \in 0 .. Len(h) /\ g \in Seq(Cells) /\ Len(g) = n /\ \A i \in 1 .. n : g[i] = h[i]
    <3>1. n \in 0 .. Len(h)
      BY <1>1, <1>2
    <3> QED
      BY <1>1, <1>4, <3>1, Cutting
  <2>2. CASE n <= Len(f)
    <3> DEFINE c == SubSeq(f, 1, n)
    <3>1. n \in 0 .. Len(f)
      BY <1>1, <2>1, <2>2
    <3>2. c \in Seq(Cells) /\ Len(c) = n /\ \A i \in 1 .. n : c[i] = f[i]
      BY <3>1, Cutting
    <3> HIDE DEF c
    <3>3. \A i \in 1 .. n : g[i] = c[i]
      <4>1. \A i \in 1 .. n : i \in 1 .. Len(f) + Len(b) /\ i <= Len(f)
        BY <1>1, <2>2, <3>1
      <4> QED
        BY <1>1, <2>1, <3>2, <4>1
    <3>4. g = c
      BY <2>1, <3>2, <3>3, SeqEqual
    <3>5. Worst(d, f) <= n
      <4>1. CASE IsPrefix(d, f)
        <5>1. IsPrefix(d, h)
          BY <1>1, <4>1, PrefixTransitive
        <5>2. Worst(d, h) = Len(d) /\ Worst(d, f) = Len(d)
          BY <4>1, <5>1 DEF Worst
        <5> QED
          BY <1>1, <1>2, <5>2
      <4>2. CASE ~IsPrefix(d, f)
        BY <2>1, <4>2 DEF Worst
      <4> QED
        BY <4>1, <4>2
    <3>6. n \in Worst(d, f) .. Len(f)
      BY <1>1, <1>2, <2>2, <3>1, <3>5
    <3> QED
      BY <3>4, <3>6 DEF Parts, c
  <2>3. CASE ~(n <= Len(f))
    <3> DEFINE w == n - Len(f)
               torn == SubSeq(b, 1, w)
               c == f \o torn
    <3>1. w \in 1 .. Len(b) /\ w \in 0 .. Len(b) /\ Len(f) + w = n
      BY <1>1, <2>1, <2>3
    <3>2. torn \in Seq(Cells) /\ Len(torn) = w /\ \A i \in 1 .. w : torn[i] = b[i]
      BY <3>1, Cutting
    <3> HIDE DEF torn
    <3>3. /\ c \in Seq(Cells) /\ Len(c) = n
          /\ \A i \in 1 .. n : c[i] = IF i <= Len(f) THEN f[i] ELSE torn[i - Len(f)]
      BY <1>1, <3>1, <3>2, ConcatProperties
    <3> HIDE DEF c
    <3>4. ASSUME NEW i \in 1 .. n PROVE g[i] = c[i]
      <4>1. i \in 1 .. Len(f) + Len(b)
        BY <1>1, <2>1
      <4>2. CASE i <= Len(f)
        BY <1>1, <2>1, <3>3, <4>1, <4>2
      <4>3. CASE ~(i <= Len(f))
        <5>1. i - Len(f) \in 1 .. w
          BY <1>1, <2>1, <3>1, <4>3
        <5> HIDE DEF w
        <5> QED
          BY <1>1, <2>1, <3>2, <3>3, <4>1, <4>3, <5>1
      <4> QED
        BY <4>2, <4>3
    <3>5. g = c
      BY <2>1, <3>3, <3>4, SeqEqual
    <3> QED
      BY <3>1, <3>5 DEF c, torn
  <2> QED
    BY <2>2, <2>3
<1> QED
  BY <1>3, <1>4 DEF Parts, h

-----------------------------------------------------------------------------
(* How a put writes where records go out in one call *)

\* The chunks sent are all in the buffer, until all of the record leaves it.
Gathers ==
  \E j \in 0 .. Len(Chunks(Latest)) :
    /\ queue = SubSeq(Chunks(Latest), j + 1, Len(Chunks(Latest)))
    /\ buf = Sent(j) \/ (buf = <<>> /\ Sent(j) = Bytes(Latest))

\* The handle stands at the end, and nothing is left in the buffer between puts.
LInv == /\ pc # "clear_sync" => Appending
        /\ IF pc = "put" THEN Latest \in scenario.records /\ Gathers ELSE buf = <<>>
LayeredInv == Layered => LInv

LEMMA SameLayered == ASSUME [Next]_vars PROVE scenario' = scenario /\ (Layered' <=> Layered)
<1>1. scenario' = scenario
  BY SameScenario
<1> QED
  BY <1>1 DEF Layered, OneCall, Buffered

\* A record that is buffered has room there; the next chunk of it, if any.
LEMMA GathersIs ==
  ASSUME TypeOK, log # <<>>, Latest \in scenario.records, OneCall,
         NEW j \in 0 .. Len(Chunks(Latest)), queue = SubSeq(Chunks(Latest), j + 1, Len(Chunks(Latest)))
  PROVE  /\ Latest \in Records /\ Len(Bytes(Latest)) \in Nat /\ Len(Bytes(Latest)) >= 4
         /\ Bytes(Latest) \in Seq(Cells)
         /\ Len(Bytes(Latest)) <= Capacity /\ Capacity \in Nat
         /\ Sent(j) \in Seq(Cells) /\ Len(Sent(j)) \in 0 .. Len(Bytes(Latest))
         /\ queue = <<>> => Sent(j) = Bytes(Latest)
         /\ queue # <<>> =>
              /\ j + 1 \in 0 .. Len(Chunks(Latest)) /\ Head(queue) \in Seq(Cells)
              /\ Tail(queue) = SubSeq(Chunks(Latest), j + 1 + 1, Len(Chunks(Latest)))
              /\ Sent(j + 1) = Sent(j) \o Head(queue)
              /\ Len(Sent(j + 1)) = Len(Sent(j)) + Len(Head(queue)) /\ Len(Head(queue)) \in Nat
              /\ Len(Sent(j + 1)) <= Len(Bytes(Latest))
              /\ Len(Sent(j + 1)) = Len(Bytes(Latest)) => Sent(j + 1) = Bytes(Latest)
<1> DEFINE c == Chunks(Latest)
           b == Bytes(Latest)
<1>1. c \in Seq(Seq(Cells)) /\ Len(c) \in Nat /\ b \in Seq(Cells) /\ Len(b) \in Nat /\ Len(b) >= 4
      /\ Latest \in Records \cup {NoRecord}
  BY LatestIs
<1>2. Latest \in Records /\ Len(b) <= Capacity /\ Capacity \in Nat
  BY ScenariosAssumption, SizesAssumption DEF TypeOK, OneCall, Buffered, Bytes
<1>3. ASSUME NEW i \in 0 .. Len(c)
      PROVE  /\ Sent(i) \in Seq(Cells) /\ Len(Sent(i)) \in 0 .. Len(b)
             /\ i = Len(c) => Sent(i) = b
             /\ Len(Sent(i)) = Len(b) => Sent(i) = b
  <2>1. /\ Sent(i) \in Seq(Cells) /\ Len(Sent(i)) \in 0 .. Len(b)
        /\ Sent(i) = SubSeq(b, 1, Len(Sent(i)))
        /\ i = Len(c) => Sent(i) = b
    BY <1>1, SentIs DEF Sent
  <2>2. SubSeq(b, 1, Len(b)) = b
    BY <1>1, SubSeqFull
  <2> QED
    BY <2>1, <2>2
<1>4. ASSUME queue = <<>> PROVE j = Len(c)
  <2> HIDE DEF c
  <2>1. queue = SubSeq(c, j + 1, Len(c))
    BY DEF c
  <2>2. j \in 0 .. Len(c)
    BY DEF c
  <2>3. \A i \in j + 1 .. Len(c) : c[i] \in Seq(Cells)
    BY <1>1, <2>2, ElementOfSeq
  <2>4. Len(SubSeq(c, j + 1, Len(c))) = IF j + 1 <= Len(c) THEN Len(c) - (j + 1) + 1 ELSE 0
    BY <1>1, <2>2, <2>3, SubSeqProperties
  <2>5. Len(SubSeq(c, j + 1, Len(c))) = 0
    BY <1>4, <2>1, EmptySeq
  <2> QED
    BY <1>1, <2>2, <2>4, <2>5
<1>5. ASSUME queue # <<>>
      PROVE  /\ j + 1 \in 0 .. Len(c) /\ Head(queue) \in Seq(Cells)
             /\ Tail(queue) = SubSeq(c, j + 1 + 1, Len(c))
             /\ Sent(j + 1) = Sent(j) \o Head(queue)
  <2>1. /\ j + 1 \in 0 .. Len(c) /\ Head(queue) \in Seq(Cells)
        /\ Tail(queue) = SubSeq(c, j + 1 + 1, Len(c))
        /\ FlattenSeq(SubSeq(c, 1, j)) \in Seq(Cells)
        /\ FlattenSeq(SubSeq(c, 1, j + 1)) = FlattenSeq(SubSeq(c, 1, j)) \o Head(queue)
    BY <1>1, <1>5, ChunkTaken
  <2> QED
    BY <2>1 DEF Sent, c
<1>6. ASSUME queue # <<>>
      PROVE  Len(Sent(j + 1)) = Len(Sent(j)) + Len(Head(queue)) /\ Len(Head(queue)) \in Nat
  BY <1>3, <1>5, <1>6, ConcatProperties, LenProperties
<1>7. queue # <<>> => Len(Sent(j + 1)) <= Len(b) /\ (Len(Sent(j + 1)) = Len(b) => Sent(j + 1) = b)
  <2> SUFFICES ASSUME queue # <<>>
               PROVE  Len(Sent(j + 1)) <= Len(b) /\ (Len(Sent(j + 1)) = Len(b) => Sent(j + 1) = b)
    OBVIOUS
  <2>1. Len(Sent(j + 1)) \in 0 .. Len(b) /\ (Len(Sent(j + 1)) = Len(b) => Sent(j + 1) = b)
    BY <1>3, <1>5
  <2> HIDE DEF b
  <2> QED
    BY <1>1, <2>1
<1> QED
  BY <1>1, <1>2, <1>3, <1>4, <1>5, <1>6, <1>7

LEMMA GathersOn ==
  ASSUME LInv, [Next]_vars, pc = "put", pc' = "put", log' = log, Appending',
         NEW j \in 0 .. Len(Chunks(Latest)), queue' = SubSeq(Chunks(Latest), j + 1, Len(Chunks(Latest))),
         buf' = Sent(j) \/ (buf' = <<>> /\ Sent(j) = Bytes(Latest))
  PROVE  LInv'
<1>1. Latest' = Latest /\ Sent(j)' = Sent(j) /\ scenario' = scenario
  BY SameScenario DEF Latest, Sent
<1> QED
  BY <1>1 DEF LInv, Gathers

LEMMA BufferGathers == ASSUME WInv, OneCall, LInv, TypeOK', [Next]_vars, Buffer PROVE LInv'
<1>1. /\ pc = "put" /\ pc' = "put" /\ queue # <<>>
      /\ buf' = buf \o Head(queue) /\ queue' = Tail(queue)
      /\ log' = log /\ file' = file /\ at' = at
  BY DEF Buffer
<1>2. TypeOK /\ log # <<>> /\ Latest \in scenario.records /\ Gathers /\ Appending
  BY <1>1 DEF WInv, PutsLast, LInv
<1>3. PICK j \in 0 .. Len(Chunks(Latest)) :
        /\ queue = SubSeq(Chunks(Latest), j + 1, Len(Chunks(Latest)))
        /\ buf = Sent(j) \/ (buf = <<>> /\ Sent(j) = Bytes(Latest))
  BY <1>2 DEF Gathers
<1> DEFINE h == Head(queue)
           b == Bytes(Latest)
<1>4. /\ j + 1 \in 0 .. Len(Chunks(Latest)) /\ h \in Seq(Cells)
      /\ Tail(queue) = SubSeq(Chunks(Latest), j + 1 + 1, Len(Chunks(Latest)))
      /\ Sent(j + 1) = Sent(j) \o h
      /\ Len(Sent(j + 1)) = Len(Sent(j)) + Len(h) /\ Len(h) \in Nat
      /\ Len(Sent(j + 1)) <= Len(b) /\ Len(b) \in Nat /\ b \in Seq(Cells)
      /\ Len(Sent(j + 1)) = Len(b) => Sent(j + 1) = b
  BY <1>1, <1>2, <1>3, GathersIs
<1> HIDE DEF h, b
<1>5. buf' = Sent(j + 1) \/ (buf' = <<>> /\ Sent(j + 1) = b)
  <2>1. CASE buf = Sent(j)
    BY <1>1, <1>4, <2>1 DEF h
  <2>2. CASE buf = <<>> /\ Sent(j) = b
    <3>1. Len(h) = 0 /\ Len(Sent(j + 1)) = Len(b)
      BY <1>4, <2>2
    <3>2. h = <<>>
      BY <1>4, <3>1, EmptySeq
    <3>3. <<>> \in Seq(Cells) /\ <<>> \o <<>> = <<>>
      BY EmptySeq, ConcatEmptySeq
    <3> QED
      BY <1>1, <1>4, <2>2, <3>1, <3>2, <3>3 DEF h
  <2> QED
    BY <1>3, <2>1, <2>2 DEF b
<1>6. Appending'
  BY <1>1, <1>2 DEF Appending
<1> QED
  BY <1>1, <1>4, <1>5, <1>6, GathersOn DEF b

\* What leaves the buffer, or passes it by, is the whole record.
LEMMA GoesOut ==
  ASSUME WInv, OneCall, LInv, TypeOK', [Next]_vars, Empty \/ PassOn
  PROVE  LInv' /\ Latest \in Records /\ file' = file \o Bytes(Latest) /\ disk' = disk
<1>1. pc = "put" /\ pc' = "put" /\ log' = log /\ disk' = disk /\ buf' = <<>>
  BY DEF Empty, Emptying, PassOn, PassingOn
<1>2. TypeOK /\ log # <<>> /\ Latest \in scenario.records /\ Gathers /\ Appending
      /\ file \in Seq(Cells) /\ buf \in Seq(Cells) /\ at \in {Append_} \cup Nat
  BY <1>1, WInvTypes DEF WInv, PutsLast, LInv
<1>3. PICK j \in 0 .. Len(Chunks(Latest)) :
        /\ queue = SubSeq(Chunks(Latest), j + 1, Len(Chunks(Latest)))
        /\ buf = Sent(j) \/ (buf = <<>> /\ Sent(j) = Bytes(Latest))
  BY <1>2 DEF Gathers
<1> DEFINE h == Head(queue)
           b == Bytes(Latest)
<1>4. /\ Latest \in Records /\ b \in Seq(Cells) /\ Len(b) \in Nat /\ Len(b) >= 4
      /\ Len(b) <= Capacity /\ Capacity \in Nat
      /\ Sent(j) \in Seq(Cells) /\ Len(Sent(j)) \in 0 .. Len(b)
      /\ queue = <<>> => Sent(j) = b
  BY <1>2, <1>3, GathersIs
<1>5. ASSUME queue # <<>>
      PROVE  /\ j + 1 \in 0 .. Len(Chunks(Latest)) /\ h \in Seq(Cells)
             /\ Tail(queue) = SubSeq(Chunks(Latest), j + 1 + 1, Len(Chunks(Latest)))
             /\ Sent(j + 1) = Sent(j) \o h
             /\ Len(Sent(j + 1)) = Len(Sent(j)) + Len(h) /\ Len(h) \in Nat
             /\ Len(Sent(j + 1)) <= Len(b)
             /\ Len(Sent(j + 1)) = Len(b) => Sent(j + 1) = b
  BY <1>2, <1>3, <1>5, GathersIs
<1> HIDE DEF h, b
<1>6. CASE Empty
  <2>1. /\ WriteCall(buf) /\ buf # <<>> /\ queue' = queue
        /\ queue # <<>> => Len(h) > Capacity - Len(buf)
    BY <1>6 DEF Empty, Emptying, Spare, h
  <2>2. buf = Sent(j)
    BY <1>3, <2>1
  <2>3. queue = <<>>
    <3> SUFFICES ASSUME queue # <<>> PROVE FALSE
      OBVIOUS
    <3>1. Len(h) > Capacity - Len(Sent(j)) /\ Len(Sent(j)) \in Nat
      BY <1>4, <2>1, <2>2
    <3> QED
      BY <1>4, <1>5, <3>1
  <2>4. buf = b
    BY <1>4, <2>2, <2>3
  <2>5. file' = file \o b /\ Appending'
    BY <1>2, <2>1, <2>4, WriteCallIs
  <2>6. Sent(j) = Bytes(Latest)
    BY <2>2, <2>4 DEF b
  <2>7. LInv'
    BY <1>1, <1>3, <2>1, <2>5, <2>6, GathersOn
  <2> QED
    BY <1>1, <1>4, <2>5, <2>7 DEF b
<1>7. CASE PassOn
  <2>1. /\ WriteCall(h) /\ buf = <<>> /\ queue # <<>> /\ queue' = Tail(queue)
        /\ Len(h) >= Capacity
    BY <1>7 DEF PassOn, PassingOn, h
  <2>2. Len(Sent(j)) \in Nat
    BY <1>4
  <2>3. Len(Sent(j)) = 0 /\ Len(Sent(j + 1)) = Len(b)
    BY <1>4, <1>5, <2>1, <2>2
  <2>4. Sent(j) = <<>> /\ Sent(j + 1) = b
    BY <1>4, <1>5, <2>1, <2>3, EmptySeq
  <2>5. h = b
    BY <1>5, <2>1, <2>4, ConcatEmptySeq
  <2>6. file' = file \o b /\ Appending'
    BY <1>2, <1>4, <2>1, <2>5, WriteCallIs
  <2>7. LInv'
    BY <1>1, <1>5, <2>1, <2>4, <2>6, GathersOn DEF b
  <2> QED
    BY <1>1, <1>4, <2>6, <2>7 DEF b
<1> QED
  BY <1>6, <1>7

LEMMA StartGathers ==
  ASSUME WInv, LInv, TypeOK', [Next]_vars, NEW r \in scenario.records, Start(r)
  PROVE  LInv'
<1>1. /\ pc = "idle" /\ pc' = "put" /\ queue' = Chunks(r)
      /\ log' = Append(log, [record |-> r, acked |-> FALSE])
      /\ file' = file /\ buf' = buf /\ at' = at
  BY DEF Start
<1>2. TypeOK /\ log \in History /\ buf = <<>> /\ Appending /\ scenario' = scenario
  BY <1>1, WInvTypes, SameScenario DEF WInv, LInv
<1>3. r \in Records
  BY <1>2, ScenariosAssumption DEF TypeOK
<1>4. Latest' = r
  <2>1. [record |-> r, acked |-> FALSE] \in Event
    BY <1>3 DEF Event
  <2>2. Len(log') = Len(log) + 1 /\ log'[Len(log) + 1] = [record |-> r, acked |-> FALSE]
    BY <1>1, <1>2, <2>1, AppendProperties DEF History
  <2> QED
    BY <2>2 DEF Latest
<1>5. Chunks(r) \in Seq(Seq(Cells)) /\ Len(Chunks(r)) \in Nat
  BY <1>3, ChunksCells, LenProperties
<1>6. 0 \in 0 .. Len(Chunks(r)) /\ SubSeq(Chunks(r), 0 + 1, Len(Chunks(r))) = Chunks(r)
      /\ FlattenSeq(SubSeq(Chunks(r), 1, 0)) = <<>>
  <2>1. 0 \in 0 .. Len(Chunks(r)) /\ SubSeq(Chunks(r), 1, Len(Chunks(r))) = Chunks(r)
    BY <1>5, SubSeqFull
  <2> QED
    BY <1>3, <2>1, SentIs
<1>7. Gathers'
  BY <1>1, <1>2, <1>4, <1>6 DEF Gathers, Sent
<1>8. Appending'
  BY <1>1, <1>2 DEF Appending
<1> QED
  BY <1>1, <1>2, <1>4, <1>7, <1>8 DEF LInv

\* The remaining steps leave the buffer empty and the handle at the end.
LEMMA LInvStep ==
  ASSUME WInv, LInv, Layered, TypeOK', [Next]_vars
  PROVE  LInv'
<1>1. OneCall /\ ~WriteFails /\ ~ClearSyncFails
  BY DEF Layered, WriteFails, ClearSyncFails, Fail
<1>2. CASE UNCHANGED vars
  BY <1>2 DEF vars, LInv, Gathers, Appending, Latest, Sent
<1>3. ASSUME NEW r \in scenario.records, Start(r) PROVE LInv'
  BY <1>3, StartGathers
<1>4. CASE Buffer
  BY <1>1, <1>4, BufferGathers
<1>5. CASE Empty \/ PassOn
  BY <1>1, <1>5, GoesOut
<1>6. CASE Sync \/ SyncFails \/ TruncateFails \/ Open
  BY <1>6 DEF Sync, SyncFails, TruncateFails, Open, LInv, Appending
<1>7. CASE Truncate
  BY <1>7 DEF Truncate, LInv
<1>8. CASE ClearSync
  <2>1. file = <<>> /\ buf = <<>> /\ file' = Written(at, buf) /\ at' = 0 /\ buf' = <<>> /\ pc' = "idle"
    BY <1>8 DEF ClearSync, WInv, CutIsEmpty, LInv
  <2>2. file' = <<>>
    BY <2>1, WInvTypes, WrittenIs DEF WInv
  <2>3. Len(<<>>) = 0
    BY EmptySeq
  <2> QED
    BY <2>1, <2>2, <2>3 DEF LInv, Appending
<1>9. CASE Close \/ Kill \/ PowerLoss
  BY <1>9 DEF Close, Kill, PowerLoss, WriterLost, OpenedAt, LInv, Appending
<1> QED
  BY <1>1, <1>2, <1>3, <1>4, <1>5, <1>6, <1>7, <1>8, <1>9 DEF Next

LEMMA LayeredInductive == Spec => [](WInv /\ LayeredInv)
<1>1. Init => WInv /\ LayeredInv
  <2>1. Init => LInv
    BY DEF Init, LInv, Appending
  <2> QED
    BY <2>1, InitWInv DEF LayeredInv
<1>2. WInv /\ LayeredInv /\ [Next]_vars => (WInv /\ LayeredInv)'
  <2> SUFFICES ASSUME WInv, LayeredInv, [Next]_vars PROVE (WInv /\ LayeredInv)'
    OBVIOUS
  <2>1. WInv' /\ TypeOK'
    BY WInvStep DEF WInv
  <2>2. ASSUME Layered' PROVE LInv'
    BY <2>1, <2>2, SameLayered, LInvStep DEF LayeredInv
  <2> QED
    BY <2>1, <2>2 DEF LayeredInv
<1> QED
  BY <1>1, <1>2, PTL DEF Spec

-----------------------------------------------------------------------------
(* Each step on the bytes is one on the layer *)

\* A record behind a sound end is one more of the layer.
LEMMA WritesLayer ==
  ASSUME TypeOK, NEW r \in Records, file' = file \o Bytes(r), disk' = disk, Sound(file)
  PROVE  Layer!Write(r.key, <<r.value>>)
<1> DEFINE now == {<<LayerOf(f), TailOf(f)>> : f \in Outcomes}
           new == <<LayerOf(file'), "clean">>
           broken == {LayerOf(file)} \X Layer!Broken
<1>1. file \in Seq(Cells) /\ disk \in Seq(Cells) /\ Bytes(r) \in Seq(Cells)
  BY WInvTypes, BytesCells
<1>2. /\ Sound(file') /\ LayerOf(file') = [LayerOf(file) EXCEPT ![r.key] = <<r.value>>]
      /\ \A w \in 1 .. Len(Bytes(r)) - 1 :
           LET g == file \o SubSeq(Bytes(r), 1, w)
           IN  LayerOf(g) = LayerOf(file) /\ TailOf(g) \in Layer!Broken
  BY SoundAppends
<1>3. ASSUME NEW g \in Outcomes' PROVE <<LayerOf(g), TailOf(g)>> \in now \cup {new} \cup broken
  <2>1. g \in Outcomes \/ \E w \in 1 .. Len(Bytes(r)) : g = file \o SubSeq(Bytes(r), 1, w)
    <3>1. g \in Parts(disk, file \o Bytes(r))
      BY OutcomesAre
    <3> QED
      BY <1>1, <3>1, OutcomesGrow, OutcomesAre
  <2>2. ASSUME NEW w \in 1 .. Len(Bytes(r)), g = file \o SubSeq(Bytes(r), 1, w)
        PROVE  <<LayerOf(g), TailOf(g)>> \in {new} \cup broken
    <3>1. CASE w = Len(Bytes(r))
      <4>1. g = file'
        BY <1>1, <2>2, <3>1, SubSeqFull
      <4> QED
        BY <1>2, <4>1 DEF Sound
    <3>2. CASE w # Len(Bytes(r))
      <4>1. w \in 1 .. Len(Bytes(r)) - 1
        BY <1>1, <3>2, LenProperties
      <4> QED
        BY <1>2, <2>2, <4>1
    <3> QED
      BY <3>1, <3>2
  <2> QED
    BY <2>1, <2>2
<1>4. {<<LayerOf(f), TailOf(f)>> : f \in Outcomes'} \subseteq now \cup {new} \cup broken
  BY <1>3
<1> HIDE DEF now, broken
<1>5. Layer!Write(r.key, <<r.value>>)
  BY <1>2, <1>4 DEF Layer!Write, Sound, now, broken
<1> QED
  BY <1>5

LEMMA LayerStep ==
  ASSUME WInv, LayeredInv, WInv', [Next]_vars, Layered
  PROVE  UNCHANGED <<file, disk>> \/ Layer!Next
<1>1. LInv /\ OneCall /\ TypeOK /\ TypeOK' /\ file \in Seq(Cells) /\ disk \in Seq(Cells)
      /\ file' \in Seq(Cells) /\ ~WriteFails /\ ~ClearSyncFails
  BY WInvTypes DEF LayeredInv, WInv, Layered, WriteFails, ClearSyncFails, Fail, TypeOK
<1>2. ASSUME NEW r \in scenario.records, Start(r) PROVE UNCHANGED <<file, disk>>
  BY <1>2 DEF Start
<1>3. CASE Buffer \/ SyncFails \/ TruncateFails \/ Kill \/ Open \/ UNCHANGED vars
  BY <1>3 DEF Buffer, SyncFails, TruncateFails, Kill, Open, vars
<1>4. CASE Empty \/ PassOn
  <2>1. Latest \in Records /\ file' = file \o Bytes(Latest) /\ disk' = disk
    BY <1>1, <1>4, GoesOut
  <2>2. CASE Sound(file)
    <3>1. Layer!Write(Latest.key, <<Latest.value>>)
      BY <1>1, <2>1, <2>2, WritesLayer
    <3>2. Latest.key \in Keys /\ <<Latest.value>> \in {<<r.value>> : r \in Records}
      BY <2>1 DEF Records
    <3> QED
      BY <3>1, <3>2 DEF Layer!Next
  <2>3. CASE ~Sound(file)
    <3>1. \A f : TailOf(f) \in {"clean", "cut", "ragged"}
      BY DEF TailOf
    <3>2. TailOf(file) \in Layer!Broken /\ TailOf(file') \in Layer!Ends
      BY <2>3, <3>1 DEF Layer!Broken, Layer!Ends, Sound
    <3> QED
      BY <3>2 DEF Layer!Next, Layer!Behind
  <2> QED
    BY <2>2, <2>3
<1>5. ASSUME disk' = file'
      PROVE  {<<LayerOf(f), TailOf(f)>> : f \in Outcomes'} = {<<LayerOf(file'), TailOf(file')>>}
  <2>1. Outcomes' = {file'}
    BY <1>1, <1>5, AllSynced, OutcomesAre
  <2> QED
    BY <2>1
<1>6. CASE Sync \/ ClearSync
  <2>1. file' = file /\ disk' = file
    <3>1. CASE Sync
      BY <3>1 DEF Sync, SyncedNow
    <3>2. CASE ClearSync
      <4>1. file' = Written(at, buf) /\ disk' = file /\ buf = <<>>
        BY <1>1, <3>2 DEF ClearSync, LInv
      <4> QED
        BY <1>1, <4>1, WInvTypes, WrittenIs
    <3> QED
      BY <1>6, <3>1, <3>2
  <2>2. {<<LayerOf(f), TailOf(f)>> : f \in Outcomes'} = {<<LayerOf(file), TailOf(file)>>}
    BY <1>5, <2>1
  <2>3. Layer!Sync
    BY <2>1, <2>2 DEF Layer!Sync
  <2> QED
    BY <2>3 DEF Layer!Next
<1>7. CASE Truncate
  <2>1. file' = <<>> /\ disk' = disk
    BY <1>7 DEF Truncate, Truncated
  <2>2. Outcomes' \subseteq Outcomes \cup {<<>>}
    <3>1. Outcomes' = Parts(disk, <<>>) /\ disk \in Outcomes
      BY <2>1, OutcomesAre DEF Outcomes
    <3>2. <<>> \in Seq(Cells) /\ Len(<<>>) = 0
      BY EmptySeq
    <3>3. Worst(disk, <<>>) .. Len(<<>>) \subseteq {0}
      <4>1. ASSUME NEW f \in Seq(Cells), Len(f) = 0
            PROVE  Worst(disk, f) .. Len(f) \subseteq {0}
        <5>1. Worst(disk, f) \in 0 .. Len(f)
          BY <1>1, PartsAre
        <5>2. Worst(disk, f) = 0
          BY <4>1, <5>1
        <5> QED
          BY <4>1, <5>2
      <4> QED
        BY <3>2, <4>1
    <3>4. SubSeq(<<>>, 1, 0) = <<>>
      BY SubSeqEmpty
    <3> QED
      BY <3>1, <3>3, <3>4 DEF Parts
  <2>3. LayerOf(file') = Layer!Blank /\ TailOf(file') = "clean"
    BY <2>1, SoundNone DEF Sound
  <2>4. {<<LayerOf(f), TailOf(f)>> : f \in Outcomes'}
          \subseteq {<<LayerOf(f), TailOf(f)>> : f \in Outcomes} \cup {<<Layer!Blank, "clean">>}
    BY <2>1, <2>2, <2>3
  <2>5. Layer!Truncate
    BY <2>3, <2>4 DEF Layer!Truncate
  <2> QED
    BY <2>5 DEF Layer!Next
<1>8. CASE Close
  <2>1. file' = Written(at, buf) /\ disk' = disk /\ buf = <<>>
    BY <1>1, <1>8 DEF Close, LInv
  <2> QED
    BY <1>1, <2>1, WInvTypes, WrittenIs
<1>9. CASE PowerLoss
  <2>1. file' \in Outcomes /\ disk' = file'
    BY <1>9 DEF PowerLoss
  <2>2. <<LayerOf(file'), TailOf(file')>> \in {<<LayerOf(f), TailOf(f)>> : f \in Outcomes}
    BY <2>1
  <2>3. Layer!PowerLoss
    BY <1>5, <2>1, <2>2 DEF Layer!PowerLoss
  <2> QED
    BY <2>3 DEF Layer!Next
<1> QED
  BY <1>1, <1>2, <1>3, <1>4, <1>6, <1>7, <1>8, <1>9 DEF Next

\* Where every record fits in the BufWriter, each step on the bytes, a failing sync
\* or clear, the end of the process and a power loss included, is one on the layer
\* that LsmTree takes the log to be: a put enters it whole, or not at all, or is its
\* broken end; a sync fixes it, a clear empties it; and behind a broken end nothing
\* is promised (wal.rs:31-51, 79-99, 112; lsm.rs:92-99).
THEOREM ImplementsLayer == Spec => ImplementsLogLayer
<1>1. Init => (Layered => Layer!Init)
  <2> SUFFICES ASSUME Init PROVE Layer!Init
    OBVIOUS
  <2>1. file = <<>> /\ disk = <<>> /\ <<>> \in Seq(Cells)
    BY EmptySeq DEF Init
  <2>2. Outcomes = {<<>>}
    BY <2>1, AllSynced, OutcomesAre
  <2>3. LayerOf(file) = Layer!Blank /\ TailOf(file) = "clean"
    BY <2>1, SoundNone DEF Sound
  <2>4. {<<LayerOf(f), TailOf(f)>> : f \in Outcomes} = {<<Layer!Blank, "clean">>}
    BY <2>1, <2>2, <2>3
  <2> QED
    BY <2>3, <2>4 DEF Layer!Init
<1>2. (WInv /\ LayeredInv) /\ (WInv /\ LayeredInv)' /\ [Next]_vars
        => [Layered => UNCHANGED <<file, disk>> \/ Layer!Next \/ UNCHANGED Layer!vars]_vars
  BY LayerStep
<1> QED
  BY <1>1, <1>2, LayeredInductive, PTL DEF Spec, ImplementsLogLayer
================================================================================
