---------------------------- MODULE LsmTreeProofs ----------------------------
(***************************************************************************)
(* Proofs about LsmTree that hold for every set of keys, values and        *)
(* scenarios, every bound on the ids and every memtable capacity.           *)
(***************************************************************************)
EXTENDS LsmTree, OrderingProofs, SequenceTheorems

\* The log file and its handle are tuples of variables; their names are for
\* UNCHANGED only.
USE DEF logFile, handle

Indices(s) == 1 .. Len(s)

(***************************************************************************)
(* The inductive invariant.  Descending(sstables \o old) is taken apart,   *)
(* since most steps touch one of the two sequences only; the phases say    *)
(* what the process knows at each of its system calls.                     *)
(***************************************************************************)
Phases ==
  /\ pc = "down" => sstables = <<>>
  /\ pc \notin {"unlink", "unlink_sync"} => old = <<>>
  /\ pc = "unlink_sync" => old # <<>>
  /\ pc \in {"append", "wal_sync"} => record # NoRecord
  /\ pc \in {"append", "wal_sync", "create", "sync", "rename", "dir_sync"} => nextId < MaxId

\* The table just written is readable, newer than every listed one.
NewTable ==
  /\ pc = "dir_sync" => IsTable(table[nextId])
  /\ pc \in {"truncate", "clear_sync"} =>
       /\ nextId > 0
       /\ IsTable(table[nextId - 1])
       /\ \A n \in Indices(sstables) : sstables[n] < nextId - 1

Ages ==
  /\ Descending(sstables)
  /\ Descending(old)
  /\ \A m \in Indices(sstables), n \in Indices(old) : sstables[m] > old[n]
  /\ \A n \in Indices(sstables) : sstables[n] < nextId
  /\ \A n \in Indices(old) : old[n] < nextId

Whole ==
  /\ pc = "rename" => tmp = "synced"
  /\ \A i \in Ids : table[i] \in tableMay[i] /\ Torn \notin tableMay[i]

IInv == TypeOK /\ Phases /\ NewTable /\ Ages /\ Whole /\ ListedReadable

-----------------------------------------------------------------------------
(* Sequences of ids *)

\* The ids of two lists, one newer than the other, put together.
LEMMA DescendingConcat ==
  ASSUME NEW s \in Seq(Ids), NEW t \in Seq(Ids),
         Descending(s), Descending(t),
         \A m \in Indices(s), n \in Indices(t) : s[m] > t[n]
  PROVE  /\ s \o t \in Seq(Ids)
         /\ Descending(s \o t)
         /\ \A i \in Indices(s \o t) :
              \/ \E m \in Indices(s) : (s \o t)[i] = s[m]
              \/ \E n \in Indices(t) : (s \o t)[i] = t[n]
<1>1. /\ s \o t \in Seq(Ids)
      /\ Len(s \o t) = Len(s) + Len(t)
      /\ \A i \in 1 .. Len(s) + Len(t) :
           (s \o t)[i] = IF i <= Len(s) THEN s[i] ELSE t[i - Len(s)]
  BY ConcatProperties
<1>2. Len(s) \in Nat /\ Len(t) \in Nat
  BY LenProperties
<1>3. \A i \in Indices(s \o t) :
        \/ i \in Indices(s) /\ (s \o t)[i] = s[i]
        \/ i - Len(s) \in Indices(t) /\ i > Len(s) /\ (s \o t)[i] = t[i - Len(s)]
  BY <1>1, <1>2 DEF Indices
<1>4. ASSUME NEW m \in 1 .. Len(s \o t), NEW n \in 1 .. Len(s \o t), m < n
      PROVE  (s \o t)[m] > (s \o t)[n]
  BY <1>1, <1>2, <1>3, <1>4 DEF Descending, Indices
<1> QED
  BY <1>1, <1>3, <1>4 DEF Descending

\* Dropping the last id of a list.
LEMMA FrontLast ==
  ASSUME NEW S, NEW s \in Seq(S), s # <<>>
  PROVE  /\ Front(s) \in Seq(S)
         /\ Len(Front(s)) = Len(s) - 1
         /\ Len(s) \in Nat \ {0}
         /\ \A n \in Indices(Front(s)) : n \in Indices(s) /\ Front(s)[n] = s[n]
         /\ Last(s) \in S
         /\ Last(s) = s[Len(s)]
<1>1. Len(s) \in Nat \ {0}
  BY EmptySeq
<1>2. \A i \in 1 .. Len(s) : s[i] \in S
  BY ElementOfSeq
<1>3. ASSUME NEW n \in Nat, n = Len(s) - 1
      PROVE  /\ SubSeq(s, 1, n) \in Seq(S)
             /\ Len(SubSeq(s, 1, n)) = n
             /\ \A i \in 1 .. n : SubSeq(s, 1, n)[i] = s[i]
  <2>1. \A i \in 1 .. n : s[i] \in S
    BY <1>1, <1>2, <1>3
  <2>2. /\ SubSeq(s, 1, n) \in Seq(S)
        /\ Len(SubSeq(s, 1, n)) = IF 1 <= n THEN n - 1 + 1 ELSE 0
        /\ \A i \in 1 .. n - 1 + 1 : SubSeq(s, 1, n)[i] = s[1 + i - 1]
    BY <2>1, SubSeqProperties
  <2>3. \A i \in 1 .. n : i \in 1 .. n - 1 + 1 /\ 1 + i - 1 = i
    OBVIOUS
  <2>4. \A i \in 1 .. n : SubSeq(s, 1, n)[i] = s[i]
    BY <2>2, <2>3
  <2>5. (IF 1 <= n THEN n - 1 + 1 ELSE 0) = n
    OBVIOUS
  <2> QED
    BY <2>2, <2>4, <2>5
<1>4. Len(s) - 1 \in Nat
  BY <1>1
<1>5. /\ Front(s) \in Seq(S)
      /\ Len(Front(s)) = Len(s) - 1
      /\ \A n \in 1 .. Len(s) - 1 : Front(s)[n] = s[n]
  BY <1>3, <1>4 DEF Front
<1>6. \A n \in Indices(Front(s)) : n \in Indices(s) /\ Front(s)[n] = s[n]
  BY <1>1, <1>5 DEF Indices
<1>7. Last(s) = s[Len(s)] /\ Last(s) \in S
  BY <1>1, <1>2 DEF Last
<1> QED
  BY <1>1, <1>5, <1>6, <1>7

-----------------------------------------------------------------------------
(* Types *)

\* The merge of tables is a layer like any other.
LEMMA MergedType == Merged \in Content
BY DEF Merged, Content, Entries

\* Blank is a layer, and what a read returns of an entry is a result.
LEMMA BlankType == /\ Blank \in Content
                   /\ \A e \in Entries : ToOption(e) \in Results
BY DEF Blank, Content, Entries, ToOption, Results

\* A layer is a table's content, and no table's absence.
LEMMA ContentIsTable == \A f \in Content : IsTable(f) /\ f \in File /\ f # Torn
BY FileAssumption DEF IsTable, File

LEMMA UnsyncedType ==
  ASSUME NEW S, NEW may \in SUBSET S, NEW now \in S
  PROVE  /\ Unsynced(may, now) \in SUBSET S
         /\ now \in Unsynced(may, now)
         /\ \A f \in Unsynced(may, now) : f = now \/ f \in may
BY DEF Unsynced

-----------------------------------------------------------------------------
(* Every step keeps the invariant: one lemma per action that touches more   *)
(* than pc, one step per conjunct.                                          *)

LEMMA InitIInv == Init => IInv
<1> SUFFICES ASSUME Init PROVE IInv
  OBVIOUS
<1>1. TypeOK
  <2>1. NoFile \in File
    BY DEF File
  <2>2. \A k \in Keys : {"None"} \in SUBSET Results
    BY DEF Results
  <2>3. wal \in Content /\ tail \in Ends /\ logMay \subseteq Logs
    BY BlankType DEF Init, Ends, Logs
  <2>4. /\ table \in [Ids -> File] /\ tableMay \in [Ids -> SUBSET File]
        /\ promised \in [Keys -> SUBSET Results]
    BY <2>1, <2>2 DEF Init
  <2>5. /\ walNamed \in BOOLEAN /\ memtable \in Content /\ sstables \in Seq(Ids)
        /\ old \in Seq(Ids) /\ nextId \in 0 .. MaxId /\ failing \in Scenarios
    BY BlankType, MaxIdAssumption, EmptySeq DEF Init
  <2>6. /\ tmp = "none" /\ at = "append" /\ spilled = FALSE /\ pc = "idle"
        /\ op = "none" /\ record = NoRecord /\ reply = "none"
    BY DEF Init
  <2> QED
    BY <2>3, <2>4, <2>5, <2>6 DEF TypeOK
<1>2. Phases /\ NewTable
  BY DEF Init, Phases, NewTable
<1>3. Ages /\ ListedReadable
  <2>1. Len(<<>>) = 0
    BY EmptySeq
  <2> QED
    BY <2>1 DEF Init, Ages, ListedReadable, Descending, Indices
<1>4. Whole
  BY FileAssumption DEF Init, Whole
<1> QED
  BY <1>1, <1>2, <1>3, <1>4 DEF IInv

LEMMA PutIInv ==
  ASSUME IInv, NEW k \in Keys, NEW e \in Writes, Put(k, e)
  PROVE  IInv'
<1>1. TypeOK'
  <2>1. e \in Entries /\ ToOption(e) \in Results
    BY BlankType DEF Writes, Entries
  <2>2. promised' \in [Keys -> SUBSET Results]
    BY <2>1 DEF Put, IInv, TypeOK
  <2> QED
    BY <2>2 DEF Put, disk, IInv, TypeOK
<1>2. Phases' /\ NewTable'
  BY DEF Put, disk, IInv, Phases, NewTable, NoRecord
<1>3. Ages' /\ Whole' /\ ListedReadable'
  BY DEF Put, disk, IInv, Ages, Descending, Indices, Whole, ListedReadable, Phases
<1> QED
  BY <1>1, <1>2, <1>3 DEF IInv

\* Wherever the bytes of a record land, the log stands for some layers and ends.
LEMMA LogTypes ==
  ASSUME TypeOK
  PROVE  /\ Parts \in SUBSET Logs
         /\ Misplaced => wal' \in Content /\ tail' \in Ends /\ logMay' \in SUBSET Logs
         /\ \A w \in Content, t \in Ends :
              <<w, t>> \in Logs /\ Unsynced(logMay, <<w, t>>) \in SUBSET Logs
BY DEF TypeOK, Parts, Misplaced, Unsynced, Logs, Ends

LEMMA WalWriteIInv ==
  ASSUME IInv, WalWrite \/ WalWriteFails
  PROVE  IInv'
<1>1. TypeOK
  BY DEF IInv
<1>2. wal' \in Content /\ tail' \in Ends /\ logMay' \in SUBSET Logs
  <2>1. CASE Misplaced
    BY <1>1, <2>1, LogTypes
  <2>2. CASE WalWrite /\ ~Misplaced
    <3>1. record[1] \in Keys /\ record[2] \in Entries
      BY <2>2 DEF WalWrite, IInv, TypeOK, Phases, Writes, Entries
    <3>2. /\ wal' = [wal EXCEPT ![record[1]] = record[2]] /\ tail' = "clean"
          /\ logMay' = Unsynced(logMay, <<wal', "clean">>) \cup Parts
      BY <2>2 DEF WalWrite
    <3>3. wal' \in Content /\ tail' \in Ends
      BY <1>1, <3>1, <3>2 DEF TypeOK, Content, Ends
    <3>4. "clean" \in Ends
      BY DEF Ends
    <3> QED
      BY <1>1, <3>2, <3>3, <3>4, LogTypes
  <2>3. CASE WalWriteFails /\ ~Misplaced
    <3>1. /\ wal' = wal /\ tail' \in Ends
          /\ logMay' = Unsynced(logMay, <<wal, tail'>>) \cup Parts
      BY <2>3 DEF WalWriteFails
    <3> QED
      BY <1>1, <3>1, LogTypes DEF TypeOK
  <2> QED
    BY <2>1, <2>2, <2>3
<1>3. TypeOK'
  BY <1>2 DEF WalWrite, WalWriteFails, IInv, TypeOK
<1>4. Phases' /\ NewTable'
  BY DEF WalWrite, WalWriteFails, IInv, Phases, NewTable
<1>5. Ages' /\ Whole' /\ ListedReadable'
  BY DEF WalWrite, WalWriteFails, IInv, Ages, Descending, Indices, Whole, ListedReadable,
         Phases
<1> QED
  BY <1>3, <1>4, <1>5 DEF IInv

LEMMA WalSyncIInv ==
  ASSUME IInv, WalSync
  PROVE  IInv'
<1>1. TypeOK'
  <2>1. record[1] \in Keys /\ record[2] \in Writes
    BY DEF WalSync, IInv, TypeOK, Phases
  <2>2. record[2] \in Entries /\ ToOption(record[2]) \in Results
    BY <2>1, BlankType DEF Writes, Entries
  <2>3. memtable' \in Content
    BY <2>1, <2>2 DEF WalSync, IInv, TypeOK, Content
  <2>4. promised' \in [Keys -> SUBSET Results]
    BY <2>1, <2>2 DEF WalSync, IInv, TypeOK
  <2>5. /\ pc' \in {"create", "idle"}
        /\ op' \in {"none", "flush", "compact"}
        /\ reply' \in {"none", "pending", "ok", "error"}
    BY DEF WalSync, IInv, TypeOK
  <2>6. logMay' \in SUBSET Logs
    BY DEF WalSync, IInv, TypeOK, Logs
  <2> QED
    BY <2>3, <2>4, <2>5, <2>6 DEF WalSync, IInv, TypeOK
<1>2. Phases' /\ NewTable'
  BY DEF WalSync, IInv, Phases, NewTable
<1>3. Ages' /\ Whole' /\ ListedReadable'
  BY DEF WalSync, IInv, Ages, Descending, Indices, Whole, ListedReadable, Phases
<1> QED
  BY <1>1, <1>2, <1>3 DEF IInv

\* The steps that move pc and op, and settle at most tmp.
LEMMA QuietIInv ==
  ASSUME IInv,
         \/ WalSyncFails \/ Flush \/ Compact \/ CreateTmp \/ SyncTmp
         \/ WriteSortedFails \/ ClearFails \/ CompactDone \/ OpenFails
  PROVE  IInv'
<1> USE DEF disk, memory, WalSyncFails, Flush, Compact, CreateTmp, SyncTmp,
            WriteSortedFails, ClearFails, CompactDone, OpenFails, Answered
<1>1. TypeOK'
  BY DEF IInv, TypeOK
<1>2. Phases' /\ NewTable'
  BY DEF IInv, Phases, NewTable
<1>3. Ages'
  BY DEF IInv, Ages, Descending, Indices
<1>4. Whole' /\ ListedReadable'
  BY DEF IInv, Whole, ListedReadable, Phases
<1> QED
  BY <1>1, <1>2, <1>3, <1>4 DEF IInv

LEMMA RenameIInv ==
  ASSUME IInv, Rename
  PROVE  IInv'
<1>1. nextId \in Ids
  BY MaxIdAssumption DEF Rename, IInv, TypeOK, Phases, Ids
<1>2. Output \in Content
  BY MergedType DEF Output, IInv, TypeOK
<1>3. Output \in File /\ IsTable(Output) /\ Output # Torn
  BY <1>2, ContentIsTable
<1>4. tmp # "dirty"
  BY DEF Rename, IInv, Whole
<1>5. tableMay' = [tableMay EXCEPT ![nextId] = Unsynced(tableMay[nextId], Output)]
  BY <1>4 DEF Rename
<1>6. tableMay[nextId] \in SUBSET File
  BY <1>1 DEF IInv, TypeOK
<1>7. TypeOK'
  <2>1. table' \in [Ids -> File]
    BY <1>1, <1>3 DEF Rename, IInv, TypeOK
  <2>2. Unsynced(tableMay[nextId], Output) \in SUBSET File
    BY <1>3, <1>6, UnsyncedType
  <2>3. tableMay' \in [Ids -> SUBSET File]
    BY <1>1, <1>5, <2>2 DEF IInv, TypeOK
  <2> QED
    BY <2>1, <2>3 DEF Rename, memory, IInv, TypeOK
<1>8. Phases' /\ NewTable'
  <2>1. table'[nextId] = Output
    BY <1>1 DEF Rename, IInv, TypeOK
  <2> QED
    BY <1>3, <2>1 DEF Rename, memory, IInv, Phases, NewTable
<1>9. Ages'
  BY DEF Rename, memory, IInv, Ages, Descending, Indices
<1>10. ListedReadable'
  <2>1. \A i \in Ids : i # nextId => table'[i] = table[i]
    BY DEF Rename, IInv, TypeOK
  <2>2. \A n \in 1 .. Len(sstables) : sstables[n] \in Ids /\ sstables[n] # nextId
    <3>1. \A n \in 1 .. Len(sstables) : sstables[n] \in Ids /\ sstables[n] < nextId
      BY DEF IInv, TypeOK, Ages, Indices
    <3> QED
      BY <1>1, <3>1 DEF Ids
  <2>3. old = <<>> /\ Len(<<>>) = 0
    BY DEF Rename, IInv, Phases
  <2> QED
    BY <2>1, <2>2, <2>3 DEF Rename, memory, IInv, ListedReadable
<1>11. Whole'
  <2>1. ASSUME NEW i \in Ids
        PROVE  table'[i] \in tableMay'[i] /\ Torn \notin tableMay'[i]
    <3>1. CASE i = nextId
      <4>1. table'[i] = Output /\ tableMay'[i] = Unsynced(tableMay[i], Output)
        BY <1>1, <1>5, <3>1 DEF Rename, IInv, TypeOK
      <4>2. \A f \in Unsynced(tableMay[i], Output) : f = Output \/ f \in tableMay[i]
        BY DEF Unsynced
      <4> QED
        BY <4>1, <4>2, <1>3 DEF Unsynced, IInv, Whole
    <3>2. CASE i # nextId
      BY <1>5, <3>2 DEF Rename, IInv, TypeOK, Whole
    <3> QED
      BY <3>1, <3>2
  <2> QED
    BY <2>1 DEF Rename, Whole
<1> QED
  BY <1>7, <1>8, <1>9, <1>10, <1>11 DEF IInv

\* A directory sync settles every table as it stands.
LEMMA DirectorySyncedWhole ==
  ASSUME IInv, DirectorySynced, UNCHANGED table
  PROVE  /\ tableMay' \in [Ids -> SUBSET File] /\ walNamed' \in BOOLEAN
         /\ \A i \in Ids : table'[i] \in tableMay'[i] /\ Torn \notin tableMay'[i]
<1>1. \A i \in Ids : table[i] \in File /\ table[i] # Torn
  BY DEF IInv, TypeOK, Whole
<1> QED
  BY <1>1 DEF DirectorySynced

LEMMA FlushDirSyncIInv ==
  ASSUME IInv, FlushDirSync
  PROVE  IInv'
<1>1. nextId + 1 \in 0 .. MaxId /\ nextId \in 0 .. MaxId
  BY MaxIdAssumption DEF FlushDirSync, IInv, TypeOK, Phases
<1>2. TypeOK' /\ Whole'
  BY <1>1, DirectorySyncedWhole DEF FlushDirSync, IInv, TypeOK, Whole
<1>3. Phases'
  BY DEF FlushDirSync, IInv, Phases
<1>4. NewTable'
  <2>1. \A n \in Indices(sstables) : sstables[n] < nextId
    BY DEF IInv, Ages
  <2> QED
    BY <1>1, <2>1 DEF FlushDirSync, IInv, NewTable, Indices
<1>5. Ages'
  <2>1. /\ \A n \in Indices(sstables) : sstables[n] \in Ids
        /\ \A n \in Indices(old) : old[n] \in Ids
    BY DEF IInv, TypeOK, Indices
  <2> QED
    BY <1>1, <2>1 DEF FlushDirSync, IInv, Ages, Descending, Indices, Ids
<1>6. ListedReadable'
  BY DEF FlushDirSync, IInv, ListedReadable, Phases
<1> QED
  BY <1>2, <1>3, <1>4, <1>5, <1>6 DEF IInv

LEMMA CompactDirSyncIInv ==
  ASSUME IInv, CompactDirSync
  PROVE  IInv'
<1>1. nextId + 1 \in 0 .. MaxId /\ nextId \in Ids
  BY MaxIdAssumption DEF CompactDirSync, IInv, TypeOK, Phases, Ids
<1>2. /\ sstables' = <<nextId>> /\ old' = sstables
      /\ sstables' \in Seq(Ids) /\ Len(sstables') = 1 /\ sstables'[1] = nextId
  BY <1>1 DEF CompactDirSync, Replaced
<1>3. TypeOK' /\ Whole'
  BY <1>1, <1>2, DirectorySyncedWhole DEF CompactDirSync, IInv, TypeOK, Whole
<1>4. Phases' /\ NewTable'
  BY DEF CompactDirSync, IInv, Phases, NewTable
<1>5. Ages'
  <2>1. \A n \in Indices(sstables) : sstables[n] \in Ids
    BY DEF IInv, TypeOK, Indices
  <2> QED
    BY <1>1, <1>2, <2>1 DEF CompactDirSync, IInv, Ages, Descending, Indices, Ids
<1>6. ListedReadable'
  BY <1>1, <1>2 DEF CompactDirSync, IInv, ListedReadable, NewTable
<1> QED
  BY <1>3, <1>4, <1>5, <1>6 DEF IInv

LEMMA TruncateIInv ==
  ASSUME IInv, Truncate
  PROVE  IInv'
<1>1. TypeOK'
  <2>1. "clean" \in Ends
    BY DEF Ends
  <2>2. logMay' \in SUBSET Logs
    BY <2>1, BlankType, LogTypes DEF Truncate, IInv
  <2> QED
    BY <2>1, <2>2, BlankType DEF Truncate, memory, IInv, TypeOK
<1>2. Phases' /\ NewTable' /\ Whole' /\ ListedReadable'
  BY DEF Truncate, memory, IInv, Phases, NewTable, Whole, ListedReadable
<1>3. Ages'
  BY DEF Truncate, memory, IInv, Ages, Descending, Indices
<1> QED
  BY <1>1, <1>2, <1>3 DEF IInv

LEMMA ClearSyncIInv ==
  ASSUME IInv, ClearSync
  PROVE  IInv'
<1>1. /\ nextId - 1 \in Ids
      /\ IsTable(table[nextId - 1])
      /\ \A n \in Indices(sstables) : sstables[n] < nextId - 1
  BY MaxIdAssumption DEF ClearSync, IInv, TypeOK, NewTable, Ids
<1> DEFINE new == <<nextId - 1>>
<1>2. new \in Seq(Ids) /\ Len(new) = 1 /\ new[1] = nextId - 1
  BY <1>1
<1>3. sstables \in Seq(Ids) /\ Descending(sstables) /\ Len(sstables) \in Nat
  BY DEF IInv, TypeOK, Ages
<1>4. \A n \in Indices(sstables) : sstables[n] \in Ids
  BY DEF IInv, TypeOK, Indices
<1>5. \A m \in Indices(new), n \in Indices(sstables) : new[m] > sstables[n]
  BY <1>1, <1>2, <1>4 DEF Indices, Ids
<1>6. sstables' = new \o sstables /\ old' = old /\ old = <<>>
  BY DEF ClearSync, WithNewTable, IInv, Phases
<1>7. Descending(new)
  BY <1>2 DEF Descending
<1> HIDE DEF new
<1>8. /\ sstables' \in Seq(Ids)
      /\ Descending(sstables')
      /\ \A i \in Indices(sstables') :
           \/ \E m \in Indices(new) : sstables'[i] = new[m]
           \/ \E n \in Indices(sstables) : sstables'[i] = sstables[n]
  BY <1>2, <1>3, <1>5, <1>6, <1>7, DescendingConcat
<1>9. \A i \in Indices(sstables') :
        /\ sstables'[i] \in Ids /\ sstables'[i] < nextId
        /\ IsTable(table[sstables'[i]])
  <2>1. \A n \in Indices(sstables) : IsTable(table[sstables[n]])
    BY DEF IInv, ListedReadable, Indices
  <2>2. nextId \in Int
    BY DEF IInv, TypeOK
  <2>3. \A m \in Indices(new) :
          new[m] \in Ids /\ new[m] < nextId /\ IsTable(table[new[m]])
    BY <1>1, <1>2, <2>2 DEF Indices
  <2>4. \A n \in Indices(sstables) : sstables[n] < nextId
    BY DEF IInv, Ages
  <2> QED
    BY <1>4, <1>8, <2>1, <2>3, <2>4
<1>10. TypeOK'
  <2>1. wal' \in Content /\ tail' \in Ends /\ logMay' \in SUBSET Logs
    BY LogTypes DEF ClearSync, IInv, TypeOK, Logs
  <2>2. at' \in {"append", "offset", "astray"} /\ reply' \in {"none", "pending", "ok", "error"}
    BY DEF ClearSync, Answered, IInv, TypeOK
  <2> QED
    BY <1>8, <2>1, <2>2, BlankType DEF ClearSync, IInv, TypeOK
<1>11. Phases' /\ NewTable' /\ Whole'
  BY <1>6 DEF ClearSync, IInv, Phases, NewTable, Whole
<1>12. Ages' /\ ListedReadable'
  <2>1. Len(<<>>) = 0 /\ Indices(<<>>) = {} /\ Descending(<<>>)
    BY DEF Indices, Descending
  <2> QED
    BY <1>6, <1>8, <1>9, <2>1 DEF ClearSync, Ages, ListedReadable, Indices
<1> QED
  BY <1>10, <1>11, <1>12 DEF IInv

LEMMA CompactToNothingIInv ==
  ASSUME IInv, CompactToNothing
  PROVE  IInv'
<1>1. sstables' = <<>> /\ old' = sstables /\ sstables' \in Seq(Ids) /\ Len(sstables') = 0
  BY DEF CompactToNothing, Replaced
<1>2. TypeOK' /\ Whole'
  BY <1>1 DEF CompactToNothing, disk, IInv, TypeOK, Whole
<1>3. Phases' /\ NewTable'
  BY <1>1 DEF CompactToNothing, disk, IInv, Phases, NewTable
<1>4. Ages' /\ ListedReadable'
  BY <1>1 DEF CompactToNothing, disk, IInv, Ages, Descending, Indices, ListedReadable
<1> QED
  BY <1>2, <1>3, <1>4 DEF IInv

LEMMA UnlinkIInv ==
  ASSUME IInv, Unlink
  PROVE  IInv'
<1>1. /\ Len(old) \in Nat \ {0} /\ Last(old) = old[Len(old)] /\ Last(old) \in Ids
  BY FrontLast DEF Unlink, IInv, TypeOK
<1>2. NoFile \in File /\ NoFile # Torn
  BY FileAssumption DEF File
<1>3. tableMay[Last(old)] \in SUBSET File
  BY <1>1 DEF IInv, TypeOK
<1>4. TypeOK'
  <2>1. table' \in [Ids -> File]
    BY <1>1, <1>2 DEF Unlink, IInv, TypeOK
  <2>2. Unsynced(tableMay[Last(old)], NoFile) \in SUBSET File
    BY <1>2, <1>3, UnsyncedType
  <2>3. tableMay' \in [Ids -> SUBSET File]
    BY <1>1, <2>2 DEF Unlink, IInv, TypeOK
  <2> QED
    BY <2>1, <2>3 DEF Unlink, memory, IInv, TypeOK
<1>5. Phases' /\ NewTable'
  BY DEF Unlink, memory, IInv, Phases, NewTable
<1>6. Ages'
  BY DEF Unlink, memory, IInv, Ages, Descending, Indices
<1>7. ListedReadable'
  <2>1. \A i \in Ids : i # Last(old) => table'[i] = table[i]
    BY DEF Unlink, IInv, TypeOK
  <2>2. \A n \in Indices(sstables) : sstables[n] \in Ids /\ sstables[n] # Last(old)
    <3>1. \A n \in Indices(sstables) : sstables[n] \in Ids /\ sstables[n] > Last(old)
      BY <1>1 DEF IInv, TypeOK, Ages, Indices
    <3> QED
      BY <1>1, <3>1 DEF Ids
  <2>3. \A n \in Indices(old) : n < Len(old) => old[n] \in Ids /\ old[n] # Last(old)
    <3>1. \A n \in Indices(old) : n < Len(old) => old[n] \in Ids /\ old[n] > Last(old)
      BY <1>1 DEF IInv, TypeOK, Ages, Indices, Descending
    <3> QED
      BY <1>1, <3>1 DEF Ids
  <2> QED
    BY <2>1, <2>2, <2>3 DEF Unlink, memory, IInv, ListedReadable, Indices
<1>8. Whole'
  <2>1. ASSUME NEW i \in Ids
        PROVE  table'[i] \in tableMay'[i] /\ Torn \notin tableMay'[i]
    <3>1. CASE i = Last(old)
      <4>1. table'[i] = NoFile /\ tableMay'[i] = Unsynced(tableMay[i], NoFile)
        BY <1>1, <3>1 DEF Unlink, IInv, TypeOK
      <4> QED
        BY <4>1, <1>2 DEF Unsynced, IInv, Whole
    <3>2. CASE i # Last(old)
      BY <3>2 DEF Unlink, IInv, TypeOK, Whole
    <3> QED
      BY <3>1, <3>2
  <2> QED
    BY <2>1 DEF Unlink, Whole
<1> QED
  BY <1>4, <1>5, <1>6, <1>7, <1>8 DEF IInv

\* A prefix of the tables to unlink, served again behind those already open.
LEMMA RelistedIInv ==
  ASSUME IInv,
         NEW kept \in Seq(Ids), Len(kept) <= Len(old),
         \A n \in Indices(kept) : kept[n] = old[n] /\ IsTable(table[kept[n]]),
         pc \in {"unlink", "unlink_sync"},
         sstables' = sstables \o kept,
         old' = <<>>,
         pc' = "idle", op' = "none",
         UNCHANGED <<disk, record, memtable, nextId, handle, reply, promised, failing>>
  PROVE  IInv'
<1>1. /\ sstables \in Seq(Ids) /\ old \in Seq(Ids) /\ Len(sstables) \in Nat
      /\ Len(old) \in Nat /\ Len(kept) \in Nat
  BY DEF IInv, TypeOK
<1>2. \A n \in Indices(kept) : n \in Indices(old)
  BY <1>1 DEF Indices
<1>3. Descending(kept)
  <2> SUFFICES ASSUME NEW m \in 1 .. Len(kept), NEW n \in 1 .. Len(kept), m < n
               PROVE  kept[m] > kept[n]
    BY DEF Descending
  <2>1. m \in 1 .. Len(old) /\ n \in 1 .. Len(old)
    BY <1>2 DEF Indices
  <2>2. old[m] > old[n]
    BY <2>1 DEF IInv, Ages, Descending
  <2> QED
    BY <2>2 DEF Indices
<1>4. \A m \in Indices(sstables), n \in Indices(kept) : sstables[m] > kept[n]
  BY <1>2 DEF IInv, Ages
<1>5. /\ sstables' \in Seq(Ids)
      /\ Descending(sstables')
      /\ \A i \in Indices(sstables') :
           \/ \E m \in Indices(sstables) : sstables'[i] = sstables[m]
           \/ \E n \in Indices(kept) : sstables'[i] = kept[n]
  <2>1. Descending(sstables)
    BY DEF IInv, Ages
  <2>2. LET both == sstables \o kept
        IN  /\ both \in Seq(Ids)
            /\ Descending(both)
            /\ \A i \in Indices(both) :
                 \/ \E m \in Indices(sstables) : both[i] = sstables[m]
                 \/ \E n \in Indices(kept) : both[i] = kept[n]
    BY <1>1, <1>3, <1>4, <2>1, DescendingConcat
  <2> QED
    BY <2>2
<1>6. \A i \in Indices(sstables') :
        sstables'[i] < nextId /\ IsTable(table[sstables'[i]])
  <2>1. \A n \in Indices(sstables) :
          sstables[n] < nextId /\ IsTable(table[sstables[n]])
    BY DEF IInv, Ages, ListedReadable, Indices
  <2>2. \A n \in Indices(kept) : kept[n] < nextId /\ IsTable(table[kept[n]])
    BY <1>2 DEF IInv, Ages
  <2> QED
    BY <1>5, <2>1, <2>2
<1>7. TypeOK' /\ Phases' /\ NewTable' /\ Whole'
  BY <1>5 DEF disk, IInv, TypeOK, Phases, NewTable, Whole
<1>8. Ages' /\ ListedReadable'
  <2>1. Len(<<>>) = 0 /\ Indices(<<>>) = {} /\ Descending(<<>>)
    BY DEF Indices, Descending
  <2> QED
    BY <1>5, <1>6, <2>1 DEF disk, Ages, ListedReadable, Indices
<1> QED
  BY <1>7, <1>8 DEF IInv

LEMMA UnlinkFailsIInv ==
  ASSUME IInv, UnlinkFails \/ UnlinkSyncFails
  PROVE  IInv'
<1>1. CASE UnlinkFails
  <2>1. \A n \in Indices(old) : IsTable(table[old[n]])
    BY <1>1 DEF UnlinkFails, IInv, ListedReadable, Indices
  <2>2. old \in Seq(Ids) /\ Len(old) <= Len(old)
    BY DEF IInv, TypeOK
  <2> QED
    BY <1>1, <2>1, <2>2, RelistedIInv DEF UnlinkFails
<1>2. CASE UnlinkSyncFails
  <2>1. old # <<>> /\ old \in Seq(Ids)
    BY <1>2 DEF UnlinkSyncFails, IInv, TypeOK, Phases
  <2>2. /\ Rest \in Seq(Ids) /\ Len(Rest) = Len(old) - 1 /\ Len(old) \in Nat \ {0}
        /\ \A n \in Indices(Rest) : n \in Indices(old) /\ Rest[n] = old[n]
    BY <2>1, FrontLast DEF Rest
  <2>3. Len(Rest) <= Len(old)
    BY <2>2
  <2>4. \A n \in Indices(Rest) : IsTable(table[Rest[n]])
    BY <1>2, <2>2 DEF IInv, ListedReadable, Indices
  <2> QED
    BY <1>2, <2>2, <2>3, <2>4, RelistedIInv DEF UnlinkSyncFails
<1> QED
  BY <1>1, <1>2

LEMMA UnlinkSyncIInv ==
  ASSUME IInv, UnlinkSync
  PROVE  IInv'
<1>1. old # <<>> /\ old \in Seq(Ids)
  BY DEF UnlinkSync, IInv, TypeOK, Phases
<1>2. /\ Rest \in Seq(Ids) /\ Len(Rest) = Len(old) - 1 /\ Len(old) \in Nat \ {0}
      /\ \A n \in Indices(Rest) : n \in Indices(old) /\ Rest[n] = old[n]
  BY <1>1, FrontLast DEF Rest
<1>3. TypeOK' /\ Whole'
  BY <1>2, DirectorySyncedWhole DEF UnlinkSync, IInv, TypeOK, Whole
<1>4. Phases' /\ NewTable'
  BY DEF UnlinkSync, IInv, Phases, NewTable
<1>5. Ages'
  <2>1. Descending(Rest)
    <3> SUFFICES ASSUME NEW m \in 1 .. Len(Rest), NEW n \in 1 .. Len(Rest), m < n
                 PROVE  Rest[m] > Rest[n]
      BY DEF Descending
    <3>1. /\ m \in 1 .. Len(old) /\ n \in 1 .. Len(old)
          /\ Rest[m] = old[m] /\ Rest[n] = old[n]
      BY <1>2 DEF Indices
    <3> QED
      BY <3>1 DEF IInv, Ages, Descending
  <2>2. /\ \A m \in Indices(sstables), n \in Indices(Rest) : sstables[m] > Rest[n]
        /\ \A n \in Indices(Rest) : Rest[n] < nextId
    BY <1>2 DEF IInv, Ages
  <2> QED
    BY <2>1, <2>2 DEF UnlinkSync, IInv, Ages, Descending, Indices
<1>6. ListedReadable'
  <2>1. \A n \in Indices(Rest) : IsTable(table[Rest[n]])
    BY <1>2 DEF UnlinkSync, IInv, ListedReadable, Indices
  <2> QED
    BY <2>1 DEF UnlinkSync, IInv, ListedReadable, Indices
<1> QED
  BY <1>3, <1>4, <1>5, <1>6 DEF IInv

\* What a death leaves behind satisfies every clause about the memory.
LEMMA MemoryLostIInv ==
  ASSUME IInv, MemoryLost, UNCHANGED promised,
         table' \in [Ids -> File], tableMay' \in [Ids -> SUBSET File],
         tmp' \in {"none", "dirty", "synced"},
         wal' \in Content, tail' \in Ends, logMay' \in SUBSET Logs,
         walNamed' \in BOOLEAN,
         \A i \in Ids : table'[i] \in tableMay'[i] /\ Torn \notin tableMay'[i]
  PROVE  IInv'
<1>1. TypeOK'
  <2>1. /\ pc' = "down" /\ op' = "none" /\ record' = NoRecord /\ memtable' \in Content
        /\ sstables' \in Seq(Ids) /\ old' \in Seq(Ids) /\ nextId' \in 0 .. MaxId
        /\ at' = "append" /\ spilled' = FALSE /\ reply' = "none"
    BY BlankType, MaxIdAssumption, EmptySeq DEF MemoryLost
  <2>2. promised' \in [Keys -> SUBSET Results] /\ failing' \in Scenarios
    BY DEF MemoryLost, IInv, TypeOK
  <2> QED
    BY <2>1, <2>2 DEF TypeOK
<1>2. Phases' /\ NewTable' /\ Whole'
  BY DEF MemoryLost, Phases, NewTable, Whole
<1>3. Ages' /\ ListedReadable'
  <2>1. Len(<<>>) = 0
    BY EmptySeq
  <2> QED
    BY <2>1 DEF MemoryLost, Ages, ListedReadable, Descending, Indices
<1> QED
  BY <1>1, <1>2, <1>3 DEF IInv

LEMMA KillIInv ==
  ASSUME IInv, Kill
  PROVE  IInv'
<1>1. wal' \in Content /\ tail' \in Ends /\ logMay' \in SUBSET Logs
  <2>1. TypeOK /\ "cut" \in Ends
    BY DEF IInv, Ends
  <2>2. CASE UNCHANGED logFile
    BY <2>1, <2>2 DEF TypeOK
  <2>3. CASE Misplaced
    BY <2>1, <2>3, LogTypes
  <2>4. CASE /\ wal' = wal /\ tail' = "cut"
             /\ logMay' = Unsynced(logMay, <<wal, "cut">>) \cup Parts
    BY <2>1, <2>4, LogTypes DEF TypeOK
  <2> QED
    BY <2>2, <2>3, <2>4 DEF Kill
<1> QED
  BY <1>1, MemoryLostIInv DEF Kill, IInv, TypeOK, Whole

LEMMA PowerLossIInv ==
  ASSUME IInv, PowerLoss
  PROVE  IInv'
<1>1. \A i \in Ids : /\ table'[i] \in tableMay[i]
                      /\ tableMay'[i] = {table'[i]}
                      /\ table'[i] \in File
  BY DEF PowerLoss, IInv, TypeOK
<1>2. /\ table' \in [Ids -> File]
      /\ tableMay' \in [Ids -> SUBSET File]
  <2>1. PICK f \in [Ids -> UNION {tableMay[i] : i \in Ids}] :
          table' = f /\ tableMay' = [i \in Ids |-> {f[i]}]
    BY DEF PowerLoss
  <2> QED
    BY <1>1, <2>1
<1>3. wal' \in Content /\ tail' \in Ends /\ logMay' \in SUBSET Logs /\ walNamed' \in BOOLEAN
  <2>1. \A l \in logMay : l[1] \in Content /\ l[2] \in Ends
    BY DEF IInv, TypeOK, Logs
  <2>2. wal' \in Content /\ tail' \in Ends
    BY <2>1, BlankType DEF PowerLoss, Ends
  <2> QED
    <3>1. <<wal', tail'>> \in Logs
      BY <2>2 DEF Logs
    <3> QED
      BY <2>2, <3>1 DEF PowerLoss
<1>4. \A i \in Ids : table'[i] \in tableMay'[i] /\ Torn \notin tableMay'[i]
  BY <1>1 DEF IInv, Whole
<1> QED
  BY <1>2, <1>3, <1>4, MemoryLostIInv DEF PowerLoss

LEMMA OpenIInv ==
  ASSUME IInv, Open
  PROVE  IInv'
<1>1. PICK s \in NewestFirstSeqs(Present) : sstables' = s /\ nextId' = FreshId(s)
  BY DEF Open
<1> DEFINE n == Cardinality(Present)
<1>2. IsFiniteSet(Present) /\ n \in Nat
  <2>1. IsFiniteSet(Ids)
    BY MaxIdAssumption, FS_Interval DEF Ids
  <2>2. Present \subseteq Ids
    BY DEF Present
  <2> QED
    BY <2>1, <2>2, FS_Subset, FS_CardinalityType
<1>3. s \in [1 .. n -> Ids] /\ Descending(s)
  BY <1>1 DEF NewestFirstSeqs, Present
<1>4. s \in Seq(Ids) /\ Len(s) = n
  BY <1>2, <1>3
<1>5. \A i \in Indices(s) : s[i] \in Ids /\ IsTable(table[s[i]])
  <2>1. s \in [1 .. n -> Present]
    BY <1>1 DEF NewestFirstSeqs
  <2>2. \A i \in Indices(s) : s[i] \in Present
    BY <1>4, <2>1 DEF Indices
  <2> QED
    BY <2>2 DEF Present, Open, TablesOpen, IsTable
<1>6. nextId' \in 0 .. MaxId /\ \A i \in Indices(s) : s[i] < nextId'
  <2>1. CASE s = <<>>
    BY <1>1, <2>1, MaxIdAssumption DEF FreshId, Indices
  <2>2. CASE s # <<>>
    <3>1. n > 0 /\ 1 \in Indices(s) /\ nextId' = s[1] + 1
      BY <1>1, <1>2, <1>4, <2>2 DEF FreshId, Indices
    <3>2. \A i \in Indices(s) : i = 1 \/ s[1] > s[i]
      BY <1>3, <3>1 DEF Descending, Indices
    <3> QED
      BY <1>5, <3>1, <3>2, MaxIdAssumption DEF Ids
  <2> QED
    BY <2>1, <2>2
<1>7. old = <<>> /\ Len(<<>>) = 0
  BY DEF Open, IInv, Phases
<1>8. TypeOK'
  BY <1>1, <1>4, <1>6 DEF Open, IInv, TypeOK
<1>9. Phases' /\ NewTable' /\ Whole'
  BY <1>7 DEF Open, IInv, Phases, NewTable, Whole
<1>10. Ages' /\ ListedReadable'
  BY <1>1, <1>3, <1>5, <1>6, <1>7
     DEF Open, Ages, ListedReadable, Descending, Indices
<1> QED
  BY <1>8, <1>9, <1>10 DEF IInv

\* The disjuncts of Next, with what is left unchanged by a stuttering step.
LEMMA NextIInv == IInv /\ [Next]_vars => IInv'
<1> SUFFICES ASSUME IInv, [Next]_vars PROVE IInv'
  OBVIOUS
<1>1. ASSUME NEW k \in Keys, NEW e \in Writes, Put(k, e) PROVE IInv'
  BY <1>1, PutIInv
<1>2. CASE WalWrite \/ WalWriteFails \/ WalSync
  BY <1>2, WalWriteIInv, WalSyncIInv
<1>3. CASE \/ WalSyncFails \/ Flush \/ Compact \/ CreateTmp \/ SyncTmp
           \/ WriteSortedFails \/ ClearFails \/ CompactDone \/ OpenFails
  BY <1>3, QuietIInv
<1>4. CASE Rename
  BY <1>4, RenameIInv
<1>5. CASE FlushDirSync \/ CompactDirSync
  BY <1>5, FlushDirSyncIInv, CompactDirSyncIInv
<1>6. CASE Truncate \/ ClearSync
  BY <1>6, TruncateIInv, ClearSyncIInv
<1>7. CASE CompactToNothing
  BY <1>7, CompactToNothingIInv
<1>8. CASE Unlink \/ UnlinkSync
  BY <1>8, UnlinkIInv, UnlinkSyncIInv
<1>9. CASE UnlinkFails \/ UnlinkSyncFails
  BY <1>9, UnlinkFailsIInv
<1>10. CASE Kill \/ PowerLoss \/ Open
  BY <1>10, KillIInv, PowerLossIInv, OpenIInv
<1>11. CASE UNCHANGED vars
  <2> USE <1>11 DEF vars, disk, memory
  <2>1. TypeOK' /\ Phases' /\ NewTable' /\ Whole' /\ ListedReadable'
    BY DEF IInv, TypeOK, Phases, NewTable, Whole, ListedReadable
  <2>2. Ages'
    BY DEF IInv, Ages, Descending, Indices
  <2> QED
    BY <2>1, <2>2 DEF IInv
<1> QED
  BY <1>1, <1>2, <1>3, <1>4, <1>5, <1>6, <1>7, <1>8, <1>9, <1>10, <1>11
     DEF Next, Step

THEOREM Inductive == Spec => []IInv
<1> QED
  BY InitIInv, NextIInv, PTL DEF Spec

-----------------------------------------------------------------------------
(* What follows for every instance *)

\* Every variable keeps its type, the ids of tables stay below the bound.
THEOREM TypeCorrect == Spec => []TypeOK
<1>1. IInv => TypeOK
  BY DEF IInv
<1> QED
  BY <1>1, Inductive, PTL

\* Whatever fails, every table in use can be read (lsm.rs:223-232).
THEOREM TablesReadable == Spec => []ListedReadable
<1>1. IInv => ListedReadable
  BY DEF IInv
<1> QED
  BY <1>1, Inductive, PTL

\* Whatever fails, reads search the tables from the newest (lsm.rs:17-19, 75).
THEOREM TablesOrdered == Spec => []NewestFirst
<1>1. IInv => NewestFirst
  <2> SUFFICES ASSUME IInv PROVE NewestFirst
    OBVIOUS
  <2>1. sstables \in Seq(Ids) /\ old \in Seq(Ids)
    BY DEF IInv, TypeOK
  <2>2. /\ Descending(sstables) /\ Descending(old)
        /\ \A m \in Indices(sstables), n \in Indices(old) : sstables[m] > old[n]
    BY DEF IInv, Ages
  <2>3. Descending(sstables \o old)
    BY <2>1, <2>2, DescendingConcat
  <2> QED
    BY <2>3 DEF IInv, Ages, NewestFirst, Indices
<1> QED
  BY <1>1, Inductive, PTL

\* No failure leaves a truncated file under a table's name (sstable.rs:55-58).
THEOREM TablesWhole == Spec => []NoTornTable
<1>1. IInv => NoTornTable
  BY DEF IInv, Whole, NoTornTable
<1> QED
  BY <1>1, Inductive, PTL

\* No step of a living process changes a table in use (lsm.rs:17-19, 209-217).
THEOREM TablesImmutable == Spec => LiveTablesImmutable
<1>1. ASSUME IInv, [Next]_vars, NEW n \in 1 .. Len(sstables), pc' # "down"
      PROVE  table'[sstables[n]] = table[sstables[n]]
  <2>1. sstables[n] \in Ids /\ sstables[n] < nextId
    BY <1>1 DEF IInv, TypeOK, Ages, Indices
  <2>2. CASE Rename
    <3>1. sstables[n] # nextId
      BY <2>1 DEF Ids
    <3> QED
      BY <1>1, <2>1, <2>2, <3>1 DEF Rename, IInv, TypeOK
  <2>3. CASE Unlink
    <3>1. old # <<>> /\ old \in Seq(Ids)
      BY <1>1, <2>3 DEF Unlink, IInv, TypeOK
    <3>2. Len(old) \in Nat \ {0} /\ Last(old) = old[Len(old)] /\ Last(old) \in Ids
      BY <3>1, FrontLast
    <3>3. sstables[n] > Last(old)
      BY <1>1, <3>2 DEF IInv, Ages, Indices
    <3>4. sstables[n] # Last(old)
      BY <2>1, <3>2, <3>3 DEF Ids
    <3> QED
      BY <1>1, <2>1, <2>3, <3>2, <3>4 DEF Unlink, IInv, TypeOK
  <2>4. CASE Kill \/ PowerLoss
    BY <1>1, <2>4 DEF Kill, PowerLoss, MemoryLost
  <2>5. CASE ~(Rename \/ Unlink \/ Kill \/ PowerLoss)
    <3>1. table' = table
      BY <1>1, <2>5
         DEF vars, disk, Next, Step, Put, WalWrite, WalWriteFails, WalSync, WalSyncFails,
             Flush, Compact, OpenFails,
             CompactToNothing, CreateTmp, SyncTmp, FlushDirSync, CompactDirSync,
             WriteSortedFails, Truncate, ClearSync, ClearFails, UnlinkFails,
             UnlinkSync, UnlinkSyncFails, CompactDone, Open
    <3> QED
      BY <3>1
  <2> QED
    BY <2>2, <2>3, <2>4, <2>5
<1>2. IInv /\ [Next]_vars =>
        [\A n \in 1 .. Len(sstables) :
           pc' # "down" => table'[sstables[n]] = table[sstables[n]]]_vars
  BY <1>1
<1> QED
  BY <1>2, Inductive, PTL DEF Spec, LiveTablesImmutable

-----------------------------------------------------------------------------
(***************************************************************************)
(* The log.  Where LogKept, every record lands behind a whole one, so that *)
(* what replay makes of the log is known; a cut record ends it only once   *)
(* nobody writes to it any more.                                           *)
(***************************************************************************)
Tidy ==
  LogKept =>
    /\ tail \in {"clean", "cut"}
    /\ pc # "down" => tail = "clean"
    /\ at # "astray" /\ ~spilled
    /\ \A l \in logMay : l[2] \in {"clean", "cut"}

\* No step changes which failures can happen.
LEMMA FailingFixed == [Next]_vars => failing' = failing
BY DEF Next, Step, vars, Put, WalWrite, WalWriteFails, WalSync, WalSyncFails, Flush,
       CreateTmp, SyncTmp, Rename, FlushDirSync, CompactDirSync, WriteSortedFails,
       Truncate, ClearSync, ClearFails, Compact, CompactToNothing, Unlink, UnlinkFails,
       UnlinkSync, UnlinkSyncFails, CompactDone, Kill, PowerLoss, MemoryLost, Open,
       OpenFails

\* A failure in the middle of a record may add a cut end to those that power
\* loss leaves, and no ragged one.
LEMMA TidyParts == LogKept => \A l \in Parts : l[1] = wal /\ l[2] = "cut"
BY DEF LogKept, Parts

LEMMA NextTidy == Tidy /\ [Next]_vars => Tidy'
<1> SUFFICES ASSUME Tidy, [Next]_vars, LogKept' PROVE Tidy'
  BY DEF Tidy
<1>1. failing' = failing /\ LogKept
  BY FailingFixed DEF LogKept
<1>2. /\ tail \in {"clean", "cut"} /\ (pc # "down" => tail = "clean")
      /\ at # "astray" /\ ~spilled /\ \A l \in logMay : l[2] \in {"clean", "cut"}
  BY <1>1 DEF Tidy
<1>3. \A w, t : t \in {"clean", "cut"} =>
        \A l \in Unsynced(logMay, <<w, t>>) : l[2] \in {"clean", "cut"}
  BY <1>2 DEF Unsynced
<1>4. CASE WalWrite
  <2>1. InPlace
    BY <1>2, <1>4 DEF WalWrite, InPlace
  <2>2. /\ tail' = "clean" /\ at' = at /\ spilled' = FALSE
        /\ logMay' = Unsynced(logMay, <<wal', "clean">>) \cup Parts
    BY <1>4, <2>1 DEF WalWrite
  <2> QED
    BY <1>1, <1>2, <1>3, <2>2, TidyParts DEF Tidy
<1>5. CASE WalWriteFails
  BY <1>1, <1>5 DEF WalWriteFails, LogKept
<1>6. CASE WalSync
  BY <1>2, <1>6 DEF WalSync, Tidy
<1>7. CASE Truncate
  BY <1>2, <1>3, <1>7 DEF Truncate, memory, Tidy
<1>8. CASE ClearSync
  BY <1>2, <1>8 DEF ClearSync, Tidy
<1>9. CASE ClearFails
  BY <1>1, <1>2, <1>9 DEF ClearFails, disk, Tidy, LogKept
<1>10. CASE Kill
  <2>1. /\ ~(pc = "idle" /\ spilled)
        /\ pc = "append" => InPlace
    BY <1>2 DEF InPlace
  <2>2. \/ UNCHANGED logFile
        \/ tail' = "cut" /\ logMay' = Unsynced(logMay, <<wal, "cut">>) \cup Parts
    BY <1>10, <2>1 DEF Kill
  <2>3. tail' \in {"clean", "cut"} /\ \A l \in logMay' : l[2] \in {"clean", "cut"}
    BY <1>1, <1>2, <1>3, <2>2, TidyParts
  <2> QED
    BY <1>10, <2>3 DEF Kill, MemoryLost, Tidy
<1>11. CASE PowerLoss
  BY <1>2, <1>11 DEF PowerLoss, MemoryLost, Tidy
<1>12. CASE Open
  BY <1>2, <1>12 DEF Open, Tidy
<1>13. CASE \/ \E k \in Keys, e \in Writes : Put(k, e)
            \/ Flush \/ Compact \/ CompactToNothing \/ WalSyncFails \/ CreateTmp
            \/ SyncTmp \/ Rename \/ FlushDirSync \/ CompactDirSync \/ WriteSortedFails
            \/ Unlink \/ UnlinkFails \/ UnlinkSync \/ UnlinkSyncFails \/ CompactDone
            \/ OpenFails \/ UNCHANGED vars
  <2>1. UNCHANGED <<tail, logMay, at, spilled>>
    BY <1>13 DEF vars, disk, memory, Put, Flush, Compact, CompactToNothing, WalSyncFails,
         CreateTmp, SyncTmp, Rename, FlushDirSync, CompactDirSync, WriteSortedFails,
         Unlink, UnlinkFails, UnlinkSync, UnlinkSyncFails, CompactDone, OpenFails
  <2>2. pc' # "down" => pc # "down"
    BY <1>13 DEF vars, Put, Flush, Compact, CompactToNothing, WalSyncFails,
         CreateTmp, SyncTmp, Rename, FlushDirSync, CompactDirSync, WriteSortedFails,
         Unlink, UnlinkFails, UnlinkSync, UnlinkSyncFails, CompactDone, OpenFails
  <2> QED
    BY <1>2, <2>1, <2>2 DEF Tidy
<1> QED
  BY <1>4, <1>5, <1>6, <1>7, <1>8, <1>9, <1>10, <1>11, <1>12, <1>13 DEF Next, Step

\* What the layers of the log become.
LEMMA SameLayers == logMay' = logMay => walMay' = walMay
BY DEF walMay

LEMMA SettledLayers ==
  ASSUME NEW w, NEW t, logMay' = {<<w, t>>}
  PROVE  walMay' = {w}
<1>1. walMay' = {l[1] : l \in {<<w, t>>}}
  BY DEF walMay
<1> QED
  BY <1>1

LEMMA InitLayers == Init => walMay = {Blank}
<1> SUFFICES ASSUME Init PROVE walMay = {Blank}
  OBVIOUS
<1>1. walMay = {l[1] : l \in {<<Blank, "clean">>}}
  BY DEF Init, walMay
<1> QED
  BY <1>1

LEMMA InitTidy == Init => Tidy
<1> SUFFICES ASSUME Init PROVE Tidy
  OBVIOUS
<1>1. \A l \in {<<Blank, "clean">>} : l[2] = "clean"
  OBVIOUS
<1> QED
  BY <1>1 DEF Init, Tidy

LEMMA UnsyncedLayers ==
  ASSUME NEW w, NEW t, logMay' = Unsynced(logMay, <<w, t>>)
  PROVE  walMay' = Unsynced(walMay, w)
<1>1. CASE "power" \in failing
  <2>1. logMay' = logMay \cup {<<w, t>>}
    BY <1>1 DEF Unsynced
  <2>2. walMay' = walMay \cup {<<w, t>>[1]}
    BY <2>1 DEF walMay
  <2> QED
    BY <1>1, <2>2 DEF Unsynced
<1>2. CASE "power" \notin failing
  BY <1>2, SettledLayers DEF Unsynced
<1> QED
  BY <1>1, <1>2

LEMMA WalWriteLayers ==
  ASSUME Tidy, LogKept, wal \in walMay, WalWrite
  PROVE  /\ wal' = [wal EXCEPT ![record[1]] = record[2]]
         /\ walMay' = Unsynced(walMay, wal')
<1>1. InPlace
  BY DEF Tidy, WalWrite, InPlace
<1>2. /\ wal' = [wal EXCEPT ![record[1]] = record[2]]
      /\ logMay' = Unsynced(logMay, <<wal', "clean">>) \cup Parts
  BY <1>1 DEF WalWrite
<1>3. CASE "power" \in failing
  <2>1. logMay' = logMay \cup {<<wal', "clean">>} \cup Parts
    BY <1>2, <1>3 DEF Unsynced
  <2>2. \A l \in logMay' : l[1] \in walMay \cup {wal'}
    BY <2>1, TidyParts DEF walMay
  <2>3. walMay \cup {wal'} \subseteq walMay'
    <3>1. <<wal', "clean">>[1] \in walMay'
      BY <2>1 DEF walMay
    <3>2. walMay \subseteq walMay'
      BY <2>1 DEF walMay
    <3> QED
      BY <3>1, <3>2
  <2>4. walMay' \subseteq walMay \cup {wal'}
    BY <2>2 DEF walMay
  <2> QED
    BY <1>2, <1>3, <2>3, <2>4 DEF Unsynced
<1>4. CASE "power" \notin failing
  <2>1. logMay' = {<<wal', "clean">>}
    BY <1>2, <1>4 DEF Unsynced, Parts
  <2> QED
    BY <1>2, <1>4, <2>1, SettledLayers DEF Unsynced
<1> QED
  BY <1>3, <1>4

LEMMA KillLayers ==
  ASSUME Tidy, LogKept, wal \in walMay, Kill
  PROVE  wal' = wal /\ wal \in walMay' /\ walMay' \subseteq walMay
<1>1. /\ ~(pc = "idle" /\ spilled)
      /\ pc = "append" => InPlace
  BY DEF Kill, Tidy, InPlace
<1>2. CASE UNCHANGED logFile
  BY <1>2, SameLayers
<1>3. CASE /\ wal' = wal
           /\ logMay' = Unsynced(logMay, <<wal, "cut">>) \cup Parts
  <2>1. \A l \in logMay' : l[1] \in walMay
    BY <1>3, TidyParts DEF Unsynced, walMay
  <2>2. <<wal, "cut">>[1] \in walMay'
    BY <1>3 DEF Unsynced, walMay
  <2>3. walMay' \subseteq walMay
    BY <2>1 DEF walMay
  <2> QED
    BY <1>3, <2>2, <2>3
<1> QED
  BY <1>1, <1>2, <1>3 DEF Kill

LEMMA PowerLossLayers ==
  ASSUME walNamed, PowerLoss
  PROVE  wal' \in walMay /\ walNamed' /\ walMay' = {wal'}
<1>1. wal' \in walMay /\ walNamed' /\ logMay' = {<<wal', tail'>>}
  BY DEF PowerLoss, walMay
<1> QED
  BY <1>1, SettledLayers

-----------------------------------------------------------------------------
(***************************************************************************)
(* Durability: where the failures are survivable, the tree loses no        *)
(* acknowledged write and implements the durable map; it keeps puts        *)
(* through more.                                                           *)
(***************************************************************************)

-----------------------------------------------------------------------------
(* The inductive invariant *)

IdsOf(s) == {s[n] : n \in Indices(s)}
Listed == IdsOf(sstables)
Replacing == IdsOf(old)

\* What a read of the tables alone returns.
View(k) == ToOption(NewestIn(sstables, k))

\* The table of a flush is on disk, and the log still holds its entries.
Flushed == pc \in {"truncate", "clear_sync"}
\* The id under which the process has written or will write a table.
NewId == IF Flushed THEN nextId - 1 ELSE nextId

\* Power loss changes nothing.
Settled == /\ \A i \in Ids : tableMay[i] = {table[i]}
           /\ walMay = {wal}

LogKnown ==
  /\ walNamed
  /\ wal \in walMay
  /\ "power" \notin failing \/ pc = "down" => Settled
  /\ pc = "append" => ToOption(record[2]) \in promised[record[1]]
  /\ pc = "wal_sync" => wal[record[1]] = record[2]

\* A log that may come back holds only writes that were promised ...
LogPromised ==
  \A k \in Keys, w \in walMay : w[k] # "NotFound" => ToOption(w[k]) \in promised[k]

\* ... and every key of the memtable, until its table has taken over.
LogCovers ==
  pc \notin {"down", "clear_sync"} =>
    \A k \in Keys, w \in walMay : memtable[k] # "NotFound" => w[k] # "NotFound"

ReadsPromised == pc # "down" => \A k \in Keys : Get(k) \in promised[k]

\* Files that power loss can bring back are listed, being replaced, or new.
NothingElse ==
  pc # "down" =>
    \A i \in Ids : i \notin Listed \cup Replacing \cup {NewId} => tableMay[i] = {NoFile}

ListedSettled ==
  /\ \A n \in Indices(sstables) : tableMay[sstables[n]] = {table[sstables[n]]}
  /\ \A n \in Indices(old) :
       IF pc = "unlink_sync" /\ n = Len(old)
         THEN table[old[n]] = NoFile
         ELSE tableMay[old[n]] = {table[old[n]]}

\* A value in a replaced table, of a key that the listed ones do not have, has
\* a tombstone above it that will be unlinked after it.
ReplacedCovered ==
  \A k \in Keys : View(k) = "None" =>
    \A n \in Indices(old) : \A f \in tableMay[old[n]] :
      IsTable(f) /\ f[k] \in Values =>
        \E m \in Indices(old) : m < n /\ table[old[m]][k] = "Deleted"

\* A new table, or the remains of one that failed, says nothing new.
NewContent ==
  /\ Flushed => table[nextId - 1] = memtable /\ tableMay[nextId - 1] = {memtable}
  /\ pc = "dir_sync" => table[nextId] = Output
  /\ pc # "down" /\ ~Flushed /\ nextId \in Ids =>
       \A f \in tableMay[nextId], k \in Keys :
         IsTable(f) /\ f[k] # "NotFound" /\ memtable[k] = "NotFound" =>
           ToOption(f[k]) = View(k)

\* After a death the memory has no say.
FatesPromised == \A k \in Keys : Fates(k) \subseteq promised[k]
DownPromised == pc = "down" => FatesPromised

DInv == /\ IInv /\ Survivable /\ Tidy
        /\ LogKnown /\ LogPromised /\ LogCovers /\ ReadsPromised
        /\ NothingElse /\ ListedSettled /\ ReplacedCovered /\ NewContent
        /\ DownPromised

-----------------------------------------------------------------------------
(* The search of the tables *)

LEMMA WinnerLeast ==
  ASSUME NEW S \in SUBSET Nat, S # {}
  PROVE  Winner(S) \in S /\ \A n \in S : Winner(S) <= n
BY LeastOf DEF Winner

\* No table of the list knows the key.
LEMMA NewestMiss ==
  ASSUME NEW ids, NEW k, \A n \in Indices(ids) : ~Holds(ids[n], k)
  PROVE  NewestIn(ids, k) = "NotFound"
BY DEF NewestIn, Indices

\* A table that knows the key, with none before it that does, decides.
LEMMA NewestHit ==
  ASSUME NEW ids, Len(ids) \in Nat, NEW k, NEW n \in Indices(ids), Holds(ids[n], k),
         \A m \in Indices(ids) : m < n => ~Holds(ids[m], k)
  PROVE  NewestIn(ids, k) = table[ids[n]][k]
<1> DEFINE hits == {m \in 1 .. Len(ids) : Holds(ids[m], k)}
<1>1. n \in hits /\ hits \in SUBSET Nat
  BY DEF Indices
<1>2. Winner(hits) \in hits /\ Winner(hits) <= n
  BY <1>1, WinnerLeast
<1>3. Winner(hits) = n
  BY <1>1, <1>2 DEF Indices
<1>4. hits # {}
  BY <1>1
<1> QED
  BY <1>3, <1>4 DEF NewestIn

\* Such a table exists whenever one of the list knows the key.
LEMMA NewestExists ==
  ASSUME NEW ids, Len(ids) \in Nat, NEW k, \E n \in Indices(ids) : Holds(ids[n], k)
  PROVE  \E n \in Indices(ids) :
           /\ Holds(ids[n], k)
           /\ \A m \in Indices(ids) : m < n => ~Holds(ids[m], k)
           /\ NewestIn(ids, k) = table[ids[n]][k]
<1> DEFINE hits == {m \in Indices(ids) : Holds(ids[m], k)}
<1>1. hits # {} /\ hits \in SUBSET Nat
  BY DEF Indices
<1>2. Winner(hits) \in hits /\ \A m \in hits : Winner(hits) <= m
  BY <1>1, WinnerLeast
<1>3. \A m \in Indices(ids) : m < Winner(hits) => ~Holds(ids[m], k)
  BY <1>2 DEF Indices
<1> HIDE DEF hits
<1>4. Winner(hits) \in Indices(ids) /\ Holds(ids[Winner(hits)], k)
  BY <1>2 DEF hits
<1> QED
  BY <1>3, <1>4, NewestHit

\* The search finds an entry, and a value only in a table.
LEMMA NewestType ==
  ASSUME TypeOK, NEW ids \in Seq(Ids), NEW k \in Keys
  PROVE  NewestIn(ids, k) \in Entries
<1>1. CASE \A n \in Indices(ids) : ~Holds(ids[n], k)
  BY <1>1, NewestMiss DEF Entries
<1>2. CASE \E n \in Indices(ids) : Holds(ids[n], k)
  <2>1. PICK n \in Indices(ids) : Holds(ids[n], k) /\ NewestIn(ids, k) = table[ids[n]][k]
    BY <1>2, NewestExists
  <2>2. table[ids[n]] \in File /\ table[ids[n]] \notin {NoFile, Torn}
    BY <2>1 DEF Indices, TypeOK, Holds, IsTable
  <2>3. table[ids[n]] \in Content
    BY <2>2 DEF File
  <2> QED
    BY <2>1, <2>3 DEF Content
<1> QED
  BY <1>1, <1>2

\* The search reads nothing but the tables of the list.
LEMMA NewestSame ==
  ASSUME NEW ids, NEW k, \A n \in Indices(ids) : table'[ids[n]] = table[ids[n]]
  PROVE  NewestIn(ids, k)' = NewestIn(ids, k)
<1>1. \A n \in 1 .. Len(ids) : Holds(ids[n], k)' <=> Holds(ids[n], k)
  BY DEF Holds, Indices
<1> DEFINE hits == {n \in 1 .. Len(ids) : Holds(ids[n], k)}
<1>2. hits' = hits
  BY <1>1
<1>3. hits # {} => Winner(hits) \in Indices(ids)
  <2> SUFFICES ASSUME hits # {} PROVE Winner(hits) \in Indices(ids)
    OBVIOUS
  <2>1. hits \in SUBSET Nat
    OBVIOUS
  <2>2. Winner(hits) \in hits
    BY <2>1, WinnerLeast
  <2> QED
    BY <2>2 DEF Indices
<1> QED
  BY <1>2, <1>3 DEF NewestIn

LEMMA ConcatIds ==
  ASSUME NEW s \in Seq(Ids), NEW t \in Seq(Ids)
  PROVE  IdsOf(s \o t) = IdsOf(s) \cup IdsOf(t)
<1>1. /\ Len(s \o t) = Len(s) + Len(t)
      /\ \A i \in 1 .. Len(s) + Len(t) :
           (s \o t)[i] = IF i <= Len(s) THEN s[i] ELSE t[i - Len(s)]
  BY ConcatProperties
<1>2. Len(s) \in Nat /\ Len(t) \in Nat
  BY LenProperties
<1>3. \A m \in Indices(s) : m \in Indices(s \o t) /\ (s \o t)[m] = s[m]
  BY <1>1, <1>2 DEF Indices
<1>4. \A m \in Indices(t) :
        m + Len(s) \in Indices(s \o t) /\ (s \o t)[m + Len(s)] = t[m]
  BY <1>1, <1>2 DEF Indices
<1>5. \A n \in Indices(s \o t) :
        \/ n \in Indices(s) /\ (s \o t)[n] = s[n]
        \/ n - Len(s) \in Indices(t) /\ (s \o t)[n] = t[n - Len(s)]
  BY <1>1, <1>2 DEF Indices
<1>6. IdsOf(s \o t) \subseteq IdsOf(s) \cup IdsOf(t)
  BY <1>5 DEF IdsOf
<1>7. IdsOf(s) \cup IdsOf(t) \subseteq IdsOf(s \o t)
  BY <1>3, <1>4 DEF IdsOf
<1> QED
  BY <1>6, <1>7

\* A longer list is searched from its front.
LEMMA NewestConcat ==
  ASSUME NEW s \in Seq(Ids), NEW t \in Seq(Ids), NEW k
  PROVE  NewestIn(s \o t, k) = IF \E n \in Indices(s) : Holds(s[n], k)
                                 THEN NewestIn(s, k) ELSE NewestIn(t, k)
<1> DEFINE both == s \o t
<1>1. /\ Len(both) = Len(s) + Len(t)
      /\ \A i \in 1 .. Len(s) + Len(t) :
           both[i] = IF i <= Len(s) THEN s[i] ELSE t[i - Len(s)]
  BY ConcatProperties
<1>2. Len(s) \in Nat /\ Len(t) \in Nat /\ Len(both) \in Nat
  BY <1>1, LenProperties
<1>3. /\ \A i \in Indices(s) : i \in Indices(both) /\ both[i] = s[i]
      /\ \A i \in Indices(t) :
           i + Len(s) \in Indices(both) /\ both[i + Len(s)] = t[i]
      /\ \A i \in Indices(both) :
           \/ i \in Indices(s)
           \/ i > Len(s) /\ i - Len(s) \in Indices(t) /\ both[i] = t[i - Len(s)]
  BY <1>1, <1>2 DEF Indices
<1> HIDE DEF both
<1>4. CASE \E n \in Indices(s) : Holds(s[n], k)
  <2>1. PICK n \in Indices(s) : /\ Holds(s[n], k)
                                /\ \A m \in Indices(s) : m < n => ~Holds(s[m], k)
                                /\ NewestIn(s, k) = table[s[n]][k]
    BY <1>2, <1>4, NewestExists
  <2>2. \A m \in Indices(both) : m < n => ~Holds(both[m], k)
    BY <1>2, <1>3, <2>1 DEF Indices
  <2>3. n \in Indices(both) /\ Holds(both[n], k)
    BY <1>3, <2>1
  <2>4. NewestIn(both, k) = table[both[n]][k]
    BY <1>2, <2>2, <2>3, NewestHit
  <2>5. NewestIn(both, k) = NewestIn(s, k)
    BY <1>3, <2>1, <2>4
  <2> QED
    BY <1>4, <2>5, Zenon DEF both
<1>5. CASE /\ ~\E n \in Indices(s) : Holds(s[n], k)
           /\ \E n \in Indices(t) : Holds(t[n], k)
  <2>1. PICK n \in Indices(t) : /\ Holds(t[n], k)
                                /\ \A m \in Indices(t) : m < n => ~Holds(t[m], k)
                                /\ NewestIn(t, k) = table[t[n]][k]
    BY <1>2, <1>5, NewestExists
  <2> DEFINE i == n + Len(s)
  <2>2. i \in Indices(both) /\ both[i] = t[n] /\ Holds(both[i], k)
    BY <1>3, <2>1
  <2>3. ASSUME NEW m \in Indices(both), m < i PROVE ~Holds(both[m], k)
    <3>1. CASE m \in Indices(s)
      BY <1>3, <1>5, <3>1
    <3>2. CASE m > Len(s) /\ m - Len(s) \in Indices(t) /\ both[m] = t[m - Len(s)]
      <4>1. m - Len(s) < n
        BY <1>2, <2>3 DEF Indices
      <4> QED
        BY <2>1, <3>2, <4>1
    <3> QED
      BY <1>3, <3>1, <3>2
  <2>4. NewestIn(both, k) = table[both[i]][k]
    BY <1>2, <2>2, <2>3, NewestHit
  <2> QED
    BY <1>5, <2>1, <2>2, <2>4 DEF both
<1>6. CASE /\ ~\E n \in Indices(s) : Holds(s[n], k)
           /\ ~\E n \in Indices(t) : Holds(t[n], k)
  <2>1. \A m \in Indices(both) : ~Holds(both[m], k)
    BY <1>3, <1>6
  <2> QED
    BY <1>6, <2>1, NewestMiss DEF both
<1> QED
  BY <1>4, <1>5, <1>6

\* A list of one table.
LEMMA NewestSingle ==
  ASSUME NEW i \in Ids, NEW k
  PROVE  NewestIn(<<i>>, k) = IF Holds(i, k) THEN table[i][k] ELSE "NotFound"
<1> DEFINE s == <<i>>
<1>1. Len(s) = 1 /\ s[1] = i /\ Indices(s) = {1}
  BY DEF Indices
<1> HIDE DEF s
<1>2. Holds(i, k) => NewestIn(s, k) = table[i][k]
  <2> SUFFICES ASSUME Holds(s[1], k) PROVE NewestIn(s, k) = table[s[1]][k]
    BY <1>1
  <2>1. 1 \in Indices(s) /\ \A m \in Indices(s) : ~(m < 1)
    BY <1>1
  <2>2. Len(s) \in Nat
    BY <1>1
  <2> QED
    BY <2>1, <2>2, NewestHit
<1>3. ~Holds(i, k) => NewestIn(s, k) = "NotFound"
  BY <1>1, NewestMiss
<1> QED
  BY <1>2, <1>3 DEF s

\* The values are none of the other entries.
LEMMA EntryFacts ==
  /\ "Deleted" \notin Values /\ "NotFound" \notin Values /\ "None" \notin Values
  /\ ToOption("NotFound") = "None" /\ ToOption("Deleted") = "None"
  /\ \A e : ToOption(e) = "None" <=> e \notin Values
  /\ \A e \in Writes : e # "NotFound" /\ e \in Entries
BY ValuesAssumption DEF ToOption, Writes, Entries

-----------------------------------------------------------------------------
(* What a step does to the reads *)

\* A read depends on the memtable, the list and the tables in it.
LEMMA ReadsSame ==
  ASSUME memtable' = memtable, sstables' = sstables,
         \A n \in Indices(sstables) : table'[sstables[n]] = table[sstables[n]],
         NEW k
  PROVE  /\ NewestIn(sstables, k)' = NewestIn(sstables, k)
         /\ View(k)' = View(k)
         /\ Get(k)' = Get(k)
<1>1. NewestIn(sstables, k)' = NewestIn(sstables', k)
  <2>1. NewestIn(sstables, k)' = NewestIn(sstables, k)
    BY NewestSame
  <2> QED
    BY <2>1
<1> QED
  BY <1>1 DEF View, Get, ToOption

\* A new list over the same tables.
LEMMA ReadsRelisted ==
  ASSUME table' = table, NEW ids, sstables' = ids, NEW k
  PROVE  /\ NewestIn(sstables, k)' = NewestIn(ids, k)
         /\ View(k)' = ToOption(NewestIn(ids, k))
<1>1. NewestIn(sstables, k)' = NewestIn(ids, k)
  BY DEF NewestIn, Holds, Winner
<1> QED
  BY <1>1 DEF View, ToOption

\* The merge holds the values a read of the tables returns, and nothing else.
LEMMA MergedView ==
  ASSUME NEW k \in Keys
  PROVE  /\ ToOption(Merged[k]) = View(k)
         /\ Merged[k] # "NotFound" => Merged[k] = View(k)
         /\ Merged[k] = "NotFound" <=> View(k) = "None"
BY EntryFacts DEF Merged, View, ToOption

\* The merged table takes the place of the tables it was made from.
LEMMA CompactDirSyncReads ==
  ASSUME DInv, CompactDirSync, NEW k \in Keys
  PROVE  View(k)' = View(k) /\ Get(k)' = Get(k)
<1>1. nextId \in Ids
  BY MaxIdAssumption DEF CompactDirSync, DInv, IInv, TypeOK, Phases, Ids
<1>2. table[nextId] = Merged /\ IsTable(table[nextId])
  BY DEF CompactDirSync, DInv, NewContent, Output, IInv, NewTable
<1>3. View(k)' = ToOption(NewestIn(<<nextId>>, k))
  BY ReadsRelisted DEF CompactDirSync
<1>4. ToOption(NewestIn(<<nextId>>, k)) = ToOption(Merged[k])
  BY <1>1, <1>2, NewestSingle, EntryFacts DEF Holds
<1>5. View(k)' = View(k)
  BY <1>3, <1>4, MergedView
<1> QED
  BY <1>5, EntryFacts DEF CompactDirSync, Get, View

\* The table of a flush takes the memtable's place.
LEMMA ClearSyncReads ==
  ASSUME DInv, ClearSync, NEW k \in Keys
  PROVE  Get(k)' = Get(k)
<1>1. nextId - 1 \in Ids
  BY MaxIdAssumption DEF ClearSync, DInv, IInv, TypeOK, NewTable, Ids
<1>2. table[nextId - 1] = memtable /\ IsTable(table[nextId - 1])
  BY DEF ClearSync, DInv, NewContent, Flushed, IInv, NewTable
<1> DEFINE new == <<nextId - 1>>
<1>3. new \in Seq(Ids) /\ Indices(new) = {1} /\ new[1] = nextId - 1
  BY <1>1 DEF Indices
<1>4. sstables \in Seq(Ids)
  BY DEF DInv, IInv, TypeOK
<1>5. NewestIn(new, k) = IF Holds(nextId - 1, k) THEN table[nextId - 1][k] ELSE "NotFound"
  BY <1>1, NewestSingle
<1>6. View(k)' = ToOption(NewestIn(new \o sstables, k))
  BY ReadsRelisted DEF ClearSync, WithNewTable
<1> HIDE DEF new
<1>7. NewestIn(new \o sstables, k) = IF Holds(nextId - 1, k) THEN NewestIn(new, k)
                                      ELSE NewestIn(sstables, k)
  BY <1>3, <1>4, NewestConcat
<1>8. Holds(nextId - 1, k) <=> memtable[k] # "NotFound"
  BY <1>2 DEF Holds
<1>9. memtable'[k] = "NotFound"
  BY DEF ClearSync, Blank
<1>10. Get(k)' = View(k)'
  BY <1>9 DEF Get, View
<1> QED
  BY <1>2, <1>5, <1>6, <1>7, <1>8, <1>10 DEF Get

\* A compaction that leaves no entry.
LEMMA CompactToNothingReads ==
  ASSUME DInv, CompactToNothing, NEW k \in Keys
  PROVE  View(k)' = View(k) /\ Get(k)' = Get(k)
<1>1. View(k) = "None"
  BY MergedView DEF CompactToNothing, Blank
<1>2. Indices(<<>>) = {}
  BY DEF Indices
<1>3. View(k)' = ToOption(NewestIn(<<>>, k))
  BY ReadsRelisted DEF CompactToNothing, disk
<1>4. NewestIn(<<>>, k) = "NotFound"
  BY <1>2, NewestMiss
<1>5. View(k)' = View(k)
  BY <1>1, <1>3, <1>4, EntryFacts
<1> QED
  BY <1>5, EntryFacts DEF CompactToNothing, Get, View, disk

\* Replaced tables served again bring back no value, because the tombstone
\* above a value comes back with it.
LEMMA RelistedReads ==
  ASSUME DInv, table' = table, memtable' = memtable, NEW kept \in Seq(Ids),
         sstables' = sstables \o kept, Len(kept) <= Len(old),
         \A n \in Indices(kept) : kept[n] = old[n] /\ IsTable(table[kept[n]]),
         NEW k \in Keys
  PROVE  View(k)' = View(k) /\ Get(k)' = Get(k)
<1>1. sstables \in Seq(Ids) /\ old \in Seq(Ids)
  BY DEF DInv, IInv, TypeOK
<1>2. Len(kept) \in Nat /\ Len(old) \in Nat
  BY <1>1, LenProperties
<1>3. View(k)' = ToOption(NewestIn(sstables \o kept, k))
  BY ReadsRelisted
<1>4. NewestIn(sstables \o kept, k) = IF \E n \in Indices(sstables) : Holds(sstables[n], k)
                                       THEN NewestIn(sstables, k) ELSE NewestIn(kept, k)
  BY <1>1, NewestConcat
<1>5. ASSUME ~\E n \in Indices(sstables) : Holds(sstables[n], k)
      PROVE  View(k) = "None" /\ NewestIn(kept, k) \notin Values
  <2>1. View(k) = "None"
    BY <1>5, NewestMiss, EntryFacts DEF View
  <2>2. CASE \A n \in Indices(kept) : ~Holds(kept[n], k)
    BY <2>1, <2>2, NewestMiss, EntryFacts
  <2>3. CASE \E n \in Indices(kept) : Holds(kept[n], k)
    <3>1. PICK n \in Indices(kept) : /\ Holds(kept[n], k)
                                     /\ \A m \in Indices(kept) : m < n => ~Holds(kept[m], k)
                                     /\ NewestIn(kept, k) = table[kept[n]][k]
      BY <1>2, <2>3, NewestExists
    <3>2. n \in Indices(old) /\ kept[n] = old[n] /\ old[n] \in Ids
      BY <1>1, <1>2 DEF Indices
    <3>3. table[old[n]] \in tableMay[old[n]]
      BY <3>2 DEF DInv, IInv, Whole
    <3>4. ASSUME table[old[n]][k] \in Values PROVE FALSE
      <4>1. \E m \in Indices(old) : m < n /\ table[old[m]][k] = "Deleted"
        BY <2>1, <3>2, <3>3, <3>4 DEF DInv, ReplacedCovered
      <4>2. PICK m \in Indices(old) : m < n /\ table[old[m]][k] = "Deleted"
        BY <4>1
      <4>3. m \in Indices(kept)
        BY <1>2, <4>2 DEF Indices
      <4>4. Holds(kept[m], k)
        BY <4>2, <4>3 DEF Holds
      <4> QED
        BY <3>1, <4>2, <4>3, <4>4
    <3> QED
      BY <2>1, <3>1, <3>2, <3>4
  <2> QED
    BY <2>2, <2>3
<1>6. View(k)' = View(k)
  <2>1. CASE \E n \in Indices(sstables) : Holds(sstables[n], k)
    BY <1>3, <1>4, <2>1 DEF View
  <2>2. CASE ~\E n \in Indices(sstables) : Holds(sstables[n], k)
    BY <1>3, <1>4, <1>5, <2>2, EntryFacts
  <2> QED
    BY <2>1, <2>2
<1> QED
  BY <1>6 DEF Get, View, ToOption

LEMMA UnlinkFailsReads ==
  ASSUME DInv, UnlinkFails \/ UnlinkSyncFails, NEW k \in Keys
  PROVE  View(k)' = View(k) /\ Get(k)' = Get(k)
<1>1. CASE UnlinkFails
  <2>1. old \in Seq(Ids) /\ Len(old) <= Len(old)
    BY DEF DInv, IInv, TypeOK
  <2>2. \A n \in Indices(old) : IsTable(table[old[n]])
    BY <1>1 DEF UnlinkFails, DInv, IInv, ListedReadable, Indices
  <2> QED
    BY <1>1, <2>1, <2>2, RelistedReads DEF UnlinkFails, disk
<1>2. CASE UnlinkSyncFails
  <2>1. old # <<>> /\ old \in Seq(Ids)
    BY <1>2 DEF UnlinkSyncFails, DInv, IInv, TypeOK, Phases
  <2>2. /\ Rest \in Seq(Ids) /\ Len(Rest) = Len(old) - 1 /\ Len(old) \in Nat \ {0}
        /\ \A n \in Indices(Rest) : n \in Indices(old) /\ Rest[n] = old[n]
    BY <2>1, FrontLast DEF Rest
  <2>3. Len(Rest) <= Len(old)
    BY <2>2
  <2>4. \A n \in Indices(Rest) : IsTable(table[Rest[n]])
    BY <1>2, <2>2 DEF DInv, IInv, ListedReadable, Indices
  <2> QED
    BY <1>2, <2>2, <2>3, <2>4, RelistedReads DEF UnlinkSyncFails, disk
<1> QED
  BY <1>1, <1>2

\* The steps that leave the tables in use, the list and the memtable alone.
LEMMA UnlistedReads ==
  ASSUME IInv,
         \/ \E k \in Keys, e \in Writes : Put(k, e)
         \/ WalWrite \/ WalWriteFails \/ OpenFails
         \/ WalSyncFails \/ Flush \/ Compact \/ CreateTmp \/ SyncTmp \/ Rename
         \/ FlushDirSync \/ WriteSortedFails \/ Truncate \/ ClearFails
         \/ Unlink \/ UnlinkSync \/ CompactDone \/ UNCHANGED vars,
         NEW k
  PROVE  /\ memtable' = memtable /\ sstables' = sstables
         /\ NewestIn(sstables, k)' = NewestIn(sstables, k)
         /\ View(k)' = View(k) /\ Get(k)' = Get(k)
<1>1. memtable' = memtable /\ sstables' = sstables
  BY DEF Put, WalWrite, WalWriteFails, WalSyncFails, Flush, Compact, CreateTmp, SyncTmp,
         Rename, FlushDirSync, WriteSortedFails, Truncate, ClearFails, Unlink, UnlinkSync,
         CompactDone, OpenFails, vars, memory
<1>2. \A n \in Indices(sstables) : table'[sstables[n]] = table[sstables[n]]
  <2>1. CASE ~(Rename \/ Unlink)
    BY <2>1
       DEF Put, WalWrite, WalWriteFails, WalSyncFails, Flush, Compact, CreateTmp, SyncTmp,
           FlushDirSync, WriteSortedFails, Truncate, ClearFails, UnlinkSync,
           CompactDone, OpenFails, vars, disk
  <2>2. ASSUME NEW n \in Indices(sstables)
        PROVE  sstables[n] \in Ids /\ sstables[n] < nextId
    BY DEF IInv, TypeOK, Ages, Indices
  <2>3. CASE Rename
    <3>1. \A n \in Indices(sstables) : sstables[n] # nextId
      BY <2>2 DEF Ids
    <3> QED
      BY <2>2, <2>3, <3>1 DEF Rename, IInv, TypeOK
  <2>4. CASE Unlink
    <3>1. old # <<>> /\ old \in Seq(Ids)
      BY <2>4 DEF Unlink, IInv, TypeOK
    <3>2. Len(old) \in Nat \ {0} /\ Last(old) = old[Len(old)] /\ Last(old) \in Ids
      BY <3>1, FrontLast
    <3>3. \A n \in Indices(sstables) : sstables[n] > Last(old)
      BY <3>2 DEF IInv, Ages, Indices
    <3>4. \A n \in Indices(sstables) : sstables[n] # Last(old)
      BY <2>2, <3>2, <3>3 DEF Ids
    <3> QED
      BY <2>2, <2>4, <3>2, <3>4 DEF Unlink, IInv, TypeOK
  <2> QED
    BY <2>1, <2>3, <2>4
<1> QED
  BY <1>1, <1>2, ReadsSame

\* The synced write is what its key reads, and no other key's read changes.
LEMMA WalSyncReads ==
  ASSUME IInv, WalSync
  PROVE  /\ record[1] \in Keys /\ record[2] \in Writes
         /\ \A k \in Keys : /\ View(k)' = View(k)
                           /\ Get(k)' = IF k = record[1] THEN ToOption(record[2]) ELSE Get(k)
<1>1. record[1] \in Keys /\ record[2] \in Writes
  BY DEF WalSync, IInv, TypeOK, Phases
<1>2. /\ memtable' = [memtable EXCEPT ![record[1]] = record[2]]
      /\ memtable \in [Keys -> Entries]
  BY DEF WalSync, IInv, TypeOK, Content
<1>3. ASSUME NEW k \in Keys
      PROVE  NewestIn(sstables, k)' = NewestIn(sstables, k)
  <2>1. NewestIn(sstables, k)' = NewestIn(sstables', k)
    BY ReadsRelisted DEF WalSync
  <2> QED
    BY <2>1 DEF WalSync
<1>4. ASSUME NEW k \in Keys
      PROVE  memtable'[k] = IF k = record[1] THEN record[2] ELSE memtable[k]
  BY <1>1, <1>2
<1>5. record[2] # "NotFound"
  BY <1>1, EntryFacts
<1> QED
  BY <1>1, <1>3, <1>4, <1>5 DEF Get, View, ToOption

\* What reopening shows of a key is one of its fates.
LEMMA OpenReads ==
  ASSUME DInv, Open, NEW k \in Keys
  PROVE  Get(k)' \in Fates(k)
<1>1. Settled /\ walNamed
  BY DEF Open, DInv, LogKnown
<1>2. WalOutcomes = {wal}
  BY <1>1 DEF Settled, WalOutcomes
<1>3. memtable' = wal /\ table' = table
  BY DEF Open
<1>4. CASE wal[k] # "NotFound"
  <2>1. Get(k)' = ToOption(wal[k])
    BY <1>3, <1>4 DEF Get, ToOption
  <2> QED
    BY <1>2, <1>4, <2>1 DEF Fates
<1>5. CASE wal[k] = "NotFound"
  <2>1. Fates(k) = TableFates(k)
    BY <1>2, <1>5 DEF Fates
  <2>2. PICK s \in NewestFirstSeqs(Present) : sstables' = s
    BY DEF Open
  <2>3. Get(k)' = ToOption(NewestIn(s, k))
    <3>1. Get(k)' = View(k)'
      BY <1>3, <1>5 DEF Get, View
    <3> QED
      BY <1>3, <2>2, <3>1, ReadsRelisted
  <2>4. /\ Len(s) \in Nat /\ Descending(s)
        /\ \A n \in Indices(s) : s[n] \in Ids
        /\ \A i \in Ids : table[i] # NoFile => \E n \in Indices(s) : s[n] = i
    <3>1. IsFiniteSet(Present) /\ Cardinality(Present) \in Nat
      <4>1. IsFiniteSet(Ids) /\ Present \subseteq Ids
        BY MaxIdAssumption, FS_Interval DEF Ids, Present
      <4> QED
        BY <4>1, FS_Subset, FS_CardinalityType
    <3>2. /\ s \in [1 .. Cardinality(Present) -> Present] /\ Descending(s)
          /\ \A i \in Present : \E n \in 1 .. Cardinality(Present) : s[n] = i
      BY <2>2 DEF NewestFirstSeqs
    <3>3. s \in Seq(Present) /\ Len(s) = Cardinality(Present)
      BY <3>1, <3>2
    <3> QED
      BY <3>1, <3>2, <3>3 DEF Indices, Present
  <2>5. \A i \in Ids : tableMay[i] = {table[i]}
    BY <1>1 DEF Settled
  <2>6. ASSUME NEW j \in Ids, ~Holds(j, k) PROVE CanMiss(j, k)
    BY <2>5, <2>6 DEF CanMiss, Holds
  <2>7. \A j \in Ids : Holds(j, k) => \E n \in Indices(s) : s[n] = j
    BY <2>4 DEF Holds, IsTable
  <2>8. CASE \A n \in Indices(s) : ~Holds(s[n], k)
    <3>1. \A j \in Ids : CanMiss(j, k)
      BY <2>6, <2>7, <2>8
    <3>2. "None" \in TableFates(k)
      BY <3>1 DEF TableFates
    <3> QED
      BY <2>1, <2>3, <2>8, <3>2, NewestMiss, EntryFacts
  <2>9. CASE \E n \in Indices(s) : Holds(s[n], k)
    <3>1. PICK n \in Indices(s) : /\ Holds(s[n], k)
                                  /\ \A m \in Indices(s) : m < n => ~Holds(s[m], k)
                                  /\ NewestIn(s, k) = table[s[n]][k]
      BY <2>4, <2>9, NewestExists
    <3>2. ASSUME NEW j \in Ids, j > s[n] PROVE CanMiss(j, k)
      <4>1. ASSUME NEW m \in Indices(s), s[m] = j PROVE m < n
        <5>1. m \in 1 .. Len(s) /\ n \in 1 .. Len(s) /\ s[m] \in Int /\ s[n] \in Int
          BY <2>4 DEF Indices, Ids
        <5>2. ~(n < m)
          BY <2>4, <3>2, <4>1, <5>1 DEF Descending
        <5>3. m # n
          BY <3>2, <4>1, <5>1
        <5> QED
          BY <5>1, <5>2, <5>3
      <4>2. ~Holds(j, k)
        BY <2>7, <3>1, <4>1
      <4> QED
        BY <2>6, <4>2
    <3>3. /\ s[n] \in Ids /\ table[s[n]] \in tableMay[s[n]]
          /\ IsTable(table[s[n]]) /\ table[s[n]][k] # "NotFound"
      BY <2>4, <2>5, <3>1 DEF Holds
    <3>4. ToOption(table[s[n]][k]) \in TableFates(k)
      BY <3>2, <3>3 DEF TableFates
    <3> QED
      BY <2>1, <2>3, <3>1, <3>4
  <2> QED
    BY <2>8, <2>9
<1> QED
  BY <1>4, <1>5

-----------------------------------------------------------------------------
(* What the disk may reveal *)

\* When all tables above an id can miss a key, the listed ones among them do,
\* and so does a memtable whose table is one of them.
LEMMA MissedAbove ==
  ASSUME DInv, NEW k \in Keys, NEW b \in Int, \A j \in Ids : j > b => CanMiss(j, k)
  PROVE  /\ \A n \in Indices(sstables) : sstables[n] > b => ~Holds(sstables[n], k)
         /\ Flushed /\ nextId - 1 > b => memtable[k] = "NotFound"
<1>1. ASSUME NEW n \in Indices(sstables), sstables[n] > b
      PROVE  ~Holds(sstables[n], k)
  <2>1. sstables[n] \in Ids
    BY DEF DInv, IInv, TypeOK, Indices
  <2>2. tableMay[sstables[n]] = {table[sstables[n]]}
    BY DEF DInv, ListedSettled
  <2> QED
    BY <1>1, <2>1, <2>2 DEF CanMiss, Holds
<1>2. ASSUME Flushed, nextId - 1 > b PROVE memtable[k] = "NotFound"
  <2>1. nextId - 1 \in Ids
    BY <1>2, MaxIdAssumption DEF Flushed, DInv, IInv, TypeOK, NewTable, Ids
  <2>2. tableMay[nextId - 1] = {memtable} /\ IsTable(memtable)
    BY <1>2, ContentIsTable DEF DInv, NewContent, IInv, TypeOK
  <2> QED
    BY <1>2, <2>1, <2>2 DEF CanMiss
<1> QED
  BY <1>1, <1>2

\* With the log silent on a key, the tables reveal what its reader sees now.
LEMMA TableFatesKnown ==
  ASSUME DInv, pc # "down", NEW k \in Keys, Flushed \/ memtable[k] = "NotFound",
         NEW r \in TableFates(k)
  PROVE  r = Get(k)
<1>1. /\ \A n \in Indices(sstables) : sstables[n] \in Ids
      /\ \A n \in Indices(old) : old[n] \in Ids
      /\ Len(sstables) \in Nat /\ Len(old) \in Nat
      /\ nextId \in 0 .. MaxId
  BY DEF DInv, IInv, TypeOK, Indices
<1>2. memtable[k] = "NotFound" => Get(k) = View(k)
  BY DEF Get, View
<1>3. CASE r = "None" /\ \A j \in Ids : j > -1 => CanMiss(j, k)
  <2>1. /\ \A n \in Indices(sstables) : sstables[n] > -1 => ~Holds(sstables[n], k)
        /\ Flushed /\ nextId - 1 > -1 => memtable[k] = "NotFound"
    BY <1>3, MissedAbove
  <2>2. NewestIn(sstables, k) = "NotFound"
    BY <1>1, <2>1, NewestMiss DEF Ids
  <2>3. memtable[k] = "NotFound"
    BY <2>1, <1>1 DEF Flushed, DInv, IInv, NewTable
  <2> QED
    BY <1>2, <1>3, <2>2, <2>3, EntryFacts DEF View
<1>4. ASSUME NEW i \in Ids, \A j \in Ids : j > i => CanMiss(j, k),
             NEW f \in tableMay[i], IsTable(f), f[k] # "NotFound", r = ToOption(f[k])
      PROVE  r = Get(k)
  <2>1. i \in Int
    BY DEF Ids
  <2>2. /\ \A n \in Indices(sstables) : sstables[n] > i => ~Holds(sstables[n], k)
        /\ Flushed /\ nextId - 1 > i => memtable[k] = "NotFound"
    BY <1>4, <2>1, MissedAbove
  <2>3. CASE i \notin Listed \cup Replacing \cup {NewId}
    <3>1. tableMay[i] = {NoFile}
      BY <2>3 DEF DInv, NothingElse
    <3> QED
      BY <1>4, <3>1 DEF IsTable
  <2>4. CASE i = NewId
    <3>1. CASE Flushed
      <4>1. f = memtable
        BY <1>4, <2>4, <3>1 DEF NewId, DInv, NewContent
      <4> QED
        BY <1>4, <4>1 DEF Get
    <3>2. CASE ~Flushed
      <4>1. i = nextId /\ memtable[k] = "NotFound"
        BY <2>4, <3>2 DEF NewId
      <4>2. ToOption(f[k]) = View(k)
        BY <1>4, <3>2, <4>1 DEF DInv, NewContent
      <4> QED
        BY <1>2, <1>4, <4>1, <4>2
    <3> QED
      BY <3>1, <3>2
  <2>5. CASE i \in Listed
    <3>1. PICK n \in Indices(sstables) : i = sstables[n]
      BY <2>5 DEF Listed, IdsOf
    <3>2. f = table[i] /\ Holds(i, k)
      BY <1>4, <3>1 DEF DInv, ListedSettled, Holds
    <3>3. \A m \in Indices(sstables) : m < n => ~Holds(sstables[m], k)
      BY <2>2, <3>1 DEF DInv, IInv, Ages, Descending, Indices
    <3>4. NewestIn(sstables, k) = table[sstables[n]][k]
      BY <1>1, <3>1, <3>2, <3>3, NewestHit
    <3>5. memtable[k] = "NotFound"
      <4>1. CASE Flushed
        <5>1. i < nextId - 1
          BY <3>1, <4>1 DEF Flushed, DInv, IInv, NewTable
        <5> QED
          BY <1>1, <2>1, <2>2, <4>1, <5>1
      <4> QED
        BY <4>1
    <3> QED
      BY <1>2, <1>4, <3>1, <3>2, <3>4, <3>5 DEF View
  <2>6. CASE i \in Replacing
    <3>1. PICK n \in Indices(old) : i = old[n]
      BY <2>6 DEF Replacing, IdsOf
    <3>2. ~Flushed /\ memtable[k] = "NotFound"
      BY <3>1 DEF Flushed, DInv, IInv, Phases, Indices
    <3>3. \A m \in Indices(sstables) : ~Holds(sstables[m], k)
      BY <2>2, <3>1 DEF DInv, IInv, Ages
    <3>4. View(k) = "None"
      BY <3>3, NewestMiss, EntryFacts DEF View
    <3>5. ASSUME f[k] \in Values PROVE FALSE
      <4>1. \E m \in Indices(old) : m < n /\ table[old[m]][k] = "Deleted"
        BY <1>4, <3>1, <3>4, <3>5 DEF DInv, ReplacedCovered
      <4>2. PICK m \in Indices(old) : m < n /\ table[old[m]][k] = "Deleted"
        BY <4>1
      <4>3. m # Len(old) /\ m < Len(old) /\ old[m] > old[n]
        BY <1>1, <4>2 DEF DInv, IInv, Ages, Descending, Indices
      <4>4. tableMay[old[m]] = {table[old[m]]}
        BY <4>3 DEF DInv, ListedSettled
      <4>5. IsTable(table[old[m]])
        BY <4>3 DEF DInv, IInv, ListedReadable, Indices
      <4>6. CanMiss(old[m], k)
        BY <1>1, <1>4, <3>1, <4>3
      <4> QED
        BY <4>2, <4>4, <4>5, <4>6 DEF CanMiss
    <3> QED
      BY <1>2, <1>4, <3>2, <3>4, <3>5, EntryFacts
  <2> QED
    BY <2>3, <2>4, <2>5, <2>6
<1> QED
  <2>1. \/ r = "None" /\ \A j \in Ids : j > -1 => CanMiss(j, k)
        \/ \E i \in Ids : /\ \A j \in Ids : j > i => CanMiss(j, k)
                          /\ \E f \in tableMay[i] : IsTable(f) /\ f[k] # "NotFound" /\ r = ToOption(f[k])
    BY DEF TableFates
  <2> QED
    BY <1>3, <1>4, <2>1

\* The invariant is strong enough: nothing that was promised can be lost.
LEMMA DInvFates == DInv => FatesPromised
<1> SUFFICES ASSUME DInv, NEW k \in Keys, NEW r \in Fates(k) PROVE r \in promised[k]
  BY DEF FatesPromised
<1>1. CASE pc = "down"
  BY <1>1 DEF DInv, DownPromised, FatesPromised
<1>2. CASE pc # "down"
  <2>1. WalOutcomes = walMay
    BY DEF DInv, LogKnown, WalOutcomes
  <2>2. CASE \E w \in walMay : w[k] # "NotFound" /\ r = ToOption(w[k])
    BY <2>2 DEF DInv, LogPromised
  <2>3. CASE r \in TableFates(k) /\ \E w \in walMay : w[k] = "NotFound"
    <3>1. Flushed \/ memtable[k] = "NotFound"
      BY <1>2, <2>3 DEF Flushed, DInv, LogCovers
    <3>2. r = Get(k)
      BY <1>2, <2>3, <3>1, TableFatesKnown
    <3> QED
      BY <1>2, <3>2 DEF DInv, ReadsPromised
  <2> QED
    BY <2>1, <2>2, <2>3 DEF Fates
<1> QED
  BY <1>1, <1>2

-----------------------------------------------------------------------------
(* Every step keeps the invariant *)

\* The clauses about the disk speak of the list, the tables and the new one.
LEMMA TablesSame ==
  ASSUME DInv, UNCHANGED <<table, tableMay, sstables, old, nextId>>,
         pc \notin {"down", "unlink_sync"} /\ pc' \notin {"down", "unlink_sync"},
         NewId' = NewId,
         \A k \in Keys : View(k)' = View(k)
  PROVE  NothingElse' /\ ListedSettled' /\ ReplacedCovered'
<1>1. NothingElse'
  BY DEF DInv, NothingElse, Listed, Replacing, Indices, IdsOf
<1>2. ListedSettled'
  BY DEF DInv, ListedSettled, Indices
<1>3. ReplacedCovered'
  BY DEF DInv, ReplacedCovered, Indices
<1> QED
  BY <1>1, <1>2, <1>3

LEMMA InitDInv == Init /\ Survivable => DInv
<1> SUFFICES ASSUME Init, Survivable PROVE DInv
  OBVIOUS
<1>1. IInv
  BY InitIInv
<1>2. LogKnown /\ LogPromised /\ LogCovers /\ DownPromised /\ Tidy
  BY InitLayers, InitTidy
     DEF Init, Survivable, LogKnown, LogPromised, LogCovers, DownPromised, Settled,
         Blank
<1>3. Indices(<<>>) = {}
  BY DEF Indices
<1>4. ASSUME NEW k \in Keys PROVE View(k) = "None" /\ Get(k) = "None"
  <2>1. NewestIn(<<>>, k) = "NotFound"
    BY <1>3, NewestMiss
  <2> QED
    BY <2>1, EntryFacts DEF Init, View, Get, Blank
<1>5. ReadsPromised
  BY <1>4 DEF Init, ReadsPromised
<1>6. NothingElse /\ ListedSettled /\ ReplacedCovered
  BY <1>3 DEF Init, NothingElse, ListedSettled, ReplacedCovered, Indices
<1>7. NewContent
  BY DEF Init, NewContent, Flushed, IsTable
<1> QED
  BY <1>1, <1>2, <1>5, <1>6, <1>7 DEF DInv

LEMMA PutDInv ==
  ASSUME DInv, IInv', Tidy', NEW k \in Keys, NEW e \in Writes, Put(k, e)
  PROVE  DInv'
<1>1. \A x \in Keys : View(x)' = View(x) /\ Get(x)' = Get(x)
  BY UnlistedReads DEF DInv
<1>2. /\ pc = "idle" /\ pc' = "append" /\ record' = <<k, e>>
      /\ UNCHANGED <<table, tableMay, wal, logMay, walNamed, memtable, sstables, old,
                     nextId, failing>>
  BY DEF Put, disk
<1>3. walMay' = walMay
  BY <1>2, SameLayers
<1>4. /\ ToOption(e) \in promised'[k]
      /\ \A x \in Keys : promised[x] \subseteq promised'[x]
  BY DEF Put, DInv, IInv, TypeOK
<1>5. LogKnown'
  BY <1>2, <1>3, <1>4 DEF DInv, LogKnown, Settled
<1>6. LogPromised' /\ LogCovers'
  BY <1>2, <1>3, <1>4 DEF DInv, LogPromised, LogCovers
<1>7. ReadsPromised' /\ DownPromised'
  BY <1>1, <1>2, <1>4 DEF DInv, ReadsPromised, DownPromised
<1>8. NewId' = NewId
  BY <1>2 DEF NewId, Flushed
<1>9. NothingElse' /\ ListedSettled' /\ ReplacedCovered'
  BY <1>1, <1>2, <1>8, TablesSame
<1>10. NewContent'
  BY <1>1, <1>2 DEF DInv, NewContent, Flushed
<1> QED
  BY <1>2, <1>5, <1>6, <1>7, <1>9, <1>10 DEF DInv, Survivable, LogKept

LEMMA WalWriteDInv ==
  ASSUME DInv, IInv', Tidy', WalWrite
  PROVE  DInv'
<1> DEFINE key == record[1]
           entry == record[2]
<1>1. \A x \in Keys : View(x)' = View(x) /\ Get(x)' = Get(x)
  BY UnlistedReads DEF DInv
<1>2. /\ wal \in [Keys -> Entries] /\ key \in Keys /\ entry \in Writes
      /\ wal \in walMay /\ \A w \in walMay : w \in [Keys -> Entries]
  BY DEF WalWrite, DInv, LogKnown, IInv, TypeOK, Content, Phases, walMay, Logs
<1>3. wal' = [wal EXCEPT ![key] = entry] /\ walMay' = Unsynced(walMay, wal')
  BY <1>2, WalWriteLayers DEF DInv, Survivable
<1>4. /\ pc = "append" /\ pc' = "wal_sync"
      /\ UNCHANGED <<table, tableMay, walNamed, record, memtable, sstables, old, nextId,
                     promised, failing>>
  BY DEF WalWrite
<1>5. /\ wal'[key] = entry /\ \A x \in Keys : x # key => wal'[x] = wal[x]
      /\ wal' \in walMay' /\ \A w \in walMay' : w = wal' \/ w \in walMay
      /\ ToOption(entry) \in promised[key]
      /\ entry # "NotFound"
  BY <1>2, <1>3, <1>4, EntryFacts DEF Unsynced, DInv, LogKnown
<1>6. LogKnown'
  <2>1. "power" \notin failing => Settled'
    BY <1>3, <1>4 DEF DInv, LogKnown, Settled, Unsynced
  <2> QED
    BY <1>4, <1>5, <2>1 DEF DInv, LogKnown
<1> HIDE DEF key, entry
<1>7. LogPromised'
  BY <1>2, <1>4, <1>5 DEF DInv, LogPromised
<1>8. LogCovers'
  BY <1>2, <1>4, <1>5 DEF DInv, LogCovers
<1>9. ReadsPromised' /\ DownPromised'
  BY <1>1, <1>4 DEF DInv, ReadsPromised, DownPromised
<1>10. NewId' = NewId
  BY <1>4 DEF NewId, Flushed
<1>11. NothingElse' /\ ListedSettled' /\ ReplacedCovered'
  BY <1>1, <1>4, <1>10, TablesSame
<1>12. NewContent'
  BY <1>1, <1>4 DEF DInv, NewContent, Flushed
<1> QED
  BY <1>4, <1>6, <1>7, <1>8, <1>9, <1>11, <1>12 DEF DInv, Survivable, LogKept

LEMMA WalSyncDInv ==
  ASSUME DInv, IInv', Tidy', WalSync
  PROVE  DInv'
<1> DEFINE key == record[1]
           entry == record[2]
<1>1. /\ key \in Keys /\ entry \in Writes /\ entry # "NotFound"
      /\ \A x \in Keys : /\ View(x)' = View(x)
                        /\ Get(x)' = IF x = key THEN ToOption(entry) ELSE Get(x)
  BY WalSyncReads, EntryFacts DEF DInv
<1>2. /\ wal \in walMay /\ wal[key] = entry
      /\ memtable \in [Keys -> Entries] /\ promised \in [Keys -> SUBSET Results]
  BY DEF WalSync, DInv, LogKnown, IInv, TypeOK, Content
<1>3. \A x \in Keys : /\ memtable'[x] = IF x = key THEN entry ELSE memtable[x]
                     /\ promised'[x] = IF x = key THEN {ToOption(entry)} ELSE promised[x]
  BY <1>1, <1>2 DEF WalSync
<1>4. /\ walMay' = {wal} /\ wal' = wal /\ pc' \in {"idle", "create"}
      /\ UNCHANGED <<table, tableMay, walNamed, sstables, old, nextId, failing>>
  BY SettledLayers DEF WalSync
<1> HIDE DEF key, entry
<1>5. LogKnown'
  BY <1>4 DEF DInv, LogKnown, Settled
<1>6. LogPromised' /\ LogCovers'
  BY <1>1, <1>2, <1>3, <1>4 DEF WalSync, DInv, LogPromised, LogCovers
<1>7. ReadsPromised' /\ DownPromised'
  BY <1>1, <1>3, <1>4 DEF WalSync, DInv, ReadsPromised, DownPromised
<1>8. NewId' = NewId
  BY <1>4 DEF WalSync, NewId, Flushed
<1>9. NothingElse' /\ ListedSettled' /\ ReplacedCovered'
  BY <1>1, <1>4, <1>8, TablesSame DEF WalSync
<1>10. NewContent'
  BY <1>1, <1>3, <1>4 DEF WalSync, DInv, NewContent, Flushed
<1> QED
  BY <1>4, <1>5, <1>6, <1>7, <1>9, <1>10 DEF DInv, Survivable, LogKept

LEMMA QuietDInv ==
  ASSUME DInv, IInv', Tidy',
         \/ WalSyncFails \/ Flush \/ Compact \/ CreateTmp \/ SyncTmp
         \/ WriteSortedFails \/ CompactDone
  PROVE  DInv'
<1>1. \A k \in Keys : View(k)' = View(k) /\ Get(k)' = Get(k)
  BY UnlistedReads DEF DInv
<1>2. /\ UNCHANGED <<table, tableMay, wal, walMay, walNamed, memtable, sstables, old,
                     nextId, promised, failing>>
      /\ pc \notin {"down", "unlink_sync", "truncate", "clear_sync"}
      /\ pc' \notin {"down", "append", "wal_sync", "unlink_sync", "truncate", "clear_sync",
                      "dir_sync"}
  BY SameLayers
     DEF WalSyncFails, Flush, Compact, CreateTmp, SyncTmp, WriteSortedFails, CompactDone,
         disk, memory
<1>3. LogKnown' /\ LogPromised' /\ LogCovers' /\ ReadsPromised' /\ DownPromised'
  BY <1>1, <1>2 DEF DInv, LogKnown, Settled, LogPromised, LogCovers, ReadsPromised, DownPromised
<1>4. NewId' = NewId
  BY <1>2 DEF NewId, Flushed
<1>5. NothingElse' /\ ListedSettled' /\ ReplacedCovered'
  BY <1>1, <1>2, <1>4, TablesSame
<1>6. NewContent'
  BY <1>1, <1>2 DEF DInv, NewContent, Flushed
<1> QED
  BY <1>2, <1>3, <1>5, <1>6 DEF DInv, Survivable, LogKept

\* The clauses about the log and the reads, when the step touches neither.
LEMMA LogSame ==
  ASSUME DInv, UNCHANGED <<wal, walMay, memtable, promised>>, walNamed',
         \A k \in Keys : Get(k)' = Get(k),
         "power" \notin failing => \A i \in Ids : tableMay'[i] = {table'[i]},
         pc \notin {"down", "clear_sync"}, pc' \notin {"down", "append", "wal_sync"},
         failing' = failing
  PROVE  /\ LogKnown' /\ LogPromised' /\ LogCovers' /\ ReadsPromised' /\ DownPromised'
         /\ Survivable'
BY DEF DInv, LogKnown, Settled, LogPromised, LogCovers, ReadsPromised, DownPromised,
       Survivable, LogKept

LEMMA RenameDInv ==
  ASSUME DInv, IInv', Tidy', Rename
  PROVE  DInv'
<1>1. \A k \in Keys : /\ NewestIn(sstables, k)' = NewestIn(sstables, k)
                     /\ View(k)' = View(k) /\ Get(k)' = Get(k)
  BY UnlistedReads DEF DInv
<1>2. /\ pc = "rename" /\ pc' = "dir_sync" /\ ~Flushed /\ ~Flushed' /\ tmp = "synced"
      /\ UNCHANGED <<wal, walMay, walNamed, op, memtable, sstables, old, nextId, promised, failing>>
  BY SameLayers DEF Rename, memory, Flushed, DInv, IInv, Whole
<1>3. /\ nextId \in Ids /\ old = <<>>
      /\ \A n \in Indices(sstables) : sstables[n] \in Ids /\ sstables[n] # nextId
  <2>1. \A n \in Indices(sstables) : sstables[n] \in Ids /\ sstables[n] < nextId
    BY DEF DInv, IInv, TypeOK, Ages, Indices
  <2> QED
    BY <1>2, <2>1, MaxIdAssumption DEF DInv, IInv, TypeOK, Phases, Ids
<1>4. /\ \A i \in Ids : i # nextId => table'[i] = table[i] /\ tableMay'[i] = tableMay[i]
      /\ table'[nextId] = Output
      /\ tableMay'[nextId] = Unsynced(tableMay[nextId], Output)
  BY <1>2, <1>3 DEF Rename, DInv, IInv, TypeOK
<1>5. LogKnown' /\ LogPromised' /\ LogCovers' /\ ReadsPromised' /\ DownPromised' /\ Survivable'
  <2>1. "power" \notin failing => \A i \in Ids : tableMay'[i] = {table'[i]}
    BY <1>4 DEF DInv, LogKnown, Settled, Unsynced
  <2> QED
    BY <1>1, <1>2, <2>1, LogSame DEF DInv, LogKnown
<1>6. Listed' = Listed /\ Replacing' = Replacing /\ NewId' = NewId /\ NewId = nextId
  BY <1>2 DEF Listed, Replacing, NewId, Indices, IdsOf
<1>7. NothingElse'
  BY <1>2, <1>4, <1>6 DEF DInv, NothingElse
<1>8. Indices(<<>>) = {}
  BY DEF Indices
<1>9. ListedSettled' /\ ReplacedCovered'
  BY <1>2, <1>3, <1>4, <1>8 DEF DInv, ListedSettled, ReplacedCovered, Indices
<1>10. Output' = Output
  <2>1. Merged' = Merged
    BY <1>1 DEF Merged
  <2> QED
    BY <1>2, <2>1 DEF Output
<1>11. ASSUME NEW f \in tableMay'[nextId], NEW k \in Keys,
              IsTable(f), f[k] # "NotFound", memtable[k] = "NotFound"
       PROVE  ToOption(f[k]) = View(k)
  <2>1. CASE f \in tableMay[nextId]
    BY <1>2, <1>3, <1>11, <2>1 DEF DInv, NewContent
  <2>2. CASE f = Output
    BY <1>11, <2>2, MergedView DEF Output
  <2> QED
    BY <1>4, <2>1, <2>2 DEF Unsynced
<1>12. NewContent'
  <2>1. ASSUME NEW f \in tableMay'[nextId], NEW k \in Keys,
               IsTable(f), f[k] # "NotFound", memtable[k] = "NotFound"
        PROVE  ToOption(f[k]) = View(k)'
    BY <1>1, <1>11, <2>1
  <2> QED
    BY <1>2, <1>4, <1>10, <2>1 DEF NewContent
<1> QED
  BY <1>5, <1>7, <1>9, <1>12 DEF DInv

\* A directory sync leaves every table as a reader finds it.
LEMMA DirectorySyncedDInv ==
  ASSUME DInv, DirectorySynced, UNCHANGED table
  PROVE  /\ \A i \in Ids : tableMay'[i] = {table'[i]} /\ tableMay'[i] \subseteq tableMay[i]
         /\ walNamed'
         /\ \A i \in Ids : tableMay[i] = {NoFile} => tableMay'[i] = {NoFile}
<1>1. \A i \in Ids : table[i] \in tableMay[i]
  BY DEF DInv, IInv, Whole
<1> QED
  BY <1>1 DEF DirectorySynced

LEMMA FlushDirSyncDInv ==
  ASSUME DInv, IInv', Tidy', FlushDirSync
  PROVE  DInv'
<1>1. \A k \in Keys : View(k)' = View(k) /\ Get(k)' = Get(k)
  BY UnlistedReads DEF DInv
<1>2. /\ pc = "dir_sync" /\ op = "flush" /\ pc' = "truncate" /\ old = <<>>
      /\ nextId' = nextId + 1 /\ nextId \in 0 .. MaxId
      /\ UNCHANGED <<table, wal, walMay, memtable, sstables, old, promised, failing>>
  BY SameLayers DEF FlushDirSync, DInv, IInv, TypeOK, Phases
<1>3. /\ \A i \in Ids : tableMay'[i] = {table'[i]} /\ tableMay'[i] \subseteq tableMay[i]
      /\ walNamed'
      /\ \A i \in Ids : tableMay[i] = {NoFile} => tableMay'[i] = {NoFile}
  BY DirectorySyncedDInv DEF FlushDirSync
<1>4. LogKnown' /\ LogPromised' /\ LogCovers' /\ ReadsPromised' /\ DownPromised' /\ Survivable'
  BY <1>1, <1>2, <1>3, LogSame
<1>5. NewId = nextId /\ NewId' = nextId /\ Flushed' /\ nextId' - 1 = nextId
  BY <1>2 DEF NewId, Flushed
<1>6. NothingElse'
  <2>1. Listed' = Listed /\ Replacing' = Replacing
    BY <1>2 DEF Listed, Replacing, Indices, IdsOf
  <2> QED
    BY <1>2, <1>3, <1>5, <2>1 DEF DInv, NothingElse
<1>7. Indices(<<>>) = {} /\ \A n \in Indices(sstables) : sstables[n] \in Ids
  BY DEF Indices, DInv, IInv, TypeOK
<1>8. ListedSettled' /\ ReplacedCovered'
  BY <1>2, <1>3, <1>7 DEF ListedSettled, ReplacedCovered, Indices
<1>9. NewContent'
  <2>1. table[nextId] = memtable
    BY <1>2 DEF DInv, NewContent, Output
  <2>2. nextId \in Ids
    BY <1>2, MaxIdAssumption DEF DInv, IInv, TypeOK, Phases, Ids
  <2> QED
    BY <1>2, <1>3, <1>5, <2>1, <2>2 DEF NewContent
<1> QED
  BY <1>4, <1>6, <1>8, <1>9 DEF DInv

\* A key that the tables read as absent is covered in all of them by the
\* tombstone of the newest that has it.
LEMMA ReplacedByNothing ==
  ASSUME DInv, NEW k \in Keys, View(k) = "None", NEW n \in Indices(sstables),
         IsTable(table[sstables[n]]), table[sstables[n]][k] \in Values
  PROVE  \E m \in Indices(sstables) : m < n /\ table[sstables[m]][k] = "Deleted"
<1>1. sstables \in Seq(Ids) /\ Len(sstables) \in Nat
  BY DEF DInv, IInv, TypeOK
<1>2. Holds(sstables[n], k)
  BY EntryFacts DEF Holds
<1>3. PICK m \in Indices(sstables) :
        /\ Holds(sstables[m], k)
        /\ \A j \in Indices(sstables) : j < m => ~Holds(sstables[j], k)
        /\ NewestIn(sstables, k) = table[sstables[m]][k]
  BY <1>1, <1>2, NewestExists
<1>4. NewestIn(sstables, k) \in Entries /\ NewestIn(sstables, k) \notin Values
  BY <1>1, NewestType, EntryFacts DEF DInv, IInv, View
<1>5. table[sstables[m]][k] = "Deleted"
  BY <1>3, <1>4 DEF Entries, Holds
<1>6. m # n /\ ~(n < m)
  BY <1>2, <1>3, <1>4
<1>7. m < n
  BY <1>6 DEF Indices
<1> QED
  BY <1>5, <1>7

LEMMA CompactDirSyncDInv ==
  ASSUME DInv, IInv', Tidy', CompactDirSync
  PROVE  DInv'
<1>1. \A k \in Keys : View(k)' = View(k) /\ Get(k)' = Get(k)
  BY CompactDirSyncReads
<1>2. /\ pc = "dir_sync" /\ pc' = "unlink" /\ old = <<>> /\ nextId' = nextId + 1
      /\ sstables' = <<nextId>> /\ old' = sstables /\ nextId \in Ids
      /\ UNCHANGED <<table, wal, walMay, memtable, promised, failing>>
  BY SameLayers, MaxIdAssumption DEF CompactDirSync, Replaced, DInv, IInv, TypeOK, Phases, Ids
<1>3. /\ \A i \in Ids : tableMay'[i] = {table'[i]} /\ tableMay'[i] \subseteq tableMay[i]
      /\ walNamed'
      /\ \A i \in Ids : tableMay[i] = {NoFile} => tableMay'[i] = {NoFile}
  BY DirectorySyncedDInv DEF CompactDirSync
<1>4. LogKnown' /\ LogPromised' /\ LogCovers' /\ ReadsPromised' /\ DownPromised' /\ Survivable'
  BY <1>1, <1>2, <1>3, LogSame
<1>5. /\ Indices(sstables') = {1} /\ sstables'[1] = nextId
      /\ \A n \in Indices(sstables) :
           sstables[n] \in Ids /\ sstables[n] < nextId /\ IsTable(table[sstables[n]])
  BY <1>2 DEF Indices, DInv, IInv, TypeOK, Ages, ListedReadable
<1>6. /\ NewId = nextId /\ NewId' = nextId + 1 /\ ~Flushed'
      /\ Listed' = {nextId} /\ Replacing' = Listed /\ Replacing = {}
  <2>1. Listed' = {nextId}
    BY <1>5 DEF Listed, IdsOf
  <2> QED
    BY <1>2, <2>1 DEF NewId, Flushed, Listed, Replacing, Indices, IdsOf
<1>7. \A i \in Ids : i \notin Listed \cup {nextId} => tableMay'[i] = {NoFile}
  BY <1>2, <1>3, <1>6 DEF DInv, NothingElse
<1>8. NothingElse'
  BY <1>6, <1>7 DEF NothingElse
<1>9. ListedSettled'
  BY <1>2, <1>3, <1>5 DEF ListedSettled
<1>10. ReplacedCovered'
  <2> SUFFICES ASSUME NEW k \in Keys, View(k) = "None", NEW n \in Indices(sstables),
                      IsTable(table[sstables[n]]), table[sstables[n]][k] \in Values
               PROVE  \E m \in Indices(sstables) : m < n /\ table[sstables[m]][k] = "Deleted"
    BY <1>1, <1>2, <1>3, <1>5 DEF ReplacedCovered
  <2> QED
    BY ReplacedByNothing
<1>11. NewContent'
  <2>1. \A n \in Indices(sstables) : sstables[n] # nextId + 1
    BY <1>2, <1>5 DEF Ids
  <2>2. nextId + 1 \in Ids => tableMay'[nextId + 1] = {NoFile}
    BY <1>2, <1>7, <2>1 DEF Listed, Ids, IdsOf
  <2> QED
    BY <1>2, <1>6, <2>2 DEF NewContent, IsTable
<1> QED
  BY <1>4, <1>8, <1>9, <1>10, <1>11 DEF DInv

LEMMA TruncateDInv ==
  ASSUME DInv, IInv', Tidy', Truncate
  PROVE  DInv'
<1>1. \A k \in Keys : View(k)' = View(k) /\ Get(k)' = Get(k)
  BY UnlistedReads DEF DInv
<1>2. /\ pc = "truncate" /\ pc' = "clear_sync" /\ wal' = Blank
      /\ walMay' = Unsynced(walMay, Blank)
      /\ UNCHANGED <<table, tableMay, walNamed, memtable, sstables, old, nextId, promised, failing>>
  BY UnsyncedLayers DEF Truncate, memory
<1>3. LogKnown' /\ LogPromised'
  <2>1. \A k \in Keys : Blank[k] = "NotFound"
    BY DEF Blank
  <2> QED
    BY <1>2, <2>1 DEF DInv, LogKnown, Settled, LogPromised, Unsynced
<1>4. LogCovers' /\ ReadsPromised' /\ DownPromised' /\ Survivable'
  BY <1>1, <1>2 DEF DInv, LogCovers, ReadsPromised, DownPromised, Survivable, LogKept
<1>5. NewId' = NewId
  BY <1>2 DEF NewId, Flushed
<1>6. NothingElse' /\ ListedSettled' /\ ReplacedCovered'
  BY <1>1, <1>2, <1>5, TablesSame
<1>7. NewContent'
  BY <1>2 DEF DInv, NewContent, Flushed
<1> QED
  BY <1>3, <1>4, <1>6, <1>7 DEF DInv

LEMMA ClearSyncDInv ==
  ASSUME DInv, IInv', Tidy', ClearSync
  PROVE  DInv'
<1>1. \A k \in Keys : Get(k)' = Get(k)
  BY ClearSyncReads
<1>2. /\ pc = "clear_sync" /\ pc' = "idle" /\ walMay' = {wal} /\ memtable' = Blank
      /\ old = <<>> /\ old' = <<>>
      /\ UNCHANGED <<table, tableMay, wal, walNamed, nextId, promised, failing>>
  BY SettledLayers DEF ClearSync, DInv, Survivable, Tidy, IInv, Phases
<1>3. /\ nextId - 1 \in Ids /\ sstables \in Seq(Ids)
      /\ tableMay[nextId - 1] = {memtable} /\ table[nextId - 1] = memtable
  BY MaxIdAssumption
     DEF ClearSync, Flushed, DInv, NewContent, IInv, TypeOK, NewTable, Ids
<1>4. LogKnown' /\ LogPromised' /\ LogCovers'
  BY <1>2 DEF DInv, LogKnown, Settled, LogPromised, LogCovers, Blank
<1>5. ReadsPromised' /\ DownPromised' /\ Survivable'
  BY <1>1, <1>2 DEF DInv, ReadsPromised, DownPromised, Survivable, LogKept
<1>6. Listed' = Listed \cup {nextId - 1}
  <2> DEFINE new == <<nextId - 1>>
  <2>1. new \in Seq(Ids) /\ IdsOf(new) = {nextId - 1}
    BY <1>3 DEF IdsOf, Indices
  <2>2. sstables' = new \o sstables
    BY DEF ClearSync, WithNewTable
  <2> HIDE DEF new
  <2>3. IdsOf(sstables') = IdsOf(new) \cup IdsOf(sstables)
    BY <1>3, <2>1, <2>2, ConcatIds
  <2> QED
    BY <2>1, <2>3 DEF Listed
<1>7. Replacing' = Replacing /\ Replacing = {} /\ NewId = nextId - 1 /\ NewId' = nextId
  BY <1>2 DEF Replacing, Indices, NewId, Flushed, IdsOf
<1>8. \A i \in Ids : i \notin Listed \cup {nextId - 1} => tableMay[i] = {NoFile}
  BY <1>2, <1>7 DEF DInv, NothingElse
<1>9. NothingElse'
  BY <1>2, <1>6, <1>7, <1>8 DEF NothingElse
<1>10. ListedSettled'
  <2>1. \A i \in Listed : tableMay[i] = {table[i]}
    BY DEF DInv, ListedSettled, Listed, IdsOf
  <2>2. \A n \in Indices(sstables') : sstables'[n] \in Listed'
    BY DEF Listed, IdsOf
  <2>3. Indices(<<>>) = {}
    BY DEF Indices
  <2> QED
    BY <1>2, <1>3, <1>6, <2>1, <2>2, <2>3 DEF ListedSettled
<1>11. ReplacedCovered'
  BY <1>2 DEF ReplacedCovered, Indices
<1>12. NewContent'
  <2>1. \A n \in Indices(sstables) : sstables[n] # nextId
    <3>1. \A n \in Indices(sstables) : sstables[n] \in Ids /\ sstables[n] < nextId
      BY DEF DInv, IInv, TypeOK, Ages, Indices
    <3> QED
      BY <3>1 DEF Ids
  <2>2. nextId # nextId - 1
    BY DEF DInv, IInv, TypeOK
  <2>3. nextId \in Ids => tableMay[nextId] = {NoFile}
    BY <1>8, <2>1, <2>2 DEF Listed, IdsOf
  <2> QED
    BY <1>2, <2>3 DEF NewContent, Flushed, IsTable
<1> QED
  BY <1>4, <1>5, <1>9, <1>10, <1>11, <1>12 DEF DInv

LEMMA CompactToNothingDInv ==
  ASSUME DInv, IInv', Tidy', CompactToNothing
  PROVE  DInv'
<1>1. \A k \in Keys : View(k)' = View(k) /\ Get(k)' = Get(k)
  BY CompactToNothingReads
<1>2. /\ pc = "idle" /\ pc' = "unlink" /\ old = <<>> /\ sstables' = <<>> /\ old' = sstables
      /\ UNCHANGED <<table, tableMay, wal, walMay, walNamed, memtable, nextId, promised, failing>>
  BY SameLayers DEF CompactToNothing, Replaced, disk, DInv, IInv, Phases
<1>3. LogKnown' /\ LogPromised' /\ LogCovers' /\ ReadsPromised' /\ DownPromised' /\ Survivable'
  BY <1>1, <1>2, LogSame DEF DInv, LogKnown, Settled
<1>4. Listed' = {} /\ Replacing' = Listed /\ Replacing = {} /\ NewId' = NewId
  BY <1>2 DEF Listed, Replacing, Indices, NewId, Flushed, IdsOf
<1>5. NothingElse'
  BY <1>2, <1>4 DEF DInv, NothingElse
<1>6. Indices(<<>>) = {}
  BY DEF Indices
<1>7. \A n \in Indices(sstables) : tableMay[sstables[n]] = {table[sstables[n]]}
  BY DEF DInv, ListedSettled
<1>8. ListedSettled'
  BY <1>2, <1>6, <1>7 DEF ListedSettled
<1>9. ReplacedCovered'
  <2> SUFFICES ASSUME NEW k \in Keys, View(k) = "None", NEW n \in Indices(sstables),
                      IsTable(table[sstables[n]]), table[sstables[n]][k] \in Values
               PROVE  \E m \in Indices(sstables) : m < n /\ table[sstables[m]][k] = "Deleted"
    BY <1>1, <1>2, <1>7 DEF ReplacedCovered
  <2> QED
    BY ReplacedByNothing
<1>10. NewContent'
  BY <1>1, <1>2 DEF DInv, NewContent, Flushed
<1> QED
  BY <1>3, <1>5, <1>8, <1>9, <1>10 DEF DInv

LEMMA UnlinkDInv ==
  ASSUME DInv, IInv', Tidy', Unlink
  PROVE  DInv'
<1>1. \A k \in Keys : View(k)' = View(k) /\ Get(k)' = Get(k)
  BY UnlistedReads DEF DInv
<1>2. /\ pc = "unlink" /\ pc' = "unlink_sync" /\ old # <<>>
      /\ UNCHANGED <<wal, walMay, walNamed, memtable, sstables, old, nextId, promised, failing>>
  BY SameLayers DEF Unlink, memory
<1> DEFINE last == old[Len(old)]
<1>3. /\ Len(old) \in Nat \ {0} /\ last \in Ids /\ Last(old) = last
      /\ nextId \in Nat
  <2>1. old \in Seq(Ids) /\ nextId \in Nat
    BY DEF DInv, IInv, TypeOK
  <2>2. Len(old) \in Nat \ {0} /\ Last(old) \in Ids /\ Last(old) = old[Len(old)]
    BY <1>2, <2>1, FrontLast
  <2> QED
    BY <2>1, <2>2
<1>4. /\ \A i \in Ids : i # last => table'[i] = table[i] /\ tableMay'[i] = tableMay[i]
      /\ table'[last] = NoFile
      /\ tableMay'[last] = Unsynced(tableMay[last], NoFile)
  BY <1>3 DEF Unlink, DInv, IInv, TypeOK
<1>5. /\ \A n \in Indices(sstables) : sstables[n] \in Ids /\ sstables[n] # last
      /\ \A n \in Indices(old) : old[n] \in Ids /\ (n # Len(old) => old[n] # last)
      /\ nextId # last /\ last \in Replacing
  <2>1. \A n \in Indices(sstables) : sstables[n] \in Ids /\ sstables[n] > last
    BY <1>3 DEF DInv, IInv, TypeOK, Ages, Indices
  <2>2. \A n \in Indices(old) : old[n] \in Ids /\ (n # Len(old) => old[n] > last)
    BY <1>3 DEF DInv, IInv, TypeOK, Ages, Indices, Descending
  <2>3. last < nextId /\ last \in Replacing
    BY <1>3 DEF DInv, IInv, Ages, Indices, Replacing, IdsOf
  <2> QED
    BY <1>3, <2>1, <2>2, <2>3 DEF Ids
<1> HIDE DEF last
<1>6. LogKnown' /\ LogPromised' /\ LogCovers' /\ ReadsPromised' /\ DownPromised' /\ Survivable'
  <2>1. "power" \notin failing => \A i \in Ids : tableMay'[i] = {table'[i]}
    BY <1>2, <1>4 DEF DInv, LogKnown, Settled, Unsynced
  <2> QED
    BY <1>1, <1>2, <2>1, LogSame DEF DInv, LogKnown
<1>7. Listed' = Listed /\ Replacing' = Replacing /\ NewId' = NewId /\ NewId = nextId
  BY <1>2 DEF Listed, Replacing, NewId, Flushed, Indices, IdsOf
<1>8. NothingElse'
  BY <1>2, <1>4, <1>5, <1>7 DEF DInv, NothingElse
<1>9. ListedSettled'
  BY <1>2, <1>4, <1>5 DEF DInv, ListedSettled, Indices, last
<1>10. ReplacedCovered'
  <2> SUFFICES ASSUME NEW k \in Keys, View(k) = "None", NEW n \in Indices(old),
                      NEW f \in tableMay'[old[n]], IsTable(f), f[k] \in Values
               PROVE  \E m \in Indices(old) : m < n /\ table'[old[m]][k] = "Deleted"
    BY <1>1, <1>2 DEF ReplacedCovered
  <2>1. f \in tableMay[old[n]]
    BY <1>4, <1>5 DEF Unsynced, IsTable
  <2>2. PICK m \in Indices(old) : m < n /\ table[old[m]][k] = "Deleted"
    BY <2>1 DEF DInv, ReplacedCovered
  <2>3. m # Len(old)
    BY <1>3, <2>2 DEF Indices
  <2> QED
    BY <1>4, <1>5, <2>2, <2>3
<1>11. NewContent'
  BY <1>1, <1>2, <1>4, <1>5 DEF DInv, NewContent, Flushed
<1> QED
  BY <1>6, <1>8, <1>9, <1>10, <1>11 DEF DInv

\* The tables that a failed compaction serves again are settled, and none is
\* left to be replaced.
LEMMA RelistedDInv ==
  ASSUME DInv, IInv', Tidy', pc \in {"unlink", "unlink_sync"}, pc' = "idle",
         UNCHANGED <<disk, memtable, nextId, promised, failing>>,
         \A k \in Keys : View(k)' = View(k) /\ Get(k)' = Get(k),
         NEW again, Listed' = Listed \cup again, old' = <<>>,
         \A i \in again : tableMay[i] = {table[i]},
         \A i \in Replacing : i \in again \/ tableMay[i] = {NoFile}
  PROVE  DInv'
<1>1. UNCHANGED <<table, tableMay, wal, walMay, walNamed>>
  BY SameLayers DEF disk
<1>2. LogKnown' /\ LogPromised' /\ LogCovers' /\ ReadsPromised' /\ DownPromised' /\ Survivable'
  BY <1>1, LogSame DEF DInv, LogKnown, Settled
<1>3. NewId' = NewId
  BY DEF NewId, Flushed
<1>4. NothingElse'
  BY <1>1, <1>3 DEF DInv, NothingElse
<1>5. Indices(<<>>) = {}
  BY DEF Indices
<1>6. ListedSettled'
  <2>1. \A i \in Listed : tableMay[i] = {table[i]}
    BY DEF DInv, ListedSettled, Listed, IdsOf
  <2>2. \A n \in Indices(sstables') : sstables'[n] \in Listed'
    BY DEF Listed, IdsOf
  <2> QED
    BY <1>1, <1>5, <2>1, <2>2 DEF ListedSettled
<1>7. ReplacedCovered'
  BY <1>5 DEF ReplacedCovered
<1>8. NewContent'
  BY <1>1 DEF DInv, NewContent, Flushed
<1> QED
  BY <1>2, <1>4, <1>6, <1>7, <1>8 DEF DInv

LEMMA UnlinkFailsDInv ==
  ASSUME DInv, IInv', Tidy', UnlinkFails
  PROVE  DInv'
<1>1. \A k \in Keys : View(k)' = View(k) /\ Get(k)' = Get(k)
  BY UnlinkFailsReads
<1>2. Listed' = Listed \cup Replacing
  <2>1. sstables' = sstables \o old /\ old \in Seq(Ids) /\ sstables \in Seq(Ids)
    BY DEF UnlinkFails, DInv, IInv, TypeOK
  <2>2. IdsOf(sstables') = IdsOf(sstables) \cup IdsOf(old)
    BY <2>1, ConcatIds
  <2> QED
    BY <2>2 DEF Listed, Replacing
<1>3. \A i \in Replacing : tableMay[i] = {table[i]}
  BY DEF UnlinkFails, DInv, ListedSettled, Replacing, IdsOf
<1> QED
  BY <1>1, <1>2, <1>3, RelistedDInv DEF UnlinkFails

LEMMA UnlinkSyncFailsDInv ==
  ASSUME DInv, IInv', Tidy', UnlinkSyncFails
  PROVE  DInv'
<1>1. \A k \in Keys : View(k)' = View(k) /\ Get(k)' = Get(k)
  BY UnlinkFailsReads
<1>2. old # <<>> /\ old \in Seq(Ids) /\ sstables \in Seq(Ids)
  BY DEF UnlinkSyncFails, DInv, IInv, TypeOK, Phases
<1>3. /\ Rest \in Seq(Ids) /\ Len(Rest) = Len(old) - 1 /\ Len(old) \in Nat \ {0}
      /\ \A n \in Indices(Rest) : n \in Indices(old) /\ Rest[n] = old[n]
  BY <1>2, FrontLast DEF Rest
<1>4. Listed' = Listed \cup IdsOf(Rest)
  <2>1. sstables' = sstables \o Rest
    BY DEF UnlinkSyncFails
  <2>2. IdsOf(sstables') = IdsOf(sstables) \cup IdsOf(Rest)
    BY <1>2, <1>3, <2>1, ConcatIds
  <2> QED
    BY <2>2 DEF Listed
<1>5. \A i \in IdsOf(Rest) : tableMay[i] = {table[i]}
  <2>1. \A n \in Indices(Rest) : n # Len(old)
    BY <1>3 DEF Indices
  <2>2. \A n \in Indices(Rest) : tableMay[Rest[n]] = {table[Rest[n]]}
    BY <1>3, <2>1 DEF DInv, ListedSettled
  <2> QED
    BY <2>2 DEF IdsOf
<1>6. \A n \in Indices(old) : old[n] \in IdsOf(Rest) \/ tableMay[old[n]] = {NoFile}
  <2> SUFFICES ASSUME NEW n \in Indices(old)
               PROVE  old[n] \in IdsOf(Rest) \/ tableMay[old[n]] = {NoFile}
    OBVIOUS
  <2>1. CASE n = Len(old)
    <3>1. table[old[n]] = NoFile
      BY <2>1 DEF UnlinkSyncFails, DInv, ListedSettled
    <3>2. "power" \notin failing
      BY DEF UnlinkSyncFails, DInv, Survivable, LogKept
    <3>3. tableMay[old[n]] = {table[old[n]]}
      BY <3>2, <1>2 DEF DInv, LogKnown, Settled, Indices
    <3> QED
      BY <3>1, <3>3
  <2>2. CASE n # Len(old)
    <3>1. n \in Indices(Rest)
      BY <1>3, <2>2 DEF Indices
    <3> QED
      BY <1>3, <3>1 DEF IdsOf
  <2> QED
    BY <2>1, <2>2
<1>7. \A i \in Replacing : i \in IdsOf(Rest) \/ tableMay[i] = {NoFile}
  BY <1>6 DEF Replacing, IdsOf
<1> QED
  BY <1>1, <1>4, <1>5, <1>7, RelistedDInv DEF UnlinkSyncFails

LEMMA UnlinkSyncDInv ==
  ASSUME DInv, IInv', Tidy', UnlinkSync
  PROVE  DInv'
<1>1. \A k \in Keys : View(k)' = View(k) /\ Get(k)' = Get(k)
  BY UnlistedReads DEF DInv
<1>2. /\ pc = "unlink_sync" /\ pc' = "unlink" /\ old # <<>> /\ old \in Seq(Ids) /\ old' = Rest
      /\ UNCHANGED <<table, wal, walMay, memtable, sstables, nextId, promised, failing>>
  BY SameLayers DEF UnlinkSync, DInv, IInv, TypeOK, Phases
<1>3. /\ \A i \in Ids : tableMay'[i] = {table'[i]} /\ tableMay'[i] \subseteq tableMay[i]
      /\ walNamed'
      /\ \A i \in Ids : tableMay[i] = {NoFile} => tableMay'[i] = {NoFile}
  BY DirectorySyncedDInv DEF UnlinkSync
<1>4. LogKnown' /\ LogPromised' /\ LogCovers' /\ ReadsPromised' /\ DownPromised' /\ Survivable'
  BY <1>1, <1>2, <1>3, LogSame
<1>5. /\ Len(Rest) = Len(old) - 1 /\ Len(old) \in Nat \ {0} /\ Rest \in Seq(Ids)
      /\ \A n \in Indices(Rest) : n \in Indices(old) /\ Rest[n] = old[n]
  BY <1>2, FrontLast DEF Rest
<1>6. \A n \in Indices(old) : old[n] \in Ids /\ (n \in Indices(Rest) \/ table[old[n]] = NoFile)
  <2>1. \A n \in Indices(old) : n \in Indices(Rest) \/ n = Len(old)
    BY <1>5 DEF Indices
  <2>2. \A n \in Indices(old) : old[n] \in Ids
    BY <1>2 DEF Indices
  <2> QED
    BY <1>2, <2>1, <2>2 DEF DInv, ListedSettled
<1>7. NewId' = NewId /\ Listed' = Listed
  BY <1>2 DEF NewId, Flushed, Listed, Indices, IdsOf
<1>8. NothingElse'
  <2> SUFFICES ASSUME NEW i \in Ids, i \notin Listed \cup Replacing' \cup {NewId}
               PROVE  tableMay'[i] = {NoFile}
    BY <1>7 DEF NothingElse
  <2>1. CASE i \in Replacing
    <3>1. PICK n \in Indices(old) : i = old[n]
      BY <2>1 DEF Replacing, IdsOf
    <3>2. n \in Indices(Rest) => i \in Replacing'
      BY <1>2, <1>5, <3>1 DEF Replacing, IdsOf
    <3>3. table[i] = NoFile
      BY <1>6, <3>1, <3>2
    <3> QED
      BY <1>2, <1>3, <3>3
  <2>2. CASE i \notin Replacing
    BY <1>2, <1>3, <2>2 DEF DInv, NothingElse
  <2> QED
    BY <2>1, <2>2
<1>9. ListedSettled'
  <2>1. \A n \in Indices(sstables) : sstables[n] \in Ids
    BY DEF DInv, IInv, TypeOK, Indices
  <2>2. \A n \in Indices(Rest) : Rest[n] \in Ids
    BY <1>5, <1>6
  <2> QED
    BY <1>2, <1>3, <2>1, <2>2 DEF ListedSettled, Indices
<1>10. ReplacedCovered'
  <2> SUFFICES ASSUME NEW k \in Keys, View(k) = "None", NEW n \in Indices(Rest),
                      NEW f \in tableMay'[Rest[n]], IsTable(f), f[k] \in Values
               PROVE  \E m \in Indices(Rest) : m < n /\ table[Rest[m]][k] = "Deleted"
    BY <1>1, <1>2 DEF ReplacedCovered
  <2>1. n \in Indices(old) /\ f \in tableMay[old[n]]
    BY <1>3, <1>5, <1>6
  <2>2. PICK m \in Indices(old) : m < n /\ table[old[m]][k] = "Deleted"
    BY <2>1 DEF DInv, ReplacedCovered
  <2>3. m \in Indices(Rest)
    BY <1>5, <2>2 DEF Indices
  <2> QED
    BY <1>5, <2>2, <2>3
<1>11. NewContent'
  <2> SUFFICES ASSUME nextId \in Ids, NEW f \in tableMay'[nextId], NEW k \in Keys,
                      IsTable(f), f[k] # "NotFound", memtable[k] = "NotFound"
               PROVE  ToOption(f[k]) = View(k)
    BY <1>1, <1>2 DEF NewContent, Flushed
  <2>1. f \in tableMay[nextId]
    BY <1>3
  <2> QED
    BY <1>2, <2>1 DEF DInv, NewContent, Flushed
<1> QED
  BY <1>4, <1>8, <1>9, <1>10, <1>11 DEF DInv

\* The fewer contents the disk may show, the fewer values it may reveal.
LEMMA FatesShrink ==
  ASSUME \A i \in Ids : tableMay'[i] \subseteq tableMay[i],
         walMay' \subseteq walMay, walNamed, walNamed', NEW k \in Keys
  PROVE  Fates(k)' \subseteq Fates(k)
<1>1. \A i \in Ids : CanMiss(i, k)' => CanMiss(i, k)
  BY DEF CanMiss
<1>2. TableFates(k)' \subseteq TableFates(k)
  <2> SUFFICES ASSUME NEW r \in TableFates(k)' PROVE r \in TableFates(k)
    OBVIOUS
  <2>1. CASE r = "None" /\ \A j \in Ids : j > -1 => CanMiss(j, k)'
    BY <1>1, <2>1 DEF TableFates
  <2>2. ASSUME NEW i \in Ids, \A j \in Ids : j > i => CanMiss(j, k)',
               NEW f \in tableMay'[i], IsTable(f), f[k] # "NotFound", r = ToOption(f[k])
        PROVE  r \in TableFates(k)
    <3>1. /\ \A j \in Ids : j > i => CanMiss(j, k)
          /\ f \in tableMay[i]
      BY <1>1, <2>2
    <3> QED
      BY <2>2, <3>1 DEF TableFates
  <2> QED
    BY <2>1, <2>2 DEF TableFates, IsTable, ToOption
<1>3. WalOutcomes' \subseteq WalOutcomes
  BY DEF WalOutcomes
<1> QED
  BY <1>2, <1>3 DEF Fates, ToOption

\* Death takes the memory and leaves a disk that reveals no more than before.
LEMMA MemoryLostDInv ==
  ASSUME DInv, IInv', Tidy', MemoryLost, UNCHANGED promised, Settled', walNamed',
         \A i \in Ids : tableMay'[i] \subseteq tableMay[i], walMay' \subseteq walMay
  PROVE  DInv'
<1>1. LogKnown' /\ LogPromised' /\ LogCovers' /\ ReadsPromised' /\ Survivable'
  BY DEF MemoryLost, DInv, LogKnown, LogPromised, LogCovers, ReadsPromised,
         Survivable, LogKept, Settled
<1>2. Indices(<<>>) = {}
  BY DEF Indices
<1>3. NothingElse' /\ ListedSettled' /\ ReplacedCovered' /\ NewContent'
  BY <1>2 DEF MemoryLost, NothingElse, ListedSettled, ReplacedCovered, NewContent, Flushed
<1>4. DownPromised'
  <2>1. FatesPromised
    BY DInvFates
  <2>2. \A k \in Keys : Fates(k)' \subseteq Fates(k)
    BY FatesShrink DEF DInv, LogKnown
  <2> QED
    BY <2>1, <2>2 DEF FatesPromised, DownPromised
<1> QED
  BY <1>1, <1>3, <1>4 DEF DInv

LEMMA KillDInv ==
  ASSUME DInv, IInv', Tidy', Kill
  PROVE  DInv'
<1>1. Settled /\ walNamed /\ walNamed' /\ UNCHANGED <<table, tableMay>>
  BY DEF Kill, DInv, Survivable, LogKept, LogKnown
<1>2. wal' = wal /\ wal \in walMay' /\ walMay' \subseteq walMay
  BY KillLayers DEF DInv, Survivable, LogKnown
<1>3. Settled'
  BY <1>1, <1>2 DEF Settled
<1> QED
  BY <1>1, <1>2, <1>3, MemoryLostDInv DEF Kill

LEMMA PowerLossDInv ==
  ASSUME DInv, IInv', Tidy', PowerLoss
  PROVE  DInv'
<1>1. wal' \in walMay /\ walNamed' /\ walMay' = {wal'}
  BY PowerLossLayers DEF DInv, LogKnown
<1>2. \A i \in Ids : tableMay'[i] = {table'[i]} /\ table'[i] \in tableMay[i]
  BY DEF PowerLoss
<1>3. Settled'
  BY <1>1, <1>2 DEF Settled
<1> QED
  BY <1>1, <1>2, <1>3, MemoryLostDInv DEF PowerLoss

\* Reopening lists every table there is.
LEMMA OpenLists ==
  ASSUME IInv', Open
  PROVE  /\ \A i \in Ids : i \notin Listed' => table[i] = NoFile
         /\ \A n \in Indices(sstables') : sstables'[n] \in Ids /\ sstables'[n] < nextId'
<1>1. PICK s \in NewestFirstSeqs(Present) : sstables' = s
  BY DEF Open
<1>2. IsFiniteSet(Present) /\ Cardinality(Present) \in Nat
  <2>1. IsFiniteSet(Ids) /\ Present \subseteq Ids
    BY MaxIdAssumption, FS_Interval DEF Ids, Present
  <2> QED
    BY <2>1, FS_Subset, FS_CardinalityType
<1>3. /\ s \in [1 .. Cardinality(Present) -> Present]
      /\ \A i \in Present : \E n \in 1 .. Cardinality(Present) : s[n] = i
  BY DEF NewestFirstSeqs
<1>4. Len(s) = Cardinality(Present)
  BY <1>2, <1>3
<1>5. \A i \in Present : i \in IdsOf(s)
  BY <1>3, <1>4 DEF IdsOf, Indices
<1>6. Listed' = IdsOf(s)
  BY <1>1 DEF Listed, IdsOf
<1>7. \A n \in Indices(sstables') : sstables'[n] \in Ids /\ sstables'[n] < nextId'
  BY DEF IInv, TypeOK, Ages, Indices
<1> QED
  BY <1>5, <1>6, <1>7 DEF Present

LEMMA OpenDInv ==
  ASSUME DInv, IInv', Tidy', Open
  PROVE  DInv'
<1>1. Settled /\ walNamed /\ FatesPromised /\ old = <<>>
  BY DEF Open, DInv, LogKnown, DownPromised, IInv, Phases
<1>2. /\ pc' = "idle" /\ memtable' = wal
      /\ UNCHANGED <<table, tableMay, wal, walMay, walNamed, old, promised, failing>>
  BY SameLayers DEF Open
<1>3. LogKnown' /\ LogPromised' /\ LogCovers' /\ DownPromised' /\ Survivable'
  BY <1>1, <1>2 DEF DInv, LogKnown, Settled, LogPromised, LogCovers, DownPromised, Survivable, LogKept
<1>4. ReadsPromised'
  <2>1. \A k \in Keys : Get(k)' \in promised[k]
    BY <1>1, OpenReads DEF FatesPromised
  <2> QED
    BY <1>2, <2>1 DEF ReadsPromised
<1>5. Indices(<<>>) = {}
  BY DEF Indices
<1>6. /\ \A i \in Ids : i \notin Listed' => table[i] = NoFile
      /\ \A n \in Indices(sstables') : sstables'[n] \in Ids /\ sstables'[n] < nextId'
  BY OpenLists
<1>7. NothingElse'
  BY <1>1, <1>2, <1>6 DEF NothingElse, Settled
<1>8. ListedSettled' /\ ReplacedCovered'
  BY <1>1, <1>2, <1>5, <1>6 DEF ListedSettled, ReplacedCovered, Settled
<1>9. NewContent'
  <2>1. nextId' \notin Listed'
    <3>1. \A n \in Indices(sstables') : sstables'[n] # nextId'
      BY <1>6 DEF Ids
    <3> QED
      BY <3>1 DEF Listed, IdsOf
  <2>2. nextId' \in Ids => tableMay'[nextId'] = {NoFile}
    BY <1>1, <1>2, <1>6, <2>1 DEF Settled
  <2> QED
    BY <1>2, <2>2 DEF NewContent, Flushed, IsTable
<1> QED
  BY <1>3, <1>4, <1>7, <1>8, <1>9 DEF DInv

LEMMA NextDInv == DInv /\ [Next]_vars => DInv'
<1> SUFFICES ASSUME DInv, [Next]_vars PROVE DInv'
  OBVIOUS
<1>1. IInv' /\ Tidy'
  BY NextIInv, NextTidy DEF DInv
<1>2. ASSUME NEW k \in Keys, NEW e \in Writes, Put(k, e) PROVE DInv'
  BY <1>1, <1>2, PutDInv
<1>3. CASE WalWrite \/ WalSync
  BY <1>1, <1>3, WalWriteDInv, WalSyncDInv
<1>4. CASE \/ WalSyncFails \/ Flush \/ Compact \/ CreateTmp \/ SyncTmp
           \/ WriteSortedFails \/ CompactDone
  BY <1>1, <1>4, QuietDInv
<1>5. CASE Rename
  BY <1>1, <1>5, RenameDInv
<1>6. CASE FlushDirSync \/ CompactDirSync
  BY <1>1, <1>6, FlushDirSyncDInv, CompactDirSyncDInv
<1>7. CASE Truncate \/ ClearSync
  BY <1>1, <1>7, TruncateDInv, ClearSyncDInv
<1>8. CASE WalWriteFails \/ ClearFails
  BY <1>8 DEF WalWriteFails, ClearFails, DInv, Survivable, LogKept
<1>9. CASE CompactToNothing
  BY <1>1, <1>9, CompactToNothingDInv
<1>10. CASE Unlink \/ UnlinkSync
  BY <1>1, <1>10, UnlinkDInv, UnlinkSyncDInv
<1>11. CASE UnlinkFails \/ UnlinkSyncFails
  BY <1>1, <1>11, UnlinkFailsDInv, UnlinkSyncFailsDInv
<1>12. CASE Kill \/ PowerLoss \/ Open
  BY <1>1, <1>12, KillDInv, PowerLossDInv, OpenDInv
<1>13. CASE OpenFails \/ UNCHANGED vars
  <2>1. \A k \in Keys : View(k)' = View(k) /\ Get(k)' = Get(k)
    BY <1>13, UnlistedReads DEF DInv
  <2>2. UNCHANGED <<table, tableMay, wal, walMay, walNamed, op, record, memtable,
                    sstables, old, nextId, pc, promised, failing>>
    BY SameLayers, <1>13 DEF OpenFails, vars, disk, memory
  <2>3. LogKnown' /\ LogPromised' /\ LogCovers' /\ ReadsPromised' /\ Survivable'
    BY <2>1, <2>2 DEF DInv, LogKnown, Settled, LogPromised, LogCovers, ReadsPromised, Survivable, LogKept
  <2>4. NothingElse' /\ ListedSettled' /\ ReplacedCovered'
    BY <2>1, <2>2 DEF DInv, NothingElse, ListedSettled, ReplacedCovered, Listed, Replacing,
                      IdsOf, Indices, NewId, Flushed
  <2>5. Output' = Output
    <3>1. \A k \in Keys : NewestIn(sstables, k)' = NewestIn(sstables, k)
      BY <1>13, UnlistedReads DEF DInv
    <3>2. Merged' = Merged
      BY <3>1 DEF Merged
    <3> QED
      BY <2>2, <3>2 DEF Output
  <2>6. NewContent'
    BY <2>1, <2>2, <2>5 DEF DInv, NewContent, Flushed
  <2>7. DownPromised'
    <3>1. \A k \in Keys : Fates(k)' \subseteq Fates(k)
      BY <2>2, FatesShrink DEF DInv, LogKnown
    <3> QED
      BY <2>2, <3>1 DEF DInv, DownPromised, FatesPromised
  <2> QED
    BY <1>1, <2>3, <2>4, <2>6, <2>7 DEF DInv
<1> QED
  BY <1>2, <1>3, <1>4, <1>5, <1>6, <1>7, <1>8, <1>9, <1>10, <1>11, <1>12, <1>13
     DEF Next, Step

THEOREM DurableInductive == Spec => [](Survivable => DInv)
<1>1. Init => (Survivable => DInv)
  BY InitDInv
<1>2. (Survivable => DInv) /\ [Next]_vars => (Survivable => DInv)'
  <2> SUFFICES ASSUME Survivable => DInv, [Next]_vars, Survivable' PROVE DInv'
    OBVIOUS
  <2>1. Survivable
    BY FailingFixed DEF Survivable, LogKept
  <2> QED
    BY <2>1, NextDInv
<1> QED
  BY <1>1, <1>2, PTL DEF Spec

-----------------------------------------------------------------------------
(* What follows *)

\* Where the failures are survivable, whichever of them happen and whenever: all
\* that a restart may reveal of a key is its last synced write or one attempted
\* after it.  Power loss may cut the log, but a cut log only makes the restart
\* fail (lsm.rs:111-113, 167-168 and 209-217).
THEOREM Durable == Spec => []NoAckedLoss
<1>1. (Survivable => DInv) => NoAckedLoss
  BY DInvFates DEF FatesPromised, NoAckedLoss
<1> QED
  BY <1>1, DurableInductive, PTL

\* Where the failures are survivable, a key whose delete was acknowledged reads as
\* absent, through flushes and the compactions that drop its tombstone, until it
\* is written again.  (It need not where they are not: lsm.rs:127-128, 179-180.)
THEOREM DeletesHold == Spec => [](Survivable => DeletedStaysDeleted)
<1>1. (Survivable => DInv) => (Survivable => DeletedStaysDeleted)
  BY DEF DInv, ReadsPromised, DeletedStaysDeleted
<1> QED
  BY <1>1, DurableInductive, PTL

-----------------------------------------------------------------------------
(***************************************************************************)
(* The refinement: every step of the tree is one of the durable map's, or  *)
(* none.                                                                   *)
(***************************************************************************)

\* The durable map's store and write, as Abstract maps them.
Store == [k \in Keys |-> IF pc = "down" THEN "Unavailable" ELSE Get(k)]
Write == IF record = NoRecord THEN <<>> ELSE <<record[1], ToOption(record[2])>>

\* A put or delete is under way from its record to its answer, which a flush that
\* it set off gives, and a compaction never does.
Replies ==
  /\ pc \in {"append", "wal_sync"} <=> record # NoRecord
  /\ pc \in {"append", "wal_sync"} => reply = "pending"
  /\ reply = "pending" =>
       \/ pc \in {"append", "wal_sync", "truncate", "clear_sync"}
       \/ pc \in {"create", "sync", "rename", "dir_sync"} /\ op = "flush"
  /\ pc = "down" => reply = "none"

LEMMA NextReplies == Replies /\ [Next]_vars => Replies'
<1> SUFFICES ASSUME Replies, [Next]_vars PROVE Replies'
  OBVIOUS
<1> USE DEF Replies, NoRecord
<1>1. CASE \/ \E k \in Keys, e \in Writes : Put(k, e)
           \/ WalWrite \/ WalWriteFails \/ WalSync \/ WalSyncFails
  BY <1>1 DEF Put, WalWrite, WalWriteFails, WalSync, WalSyncFails
<1>2. CASE \/ Flush \/ CreateTmp \/ SyncTmp \/ Rename \/ FlushDirSync \/ CompactDirSync
           \/ WriteSortedFails \/ Truncate \/ ClearSync \/ ClearFails
  BY <1>2 DEF Flush, CreateTmp, SyncTmp, Rename, FlushDirSync, CompactDirSync,
              WriteSortedFails, Truncate, ClearSync, ClearFails, Answered, memory
<1>3. CASE \/ Compact \/ CompactToNothing \/ Unlink \/ UnlinkFails \/ UnlinkSync
           \/ UnlinkSyncFails \/ CompactDone
  BY <1>3 DEF Compact, CompactToNothing, Unlink, UnlinkFails, UnlinkSync,
              UnlinkSyncFails, CompactDone, memory
<1>4. CASE Kill \/ PowerLoss \/ Open \/ OpenFails \/ UNCHANGED vars
  BY <1>4 DEF Kill, PowerLoss, MemoryLost, Open, OpenFails, vars, memory
<1> QED
  BY <1>1, <1>2, <1>3, <1>4 DEF Next, Step

LEMMA AbstractInit == Init => Abstract!Init
<1> SUFFICES ASSUME Init PROVE Abstract!Init
  OBVIOUS
<1>1. ASSUME NEW k \in Keys PROVE Get(k) = "None"
  <2>1. NewestIn(<<>>, k) = "NotFound"
    BY NewestMiss DEF Indices
  <2> QED
    BY <2>1, EntryFacts DEF Init, Get, Blank
<1>2. [k \in Keys |-> IF pc = "down" THEN "Unavailable" ELSE Get(k)] = [k \in Keys |-> "None"]
  BY <1>1 DEF Init
<1> QED
  BY <1>2 DEF Init, Abstract!Init, Abstract!NoWrite

\* A step that changes no read, no promise, no call and no process.
LEMMA InvisibleStep ==
  ASSUME pc # "down" <=> pc' # "down", UNCHANGED <<promised, record, reply>>,
         pc # "down" => \A k \in Keys : Get(k)' = Get(k)
  PROVE  UNCHANGED Abstract!vars
<1>1. Store' = Store
  BY DEF Store
<1>2. Write' = Write
  BY DEF Write, ToOption
<1> QED
  BY <1>1, <1>2 DEF Abstract!vars, Store, Write

\* A death: nobody can read any more, and no call returns.
LEMMA DeathStep ==
  ASSUME Replies, MemoryLost, UNCHANGED promised
  PROVE  Abstract!Crash \/ UNCHANGED Abstract!vars
<1>1. CASE pc = "down"
  <2>1. record' = record /\ reply' = reply
    BY <1>1 DEF Replies, MemoryLost
  <2> QED
    BY <1>1, <2>1, InvisibleStep DEF MemoryLost
<1>2. CASE pc # "down"
  <2>1. Store' = [k \in Keys |-> "Unavailable"]
    BY DEF MemoryLost, Store
  <2>2. Write' = <<>>
    BY DEF MemoryLost, Write
  <2> QED
    BY <1>2, <2>1, <2>2
       DEF MemoryLost, Abstract!Crash, Abstract!Unavailable, Abstract!NoWrite, Store, Write
<1> QED
  BY <1>1, <1>2

\* The call returns: with its answer nothing changes for its readers.
LEMMA ReturnStep ==
  ASSUME pc # "down", pc' # "down", UNCHANGED promised,
         \A k \in Keys : Get(k)' = Get(k),
         record' = NoRecord, reply = "pending",
         \/ reply' = "ok" /\ record = NoRecord
         \/ reply' = "error"
  PROVE  Abstract!Return
<1>1. Store' = Store
  BY DEF Store
<1>2. Write' = <<>> /\ (record = NoRecord => Write = <<>>)
  BY DEF Write
<1> QED
  BY <1>1, <1>2 DEF Abstract!Return, Abstract!NoWrite, Store, Write

LEMMA PutStep ==
  ASSUME DInv, Replies, NEW k \in Keys, NEW e \in Writes, Put(k, e)
  PROVE  Abstract!Next
<1>1. \A x \in Keys : Get(x)' = Get(x)
  BY UnlistedReads DEF DInv
<1>2. Store' = Store
  BY <1>1 DEF Store, Put
<1>3. Write' = <<k, ToOption(e)>>
  BY DEF Put, Write, NoRecord
<1>4. reply # "pending" /\ pc # "down" /\ pc' # "down"
  BY DEF Put, Replies
<1>5. ToOption(e) \in Results
  BY EntryFacts, BlankType
<1>6. Abstract!Attempt(k, ToOption(e))
  BY <1>2, <1>3, <1>4 DEF Abstract!Attempt, Put, Store, Write
<1> QED
  BY <1>5, <1>6 DEF Abstract!Next

LEMMA WalSyncStep ==
  ASSUME DInv, Replies, WalSync
  PROVE  Abstract!Next
<1> DEFINE key == record[1]
           value == ToOption(record[2])
<1>1. /\ key \in Keys /\ record[2] \in Writes
      /\ \A k \in Keys : Get(k)' = IF k = key THEN value ELSE Get(k)
  BY WalSyncReads DEF DInv
<1>2. value \in Results
  BY <1>1, EntryFacts, BlankType
<1>3. /\ pc # "down" /\ pc' # "down" /\ promised' = [promised EXCEPT ![key] = {value}]
      /\ reply' \in {"pending", "ok"}
  BY DEF WalSync, Replies
<1>4. Write = <<key, value>> /\ Write' = <<>>
  BY DEF WalSync, Replies, Write
<1> HIDE DEF key, value
<1>5. Store' = [Store EXCEPT ![key] = value]
  BY <1>1, <1>3 DEF Store
<1>6. Abstract!Commit(key, value)
  BY <1>3, <1>4, <1>5 DEF Abstract!Commit, Abstract!NoWrite, Store, Write
<1> QED
  BY <1>1, <1>2, <1>6 DEF Abstract!Next

\* The steps that may answer a put or delete: its own errors, and the end of the
\* flush it set off.
LEMMA AnswerStep ==
  ASSUME DInv, Replies, WalSyncFails \/ WriteSortedFails \/ ClearFails \/ ClearSync
  PROVE  Abstract!Next \/ UNCHANGED Abstract!vars
<1>1. \A k \in Keys : Get(k)' = Get(k)
  BY UnlistedReads, ClearSyncReads DEF DInv
<1>2. pc # "down" /\ pc' # "down" /\ promised' = promised /\ record' = NoRecord
  BY DEF WalSyncFails, WriteSortedFails, ClearFails, ClearSync, Replies
<1>3. CASE WalSyncFails
  <2>1. reply = "pending" /\ reply' = "error"
    BY <1>3 DEF WalSyncFails, Replies
  <2> QED
    BY <1>1, <1>2, <2>1, ReturnStep DEF Abstract!Next
<1>4. CASE ~WalSyncFails /\ reply = "pending"
  <2>1. record = NoRecord /\ reply' \in {"ok", "error"}
    BY <1>4 DEF WriteSortedFails, ClearFails, ClearSync, Answered, Replies
  <2> QED
    BY <1>1, <1>2, <1>4, <2>1, ReturnStep DEF Abstract!Next
<1>5. CASE ~WalSyncFails /\ reply # "pending"
  <2>1. record' = record /\ reply' = reply
    BY <1>5 DEF WriteSortedFails, ClearFails, ClearSync, Answered
  <2> QED
    BY <1>1, <1>2, <2>1, InvisibleStep
<1> QED
  BY <1>3, <1>4, <1>5

LEMMA OpenStep ==
  ASSUME DInv, DInv', Open
  PROVE  Abstract!Next
<1>1. pc = "down" /\ pc' = "idle" /\ UNCHANGED <<promised, record, reply>>
  BY DEF Open
<1>2. \A k \in Keys : Get(k)' \in promised[k] /\ promised[k] \subseteq Results
  BY <1>1 DEF DInv, ReadsPromised, IInv, TypeOK
<1>3. Store' = [k \in Keys |-> Get(k)']
  BY <1>1 DEF Store
<1>4. Store' \in [Keys -> Results] /\ \A k \in Keys : Store'[k] \in promised[k]
  BY <1>2, <1>3
<1>5. Write' = Write
  BY <1>1 DEF Write, ToOption
<1>6. Abstract!Restart
  BY <1>1, <1>4, <1>5 DEF Abstract!Restart, Store, Write
<1> QED
  BY <1>6 DEF Abstract!Next

LEMMA AbstractNext ==
  DInv /\ DInv' /\ Replies /\ [Next]_vars => Abstract!Next \/ UNCHANGED Abstract!vars
<1> SUFFICES ASSUME DInv, DInv', Replies, [Next]_vars
             PROVE  Abstract!Next \/ UNCHANGED Abstract!vars
  OBVIOUS
<1>1. ASSUME NEW k \in Keys, NEW e \in Writes, Put(k, e) PROVE Abstract!Next
  BY <1>1, PutStep
<1>2. CASE WalSync
  BY <1>2, WalSyncStep
<1>3. CASE WalSyncFails \/ WriteSortedFails \/ ClearFails \/ ClearSync
  BY <1>3, AnswerStep
<1>4. CASE \/ WalWrite \/ Flush \/ Compact \/ CreateTmp \/ SyncTmp \/ Rename
           \/ FlushDirSync \/ Truncate \/ Unlink \/ UnlinkSync \/ CompactDone
           \/ OpenFails \/ UNCHANGED vars
  <2>1. \A k \in Keys : Get(k)' = Get(k)
    BY <1>4, UnlistedReads DEF DInv
  <2>2. (pc # "down" <=> pc' # "down") /\ UNCHANGED <<promised, record, reply>>
    BY <1>4 DEF WalWrite, Flush, Compact, CreateTmp, SyncTmp, Rename, FlushDirSync,
                Truncate, Unlink, UnlinkSync, CompactDone, OpenFails, vars, memory
  <2> QED
    BY <2>1, <2>2, InvisibleStep
<1>5. CASE CompactDirSync \/ CompactToNothing \/ UnlinkFails \/ UnlinkSyncFails
  <2>1. \A k \in Keys : Get(k)' = Get(k)
    BY <1>5, CompactDirSyncReads, CompactToNothingReads, UnlinkFailsReads
  <2>2. (pc # "down" <=> pc' # "down") /\ UNCHANGED <<promised, record, reply>>
    BY <1>5 DEF CompactDirSync, CompactToNothing, UnlinkFails, UnlinkSyncFails
  <2> QED
    BY <2>1, <2>2, InvisibleStep
<1>6. CASE WalWriteFails
  BY <1>6 DEF WalWriteFails, DInv, Survivable, LogKept
<1>7. CASE Kill \/ PowerLoss
  <2>1. MemoryLost /\ UNCHANGED promised
    BY <1>7 DEF Kill, PowerLoss
  <2> QED
    BY <2>1, DeathStep DEF Abstract!Next
<1>8. CASE Open
  BY <1>8, OpenStep
<1> QED
  BY <1>1, <1>2, <1>3, <1>4, <1>5, <1>6, <1>7, <1>8 DEF Next, Step

\* Where the failures are survivable, the tree is a durable map to its callers: no
\* flush, compaction or failure in the middle of one changes a read, a put returns
\* Ok only once its record is durable and readable, and a restart that succeeds
\* reveals only what was promised (lsm.rs:111-145).
THEOREM Implements == Spec => ImplementsDurableMap
<1>1. Init => Replies
  BY DEF Init, Replies
<1>2. Init => (Survivable => Abstract!Init)
  BY AbstractInit
<1>3. /\ Survivable => DInv
      /\ (Survivable => DInv)'
      /\ Replies
      /\ [Next]_vars
      => (Survivable => Abstract!Next \/ UNCHANGED Abstract!vars)
  <2> SUFFICES ASSUME Survivable, DInv, (Survivable => DInv)', Replies, [Next]_vars
               PROVE  Abstract!Next \/ UNCHANGED Abstract!vars
    OBVIOUS
  <2>1. Survivable'
    BY FailingFixed DEF Survivable, LogKept
  <2> QED
    BY <2>1, AbstractNext
<1>4. (Survivable => Abstract!Next \/ UNCHANGED Abstract!vars)
        => [Survivable => Abstract!Next \/ UNCHANGED Abstract!vars]_vars
  OBVIOUS
<1> QED
  BY <1>1, <1>2, <1>3, <1>4, NextReplies, DurableInductive, PTL
     DEF Spec, ImplementsDurableMap

(***************************************************************************)
(* Puts, also when failures happen that can undo a delete: the process is  *)
(* killed and power is lost later, unlinks are not synced, tables stay out *)
(* of the list.                                                            *)
(***************************************************************************)

\* The last acknowledged write of k is a put, and so is every one tried since.
IsPut(k) == "None" \notin promised[k]

-----------------------------------------------------------------------------
(* The inductive invariant of puts *)

\* Whatever is left of the table shows a promised value, or none.
Harmless(i, k) ==
  \A f \in tableMay[i] : IsTable(f) => f[k] \in promised[k] \cup {"NotFound"}

\* A table that no failure takes away, with a promised value in it, and above
\* which nothing but promised values can come up.
Anchor(g, k) ==
  /\ g \in Ids
  /\ \A f \in tableMay[g] : IsTable(f) /\ f[k] \in promised[k]
  /\ \A j \in Ids : j > g => Harmless(j, k)

InLog(k) == \A w \in walMay : w[k] # "NotFound"

\* Where a promised put is: in the memtable and in the log, or in a table that
\* reads find; once the log is truncated only in a table.
PutIsSafe(k) ==
  CASE pc = "down"       -> InLog(k) \/ (\E g \in Ids : Anchor(g, k))
    [] pc = "clear_sync" -> \E g \in Listed \cup {nextId - 1} : Anchor(g, k)
    [] OTHER             -> \/ memtable[k] # "NotFound" /\ InLog(k)
                            \/ \E g \in Listed : Anchor(g, k)

PutsSafe == \A k \in Keys : IsPut(k) => PutIsSafe(k)

LogNamed ==
  /\ walNamed
  /\ wal \in walMay
  /\ pc = "append" => ToOption(record[2]) \in promised[record[1]]
  /\ pc = "wal_sync" => wal[record[1]] = record[2]

MemPromised ==
  \A k \in Keys : memtable[k] # "NotFound" => ToOption(memtable[k]) \in promised[k]

\* The table of a flush is settled before the log is truncated, with nothing
\* above it.
NewSettled ==
  /\ Flushed => /\ tableMay[nextId - 1] = {memtable}
                /\ \A j \in Ids : j >= nextId => tableMay[j] = {NoFile}
  /\ pc = "dir_sync" => table[nextId] = Output

NoneNewer == pc # "down" => \A j \in Ids : j > nextId => table[j] = NoFile

PInv == /\ IInv /\ Tame /\ Tidy
        /\ LogNamed /\ LogPromised /\ MemPromised /\ NewSettled /\ NoneNewer
        /\ PutsSafe

-----------------------------------------------------------------------------
(* What the invariant gives *)

\* What a put promised is a value.
LEMMA PutFacts ==
  ASSUME TypeOK, NEW k \in Keys, IsPut(k)
  PROVE  /\ promised[k] \subseteq Values
         /\ \A e : e \in promised[k] => e # "NotFound" /\ ToOption(e) = e
         /\ \A e : ToOption(e) \in promised[k] => e \in promised[k]
<1>1. promised[k] \subseteq Values
  BY DEF TypeOK, IsPut, Results
<1> QED
  BY <1>1, EntryFacts DEF ToOption, IsPut

\* A table that anchors a put decides what a restart reveals of it.
LEMMA AnchorFates ==
  ASSUME TypeOK, NEW k \in Keys, IsPut(k), NEW g, Anchor(g, k)
  PROVE  TableFates(k) \subseteq promised[k]
<1>1. g \in Ids /\ ~CanMiss(g, k)
  BY PutFacts DEF Anchor, CanMiss
<1>2. ~\A j \in Ids : j > -1 => CanMiss(j, k)
  BY <1>1 DEF Ids
<1>3. ASSUME NEW i \in Ids, \A j \in Ids : j > i => CanMiss(j, k),
             NEW f \in tableMay[i], IsTable(f), f[k] # "NotFound"
      PROVE  ToOption(f[k]) \in promised[k]
  <2>1. i = g \/ i > g
    BY <1>1, <1>3 DEF Ids
  <2>2. f[k] \in promised[k]
    BY <1>3, <2>1 DEF Anchor, Harmless
  <2> QED
    BY <2>2, PutFacts
<1> QED
  BY <1>2, <1>3 DEF TableFates

LEMMA PInvPutsKept == PInv => PutsKept
<1> SUFFICES ASSUME PInv, NEW k \in Keys, IsPut(k), NEW r \in Fates(k)
             PROVE  r \in promised[k]
  BY DEF PutsKept, IsPut
<1>1. WalOutcomes = walMay
  BY DEF PInv, LogNamed, WalOutcomes
<1>2. TypeOK
  BY DEF PInv, IInv
<1>3. CASE InLog(k)
  BY <1>1, <1>3 DEF Fates, InLog, PInv, LogPromised
<1>4. CASE ~InLog(k)
  <2>1. PutIsSafe(k)
    BY DEF PInv, PutsSafe
  <2>2. PICK g : Anchor(g, k)
    BY <1>4, <2>1 DEF PutIsSafe
  <2>3. TableFates(k) \subseteq promised[k]
    BY <1>2, <2>2, AnchorFates
  <2> QED
    BY <1>1, <2>3 DEF Fates, PInv, LogPromised
<1> QED
  BY <1>3, <1>4

\* An anchor in the list decides what reads find in the tables.
LEMMA AnchorView ==
  ASSUME IInv, NEW k \in Keys, IsPut(k), NEW g \in Listed, Anchor(g, k)
  PROVE  /\ NewestIn(sstables, k) \in promised[k]
         /\ Merged[k] \in promised[k]
<1>1. sstables \in Seq(Ids) /\ Len(sstables) \in Nat /\ TypeOK
  BY DEF IInv, TypeOK
<1>2. PICK a \in Indices(sstables) : g = sstables[a]
  BY DEF Listed, IdsOf
<1>3. table[g] \in tableMay[g]
  BY DEF Anchor, IInv, Whole
<1>4. Holds(sstables[a], k)
  BY <1>1, <1>2, <1>3, PutFacts DEF Anchor, Holds
<1>5. PICK n \in Indices(sstables) :
        /\ Holds(sstables[n], k)
        /\ \A m \in Indices(sstables) : m < n => ~Holds(sstables[m], k)
        /\ NewestIn(sstables, k) = table[sstables[n]][k]
  BY <1>1, <1>4, NewestExists
<1>6. sstables[n] \in Ids /\ table[sstables[n]] \in tableMay[sstables[n]]
  BY <1>1 DEF Indices, IInv, Whole
<1>7. n = a \/ sstables[n] > g
  <2>1. ~(a < n)
    BY <1>4, <1>5
  <2> QED
    BY <1>1, <1>2, <2>1 DEF IInv, Ages, Descending, Indices
<1>8. NewestIn(sstables, k) \in promised[k]
  BY <1>2, <1>3, <1>5, <1>6, <1>7 DEF Anchor, Harmless, Holds
<1>9. NewestIn(sstables, k) \in Values
  BY <1>1, <1>8, PutFacts
<1> QED
  BY <1>8, <1>9 DEF Merged

-----------------------------------------------------------------------------
(* Every step keeps the invariant *)

\* A step leaves an anchor where it is when it adds nothing to its table and
\* only harmless ones above it.
LEMMA AnchorKept ==
  ASSUME NEW k, NEW g, Anchor(g, k),
         promised[k] \subseteq promised'[k],
         tableMay'[g] \subseteq tableMay[g],
         \A j \in Ids : \A f : j > g /\ f \in tableMay'[j] =>
           f \in tableMay[j] \/ ~IsTable(f) \/ f[k] \in promised'[k] \cup {"NotFound"}
  PROVE  Anchor(g, k)'
BY DEF Anchor, Harmless

LEMMA InitPInv == Init /\ Tame => PInv
<1> SUFFICES ASSUME Init, Tame PROVE PInv
  OBVIOUS
<1>1. IInv
  BY InitIInv
<1>2. walMay = {Blank}
  BY InitLayers
<1>3. LogNamed /\ LogPromised /\ MemPromised /\ Tidy
  BY <1>2, InitTidy DEF Init, Tame, LogNamed, LogPromised, MemPromised, Blank
<1>4. NewSettled /\ NoneNewer /\ PutsSafe
  BY DEF Init, NewSettled, NoneNewer, PutsSafe, IsPut, Flushed
<1> QED
  BY <1>1, <1>3, <1>4 DEF PInv

LEMMA PutPInv ==
  ASSUME PInv, IInv', Tidy', NEW k \in Keys, NEW e \in Writes, Put(k, e)
  PROVE  PInv'
<1>1. /\ pc = "idle" /\ pc' = "append" /\ record' = <<k, e>>
      /\ UNCHANGED <<table, tableMay, wal, logMay, walNamed, memtable, sstables, nextId,
                     failing>>
  BY DEF Put, disk
<1>2. walMay' = walMay
  BY <1>1, SameLayers
<1>3. /\ ToOption(e) \in promised'[k]
      /\ \A x \in Keys : promised[x] \subseteq promised'[x]
  BY DEF Put, PInv, IInv, TypeOK
<1>4. LogNamed' /\ LogPromised' /\ MemPromised'
  BY <1>1, <1>2, <1>3 DEF PInv, LogNamed, LogPromised, MemPromised
<1>5. NewSettled' /\ NoneNewer'
  BY <1>1 DEF PInv, NewSettled, NoneNewer, Flushed
<1>6. PutsSafe'
  <2> SUFFICES ASSUME NEW x \in Keys, IsPut(x)' PROVE PutIsSafe(x)'
    BY DEF PutsSafe
  <2>1. IsPut(x) /\ PutIsSafe(x)
    BY <1>3 DEF IsPut, PInv, PutsSafe
  <2>2. InLog(x) => InLog(x)'
    BY <1>2 DEF InLog
  <2>3. \A g : Anchor(g, x) => Anchor(g, x)'
    BY <1>1, <1>3, AnchorKept
  <2>4. Listed' = Listed
    BY <1>1 DEF Listed, IdsOf, Indices
  <2> QED
    BY <1>1, <2>1, <2>2, <2>3, <2>4 DEF PutIsSafe
<1> QED
  BY <1>1, <1>4, <1>5, <1>6 DEF PInv, Tame, LogKept

LEMMA WalWritePInv ==
  ASSUME PInv, IInv', Tidy', WalWrite
  PROVE  PInv'
<1> DEFINE key == record[1]
           entry == record[2]
<1>1. /\ wal \in [Keys -> Entries] /\ key \in Keys /\ entry \in Writes
      /\ wal \in walMay /\ \A w \in walMay : w \in [Keys -> Entries]
  BY DEF WalWrite, PInv, LogNamed, IInv, TypeOK, Content, Phases, walMay, Logs
<1>2. wal' = [wal EXCEPT ![key] = entry] /\ walMay' = Unsynced(walMay, wal')
  BY <1>1, WalWriteLayers DEF PInv, Tame
<1>3. /\ pc = "append" /\ pc' = "wal_sync"
      /\ UNCHANGED <<table, tableMay, walNamed, record, memtable, sstables, nextId,
                     promised, failing>>
  BY DEF WalWrite
<1>4. /\ wal'[key] = entry /\ \A x \in Keys : x # key => wal'[x] = wal[x]
      /\ wal' \in walMay' /\ \A w \in walMay' : w = wal' \/ w \in walMay
      /\ ToOption(entry) \in promised[key]
      /\ entry # "NotFound"
  BY <1>1, <1>2, <1>3, EntryFacts DEF Unsynced, PInv, LogNamed
<1>5. LogNamed'
  BY <1>3, <1>4 DEF PInv, LogNamed
<1> HIDE DEF key, entry
<1>6. LogPromised' /\ MemPromised'
  BY <1>1, <1>3, <1>4 DEF PInv, LogPromised, MemPromised
<1>7. NewSettled' /\ NoneNewer'
  BY <1>3 DEF PInv, NewSettled, NoneNewer, Flushed
<1>8. PutsSafe'
  <2> SUFFICES ASSUME NEW x \in Keys, IsPut(x)' PROVE PutIsSafe(x)'
    BY DEF PutsSafe
  <2>1. IsPut(x) /\ PutIsSafe(x)
    BY <1>3 DEF IsPut, PInv, PutsSafe
  <2>2. InLog(x) => InLog(x)'
    BY <1>1, <1>4 DEF InLog
  <2>3. \A g : Anchor(g, x) => Anchor(g, x)'
    BY <1>3, AnchorKept
  <2>4. Listed' = Listed
    BY <1>3 DEF Listed, IdsOf, Indices
  <2> QED
    BY <1>3, <2>1, <2>2, <2>3, <2>4 DEF PutIsSafe
<1> QED
  BY <1>3, <1>5, <1>6, <1>7, <1>8 DEF PInv, Tame, LogKept

LEMMA WalSyncPInv ==
  ASSUME PInv, IInv', Tidy', WalSync
  PROVE  PInv'
<1> DEFINE key == record[1]
           entry == record[2]
<1>1. key \in Keys /\ entry \in Writes /\ entry # "NotFound"
  BY EntryFacts DEF WalSync, PInv, IInv, TypeOK, Phases
<1>2. /\ wal \in walMay /\ wal[key] = entry
      /\ memtable \in [Keys -> Entries] /\ promised \in [Keys -> SUBSET Results]
  BY DEF WalSync, PInv, LogNamed, IInv, TypeOK, Content
<1>3. \A x \in Keys : /\ memtable'[x] = IF x = key THEN entry ELSE memtable[x]
                     /\ promised'[x] = IF x = key THEN {ToOption(entry)} ELSE promised[x]
  BY <1>1, <1>2 DEF WalSync
<1>4. /\ pc = "wal_sync" /\ walMay' = {wal} /\ wal' = wal /\ pc' \in {"idle", "create"}
      /\ UNCHANGED <<table, tableMay, walNamed, sstables, nextId, failing>>
  BY SettledLayers DEF WalSync
<1> HIDE DEF key, entry
<1>5. LogNamed'
  BY <1>4 DEF PInv, LogNamed
<1>6. LogPromised' /\ MemPromised'
  BY <1>1, <1>2, <1>3, <1>4 DEF PInv, LogPromised, MemPromised
<1>7. NewSettled' /\ NoneNewer'
  BY <1>4 DEF PInv, NewSettled, NoneNewer, Flushed
<1>8. PutsSafe'
  <2> SUFFICES ASSUME NEW x \in Keys, IsPut(x)' PROVE PutIsSafe(x)'
    BY DEF PutsSafe
  <2>1. CASE x = key
    BY <1>1, <1>2, <1>3, <1>4, <2>1 DEF PutIsSafe, InLog
  <2>2. CASE x # key
    <3>1. /\ promised'[x] = promised[x] /\ memtable'[x] = memtable[x]
          /\ IsPut(x) /\ PutIsSafe(x)
      BY <1>3, <2>2 DEF IsPut, PInv, PutsSafe
    <3>2. InLog(x) => InLog(x)'
      BY <1>2, <1>4 DEF InLog
    <3>3. \A g : Anchor(g, x) => Anchor(g, x)'
      BY <1>4, <3>1, AnchorKept
    <3>4. Listed' = Listed
      BY <1>4 DEF Listed, IdsOf, Indices
    <3> QED
      BY <1>4, <3>1, <3>2, <3>3, <3>4 DEF PutIsSafe
  <2> QED
    BY <2>1, <2>2
<1> QED
  BY <1>4, <1>5, <1>6, <1>7, <1>8 DEF PInv, Tame, LogKept

\* Steps that leave the log, the memtable and the promises alone.
LEMMA LogPInv ==
  ASSUME PInv, UNCHANGED <<wal, walMay, memtable, promised, failing>>, walNamed',
         pc' \notin {"append", "wal_sync"}
  PROVE  /\ Tame' /\ LogNamed' /\ LogPromised' /\ MemPromised'
         /\ \A k \in Keys : IsPut(k)' =>
              IsPut(k) /\ PutIsSafe(k) /\ (InLog(k) => InLog(k)')
<1>1. Tame' /\ LogNamed'
  BY DEF PInv, Tame, LogKept, LogNamed
<1>2. LogPromised' /\ MemPromised'
  BY DEF PInv, LogPromised, MemPromised
<1>3. ASSUME NEW k \in Keys, IsPut(k)'
      PROVE  IsPut(k) /\ PutIsSafe(k) /\ (InLog(k) => InLog(k)')
  <2>1. IsPut(k)
    BY <1>3 DEF IsPut
  <2>2. InLog(k) => InLog(k)'
    BY DEF InLog
  <2> QED
    BY <2>1, <2>2 DEF PInv, PutsSafe
<1> QED
  BY <1>1, <1>2, <1>3, Zenon

\* Steps that also leave the tables alone and the list no shorter.
LEMMA QuietPInv ==
  ASSUME PInv, IInv', Tidy',
         \/ WalSyncFails \/ Flush \/ Compact \/ CreateTmp \/ SyncTmp
         \/ WriteSortedFails \/ ClearFails \/ CompactDone
         \/ UnlinkFails \/ UnlinkSyncFails
  PROVE  PInv'
<1>1. /\ UNCHANGED <<table, tableMay, wal, walMay, walNamed, memtable, nextId,
                     promised, failing>>
      /\ pc \notin {"down", "clear_sync"}
      /\ pc' \notin {"down", "append", "wal_sync", "truncate", "clear_sync", "dir_sync"}
  BY SameLayers DEF WalSyncFails, Flush, Compact, CreateTmp, SyncTmp, WriteSortedFails, ClearFails,
         CompactDone, UnlinkFails, UnlinkSyncFails, disk, memory, PInv, Tame, LogKept
<1>2. walNamed'
  BY <1>1 DEF PInv, LogNamed
<1>3. Listed \subseteq Listed'
  <2>1. CASE UNCHANGED sstables
    BY <2>1 DEF Listed, IdsOf, Indices
  <2>2. ASSUME NEW kept \in Seq(Ids), sstables' = sstables \o kept
        PROVE  Listed \subseteq Listed'
    <3>1. IdsOf(sstables \o kept) = IdsOf(sstables) \cup IdsOf(kept)
      BY ConcatIds DEF PInv, IInv, TypeOK
    <3>2. Listed' = IdsOf(sstables \o kept)
      BY <2>2 DEF Listed, IdsOf, Indices
    <3> QED
      BY <3>1, <3>2 DEF Listed
  <2>3. CASE UnlinkFails
    BY <2>2, <2>3 DEF UnlinkFails, PInv, IInv, TypeOK
  <2>4. CASE UnlinkSyncFails
    <3>1. old # <<>> /\ old \in Seq(Ids)
      BY <2>4 DEF UnlinkSyncFails, PInv, IInv, TypeOK, Phases
    <3>2. Rest \in Seq(Ids)
      BY <3>1, FrontLast DEF Rest
    <3> QED
      BY <2>2, <2>4, <3>2 DEF UnlinkSyncFails
  <2> QED
    BY <2>1, <2>3, <2>4
       DEF WalSyncFails, Flush, Compact, CreateTmp, SyncTmp, WriteSortedFails,
           ClearFails, CompactDone, memory
<1>4. NewSettled' /\ NoneNewer'
  BY <1>1 DEF PInv, NewSettled, NoneNewer, Flushed
<1>5. PutsSafe'
  <2> SUFFICES ASSUME NEW k \in Keys, IsPut(k)' PROVE PutIsSafe(k)'
    BY DEF PutsSafe
  <2>1. IsPut(k) /\ PutIsSafe(k) /\ (InLog(k) => InLog(k)')
    BY <1>1, <1>2, LogPInv
  <2>2. \A g : Anchor(g, k) => Anchor(g, k)'
    BY <1>1, AnchorKept
  <2> QED
    BY <1>1, <1>3, <2>1, <2>2 DEF PutIsSafe
<1> QED
  BY <1>1, <1>2, <1>4, <1>5, LogPInv DEF PInv

LEMMA RenamePInv ==
  ASSUME PInv, IInv', Tidy', Rename
  PROVE  PInv'
<1>1. /\ pc = "rename" /\ pc' = "dir_sync" /\ tmp = "synced"
      /\ UNCHANGED <<wal, walMay, walNamed, op, memtable, sstables, old, nextId,
                     promised, failing>>
  BY SameLayers DEF Rename, memory, PInv, IInv, Whole
<1>2. /\ nextId \in Ids
      /\ \A n \in Indices(sstables) : sstables[n] \in Ids /\ sstables[n] < nextId
  BY <1>1, MaxIdAssumption DEF PInv, IInv, TypeOK, Phases, Ages, Ids, Indices
<1>3. /\ \A i \in Ids : i # nextId => table'[i] = table[i] /\ tableMay'[i] = tableMay[i]
      /\ table'[nextId] = Output
      /\ \A f \in tableMay'[nextId] : f \in tableMay[nextId] \/ f = Output
  BY <1>1, <1>2 DEF Rename, PInv, IInv, TypeOK, Unsynced
<1>4. walNamed'
  BY <1>1 DEF PInv, LogNamed
<1>5. NewSettled'
  <2>1. \A n \in Indices(sstables) : sstables[n] # nextId
    BY <1>2 DEF Ids
  <2>2. \A k \in Keys : NewestIn(sstables, k)' = NewestIn(sstables, k)
    BY <1>1, <1>2, <1>3, <2>1, ReadsSame
  <2>3. Merged' = Merged
    BY <2>2 DEF Merged
  <2>4. Output' = Output
    BY <1>1, <2>3 DEF Output
  <2> QED
    BY <1>1, <1>3, <2>4 DEF NewSettled, Flushed
<1>6. NoneNewer'
  BY <1>1, <1>2, <1>3 DEF PInv, NoneNewer, Ids
<1>7. PutsSafe'
  <2> SUFFICES ASSUME NEW k \in Keys, IsPut(k)' PROVE PutIsSafe(k)'
    BY DEF PutsSafe
  <2>1. IsPut(k) /\ PutIsSafe(k) /\ (InLog(k) => InLog(k)')
    BY <1>1, <1>4, LogPInv
  <2>2. ASSUME NEW g \in Listed, Anchor(g, k) PROVE Anchor(g, k)'
    <3>1. Output[k] \in promised[k] \cup {"NotFound"}
      <4>1. Merged[k] \in promised[k]
        BY <2>1, <2>2, AnchorView DEF PInv
      <4>2. memtable[k] \in promised[k] \cup {"NotFound"}
        BY <2>1, PutFacts DEF PInv, MemPromised, IInv
      <4> QED
        BY <4>1, <4>2 DEF Output
    <3>2. g \in Ids /\ g # nextId
      BY <1>2 DEF Listed, IdsOf, Ids
    <3>3. \A j \in Ids : \A f : f \in tableMay'[j] =>
            f \in tableMay[j] \/ f[k] \in promised'[k] \cup {"NotFound"}
      BY <1>1, <1>3, <3>1
    <3> QED
      BY <1>1, <1>3, <2>2, <3>2, <3>3, AnchorKept
  <2>3. Listed' = Listed
    BY <1>1 DEF Listed, IdsOf, Indices
  <2> QED
    BY <1>1, <2>1, <2>2, <2>3 DEF PutIsSafe
<1> QED
  BY <1>1, <1>4, <1>5, <1>6, <1>7, LogPInv DEF PInv

\* A directory sync takes contents away and adds none.
LEMMA DirectorySyncedPInv ==
  ASSUME PInv, DirectorySynced, UNCHANGED <<table, promised>>
  PROVE  /\ walNamed'
         /\ \A i \in Ids : tableMay'[i] = {table[i]}
         /\ \A k \in Keys, g \in Ids : Anchor(g, k) => Anchor(g, k)'
<1>1. \A i \in Ids : tableMay'[i] = {table[i]} /\ tableMay'[i] \subseteq tableMay[i]
  BY DEF DirectorySynced, PInv, IInv, Whole
<1>2. \A k \in Keys, g \in Ids : Anchor(g, k) => Anchor(g, k)'
  BY <1>1, AnchorKept
<1> QED
  BY <1>1, <1>2 DEF DirectorySynced

LEMMA FlushDirSyncPInv ==
  ASSUME PInv, IInv', Tidy', FlushDirSync
  PROVE  PInv'
<1>1. /\ pc = "dir_sync" /\ pc' = "truncate" /\ op = "flush" /\ nextId' = nextId + 1
      /\ UNCHANGED <<table, wal, walMay, memtable, sstables, promised, failing>>
  BY SameLayers DEF FlushDirSync
<1>2. /\ walNamed'
      /\ \A i \in Ids : tableMay'[i] = {table[i]}
      /\ \A k \in Keys, g \in Ids : Anchor(g, k) => Anchor(g, k)'
  BY DirectorySyncedPInv DEF FlushDirSync
<1>3. nextId \in Ids /\ nextId' - 1 = nextId
  BY <1>1, MaxIdAssumption DEF PInv, IInv, TypeOK, Phases, Ids
<1>4. /\ table[nextId] = memtable
      /\ \A j \in Ids : j > nextId => table[j] = NoFile
  BY <1>1 DEF PInv, NewSettled, NoneNewer, Output
<1>5. NewSettled'
  BY <1>1, <1>2, <1>3, <1>4 DEF NewSettled, Flushed, Ids
<1>6. NoneNewer'
  BY <1>1, <1>3, <1>4 DEF NoneNewer, Ids
<1>7. PutsSafe'
  <2> SUFFICES ASSUME NEW k \in Keys, IsPut(k)' PROVE PutIsSafe(k)'
    BY DEF PutsSafe
  <2>1. IsPut(k) /\ PutIsSafe(k) /\ (InLog(k) => InLog(k)')
    BY <1>1, <1>2, LogPInv
  <2>2. Listed' = Listed
    BY <1>1 DEF Listed, IdsOf, Indices
  <2>3. \A g : Anchor(g, k) => Anchor(g, k)'
    BY <1>2 DEF Anchor
  <2> QED
    BY <1>1, <2>1, <2>2, <2>3 DEF PutIsSafe
<1> QED
  BY <1>1, <1>2, <1>5, <1>6, <1>7, LogPInv DEF PInv

\* The merged table anchors the puts that the tables it was made from anchored.
LEMMA CompactDirSyncPInv ==
  ASSUME PInv, IInv', Tidy', CompactDirSync
  PROVE  PInv'
<1>1. /\ pc = "dir_sync" /\ pc' = "unlink" /\ op = "compact"
      /\ nextId' = nextId + 1 /\ sstables' = <<nextId>>
      /\ UNCHANGED <<table, wal, walMay, memtable, promised, failing>>
  BY SameLayers DEF CompactDirSync
<1>2. /\ walNamed'
      /\ \A i \in Ids : tableMay'[i] = {table[i]}
  BY DirectorySyncedPInv DEF CompactDirSync
<1>3. nextId \in Ids
  BY <1>1, MaxIdAssumption DEF PInv, IInv, TypeOK, Phases, Ids
<1>4. /\ table[nextId] = Merged /\ IsTable(Merged)
      /\ \A j \in Ids : j > nextId => table[j] = NoFile
  BY <1>1 DEF PInv, NewSettled, NoneNewer, Output, IInv, NewTable
<1>5. NewSettled'
  BY <1>1 DEF NewSettled, Flushed
<1>6. NoneNewer'
  BY <1>1, <1>3, <1>4 DEF NoneNewer, Ids
<1>7. PutsSafe'
  <2> SUFFICES ASSUME NEW k \in Keys, IsPut(k)' PROVE PutIsSafe(k)'
    BY DEF PutsSafe
  <2>1. IsPut(k) /\ PutIsSafe(k) /\ (InLog(k) => InLog(k)')
    BY <1>1, <1>2, LogPInv
  <2> PICK n : n = nextId
    OBVIOUS
  <2>2. ASSUME NEW g \in Listed, Anchor(g, k) PROVE Anchor(n, k)'
    <3>1. Merged[k] \in promised'[k]
      BY <1>1, <2>1, <2>2, AnchorView DEF PInv
    <3>2. \A f \in tableMay'[n] : IsTable(f) /\ f[k] \in promised'[k]
      BY <1>2, <1>3, <1>4, <3>1
    <3>3. \A j \in Ids : j > n => tableMay'[j] = {NoFile}
      BY <1>2, <1>4
    <3> QED
      BY <1>3, <3>2, <3>3 DEF Anchor, Harmless, IsTable
  <2>3. n \in Listed'
    <3>1. 1 \in Indices(sstables') /\ sstables'[1] = n
      BY <1>1 DEF Indices
    <3> QED
      BY <3>1 DEF Listed, IdsOf
  <2>4. memtable'[k] = memtable[k]
    BY <1>1
  <2>5. CASE \E g \in Listed : Anchor(g, k)
    <3>1. Anchor(n, k)'
      BY <2>2, <2>5
    <3> QED
      BY <1>1, <2>3, <3>1 DEF PutIsSafe
  <2>6. CASE memtable[k] # "NotFound" /\ InLog(k)
    BY <1>1, <2>1, <2>4, <2>6 DEF PutIsSafe
  <2> QED
    BY <1>1, <2>1, <2>5, <2>6 DEF PutIsSafe
<1> QED
  BY <1>1, <1>2, <1>5, <1>6, <1>7, LogPInv DEF PInv

\* The table of a flush anchors the puts that leave the log.
LEMMA TruncatePInv ==
  ASSUME PInv, IInv', Tidy', Truncate
  PROVE  PInv'
<1>1. /\ pc = "truncate" /\ pc' = "clear_sync" /\ wal' = Blank
      /\ walMay' = Unsynced(walMay, Blank)
      /\ UNCHANGED <<table, tableMay, walNamed, op, memtable, sstables, nextId,
                     promised, failing>>
  BY UnsyncedLayers DEF Truncate, memory
<1>2. Blank \in walMay' /\ \A w \in walMay' : w = Blank \/ w \in walMay
  BY <1>1 DEF Unsynced
<1>3. LogNamed'
  BY <1>1, <1>2 DEF PInv, LogNamed
<1>4. LogPromised' /\ MemPromised'
  BY <1>1, <1>2 DEF PInv, LogPromised, MemPromised, Blank
<1>5. NewSettled' /\ NoneNewer'
  BY <1>1 DEF PInv, NewSettled, NoneNewer, Flushed
<1>6. nextId - 1 \in Ids /\ IsTable(memtable)
  BY <1>1, MaxIdAssumption, ContentIsTable DEF PInv, IInv, TypeOK, NewTable, Ids
<1>7. PutsSafe'
  <2> SUFFICES ASSUME NEW k \in Keys, IsPut(k)' PROVE PutIsSafe(k)'
    BY DEF PutsSafe
  <2>1. IsPut(k) /\ PutIsSafe(k)
    BY <1>1 DEF IsPut, PInv, PutsSafe
  <2>2. Listed' = Listed
    BY <1>1 DEF Listed, IdsOf, Indices
  <2>3. \A g : Anchor(g, k) => Anchor(g, k)'
    BY <1>1, AnchorKept
  <2>4. memtable[k] # "NotFound" => Anchor(nextId - 1, k)
    <3> SUFFICES ASSUME memtable[k] # "NotFound" PROVE Anchor(nextId - 1, k)
      OBVIOUS
    <3>1. memtable[k] \in promised[k]
      BY <2>1, PutFacts DEF PInv, MemPromised, IInv
    <3>2. /\ tableMay[nextId - 1] = {memtable}
          /\ \A j \in Ids : j >= nextId => tableMay[j] = {NoFile}
      BY <1>1 DEF PInv, NewSettled, Flushed
    <3>3. \A j \in Ids : j > nextId - 1 => tableMay[j] = {NoFile}
      BY <3>2 DEF PInv, IInv, TypeOK, Ids
    <3> QED
      BY <1>6, <3>1, <3>2, <3>3 DEF Anchor, Harmless, IsTable
  <2> QED
    BY <1>1, <2>1, <2>2, <2>3, <2>4 DEF PutIsSafe
<1> QED
  BY <1>1, <1>3, <1>4, <1>5, <1>7 DEF PInv, Tame, LogKept

LEMMA ClearSyncPInv ==
  ASSUME PInv, IInv', Tidy', ClearSync
  PROVE  PInv'
<1>1. /\ pc = "clear_sync" /\ pc' = "idle" /\ walMay' = {wal} /\ memtable' = Blank
      /\ UNCHANGED <<table, tableMay, wal, walNamed, nextId, promised, failing>>
  BY SettledLayers DEF ClearSync, PInv, Tame, Tidy
<1>2. LogNamed' /\ LogPromised' /\ MemPromised'
  BY <1>1 DEF PInv, LogNamed, LogPromised, MemPromised, Blank
<1>3. NewSettled' /\ NoneNewer'
  BY <1>1 DEF PInv, NewSettled, NoneNewer, Flushed
<1>4. Listed' = Listed \cup {nextId - 1}
  <2>1. nextId - 1 \in Ids /\ sstables \in Seq(Ids)
    BY <1>1, MaxIdAssumption DEF PInv, IInv, TypeOK, NewTable, Ids
  <2> DEFINE new == <<nextId - 1>>
  <2>2. new \in Seq(Ids) /\ IdsOf(new) = {nextId - 1}
    BY <2>1 DEF IdsOf, Indices
  <2>3. Listed' = IdsOf(new \o sstables)
    BY DEF ClearSync, WithNewTable, Listed, IdsOf, Indices
  <2> HIDE DEF new
  <2> QED
    BY <2>1, <2>2, <2>3, ConcatIds DEF Listed
<1>5. PutsSafe'
  <2> SUFFICES ASSUME NEW k \in Keys, IsPut(k)' PROVE PutIsSafe(k)'
    BY DEF PutsSafe
  <2>1. IsPut(k) /\ PutIsSafe(k)
    BY <1>1 DEF IsPut, PInv, PutsSafe
  <2>2. \A g : Anchor(g, k) => Anchor(g, k)'
    BY <1>1, AnchorKept
  <2> QED
    BY <1>1, <1>4, <2>1, <2>2 DEF PutIsSafe
<1> QED
  BY <1>1, <1>2, <1>3, <1>5 DEF PInv, Tame, LogKept

\* A merge without entries holds no put: those are in the log.
LEMMA CompactToNothingPInv ==
  ASSUME PInv, IInv', Tidy', CompactToNothing
  PROVE  PInv'
<1>1. /\ pc = "idle" /\ pc' = "unlink" /\ Merged = Blank
      /\ UNCHANGED <<table, tableMay, wal, walMay, walNamed, memtable, nextId,
                     promised, failing>>
  BY SameLayers DEF CompactToNothing, disk
<1>2. walNamed'
  BY <1>1 DEF PInv, LogNamed
<1>3. NewSettled' /\ NoneNewer'
  BY <1>1 DEF PInv, NewSettled, NoneNewer, Flushed
<1>4. PutsSafe'
  <2> SUFFICES ASSUME NEW k \in Keys, IsPut(k)' PROVE PutIsSafe(k)'
    BY DEF PutsSafe
  <2>1. IsPut(k) /\ PutIsSafe(k) /\ (InLog(k) => InLog(k)')
    BY <1>1, <1>2, LogPInv
  <2>2. ASSUME NEW g \in Listed, Anchor(g, k) PROVE FALSE
    BY <1>1, <2>1, <2>2, AnchorView, PutFacts DEF PInv, IInv, Blank
  <2> QED
    BY <1>1, <2>1, <2>2 DEF PutIsSafe
<1> QED
  BY <1>1, <1>2, <1>3, <1>4, LogPInv DEF PInv

LEMMA UnlinkPInv ==
  ASSUME PInv, IInv', Tidy', Unlink
  PROVE  PInv'
<1>1. /\ pc = "unlink" /\ pc' = "unlink_sync" /\ old # <<>>
      /\ UNCHANGED <<wal, walMay, walNamed, memtable, sstables, nextId, promised, failing>>
  BY SameLayers DEF Unlink, memory
<1>2. walNamed'
  BY <1>1 DEF PInv, LogNamed
<1> DEFINE last == old[Len(old)]
<1>3. Len(old) \in Nat \ {0} /\ last \in Ids /\ Last(old) = last
  <2>1. old \in Seq(Ids)
    BY DEF PInv, IInv, TypeOK
  <2>2. Len(old) \in Nat \ {0} /\ Last(old) \in Ids /\ Last(old) = old[Len(old)]
    BY <1>1, <2>1, FrontLast
  <2> QED
    BY <2>2
<1>4. /\ \A i \in Ids : i # last => table'[i] = table[i] /\ tableMay'[i] = tableMay[i]
      /\ table'[last] = NoFile
      /\ \A f \in tableMay'[last] : f \in tableMay[last] \/ f = NoFile
  BY <1>3 DEF Unlink, PInv, IInv, TypeOK, Unsynced
<1>5. last \notin Listed
  <2>1. \A n \in Indices(sstables) : sstables[n] \in Ids /\ sstables[n] > last
    BY <1>3 DEF PInv, IInv, TypeOK, Ages, Indices
  <2>2. \A n \in Indices(sstables) : sstables[n] # last
    BY <1>3, <2>1 DEF Ids
  <2> QED
    BY <2>2 DEF Listed, IdsOf
<1> HIDE DEF last
<1>6. NewSettled' /\ NoneNewer'
  BY <1>1, <1>3, <1>4 DEF PInv, NewSettled, NoneNewer, Flushed
<1>7. PutsSafe'
  <2> SUFFICES ASSUME NEW k \in Keys, IsPut(k)' PROVE PutIsSafe(k)'
    BY DEF PutsSafe
  <2>1. IsPut(k) /\ PutIsSafe(k) /\ (InLog(k) => InLog(k)')
    BY <1>1, <1>2, LogPInv
  <2>2. ASSUME NEW g \in Listed, Anchor(g, k) PROVE Anchor(g, k)'
    <3>1. g \in Ids /\ g # last
      BY <1>5, <2>2 DEF Anchor
    <3>2. \A j \in Ids : \A f : f \in tableMay'[j] => f \in tableMay[j] \/ ~IsTable(f)
      BY <1>3, <1>4 DEF IsTable
    <3> QED
      BY <1>1, <1>4, <2>2, <3>1, <3>2, AnchorKept
  <2>3. Listed' = Listed
    BY <1>1 DEF Listed, IdsOf, Indices
  <2> QED
    BY <1>1, <2>1, <2>2, <2>3 DEF PutIsSafe
<1> QED
  BY <1>1, <1>2, <1>6, <1>7, LogPInv DEF PInv

LEMMA UnlinkSyncPInv ==
  ASSUME PInv, IInv', Tidy', UnlinkSync
  PROVE  PInv'
<1>1. /\ pc = "unlink_sync" /\ pc' = "unlink"
      /\ UNCHANGED <<table, wal, walMay, memtable, sstables, nextId, promised, failing>>
  BY SameLayers DEF UnlinkSync
<1>2. /\ walNamed'
      /\ \A k \in Keys, g \in Ids : Anchor(g, k) => Anchor(g, k)'
  BY DirectorySyncedPInv DEF UnlinkSync
<1>3. NewSettled' /\ NoneNewer'
  BY <1>1 DEF PInv, NewSettled, NoneNewer, Flushed
<1>4. PutsSafe'
  <2> SUFFICES ASSUME NEW k \in Keys, IsPut(k)' PROVE PutIsSafe(k)'
    BY DEF PutsSafe
  <2>1. IsPut(k) /\ PutIsSafe(k) /\ (InLog(k) => InLog(k)')
    BY <1>1, <1>2, LogPInv
  <2>2. Listed' = Listed
    BY <1>1 DEF Listed, IdsOf, Indices
  <2>3. \A g : Anchor(g, k) => Anchor(g, k)'
    BY <1>2 DEF Anchor
  <2> QED
    BY <1>1, <2>1, <2>2, <2>3 DEF PutIsSafe
<1> QED
  BY <1>1, <1>2, <1>3, <1>4, LogPInv DEF PInv

\* Death leaves of each file one of the contents it could have.
LEMMA DeathPInv ==
  ASSUME PInv, IInv', Tidy', MemoryLost, promised' = promised,
         walNamed', wal' \in walMay', walMay' \subseteq walMay,
         \A i \in Ids : tableMay'[i] \subseteq tableMay[i]
  PROVE  PInv'
<1>1. pc' = "down" /\ memtable' = Blank /\ failing' = failing
  BY DEF MemoryLost
<1>2. LogNamed' /\ LogPromised' /\ MemPromised'
  BY <1>1 DEF PInv, LogNamed, LogPromised, MemPromised, Blank
<1>3. NewSettled' /\ NoneNewer'
  BY <1>1 DEF NewSettled, NoneNewer, Flushed
<1>4. PutsSafe'
  <2> SUFFICES ASSUME NEW k \in Keys, IsPut(k)' PROVE PutIsSafe(k)'
    BY DEF PutsSafe
  <2>1. IsPut(k) /\ PutIsSafe(k)
    BY DEF IsPut, PInv, PutsSafe
  <2>2. InLog(k) => InLog(k)'
    BY DEF InLog
  <2>3. \A g : Anchor(g, k) => g \in Ids /\ Anchor(g, k)'
    BY AnchorKept DEF Anchor
  <2> QED
    BY <1>1, <2>1, <2>2, <2>3 DEF PutIsSafe
<1> QED
  BY <1>1, <1>2, <1>3, <1>4 DEF PInv, Tame, LogKept

LEMMA KillPInv ==
  ASSUME PInv, IInv', Tidy', Kill
  PROVE  PInv'
<1>1. wal' = wal /\ wal \in walMay' /\ walMay' \subseteq walMay
  BY KillLayers DEF PInv, Tame, LogNamed
<1> QED
  BY <1>1, DeathPInv DEF Kill, PInv, LogNamed

LEMMA PowerLossPInv ==
  ASSUME PInv, IInv', Tidy', PowerLoss
  PROVE  PInv'
<1>1. wal' \in walMay /\ walNamed' /\ walMay' = {wal'}
  BY PowerLossLayers DEF PInv, LogNamed
<1>2. \A i \in Ids : tableMay'[i] \subseteq tableMay[i]
  BY DEF PowerLoss
<1> QED
  BY <1>1, <1>2, DeathPInv DEF PowerLoss

\* Reopening lists the tables that anchor puts and replays the log that holds them.
LEMMA OpenPInv ==
  ASSUME PInv, IInv', Tidy', Open
  PROVE  PInv'
<1>1. /\ pc = "down" /\ pc' = "idle" /\ memtable' = wal
      /\ UNCHANGED <<table, tableMay, wal, walMay, walNamed, promised, failing>>
  BY SameLayers DEF Open
<1>2. LogNamed' /\ LogPromised' /\ MemPromised'
  BY <1>1 DEF PInv, LogNamed, LogPromised, MemPromised
<1>3. /\ \A i \in Ids : i \notin Listed' => table[i] = NoFile
      /\ \A n \in Indices(sstables') : sstables'[n] \in Ids /\ sstables'[n] < nextId'
  BY OpenLists
<1>4. NoneNewer'
  <2>1. \A j \in Listed' : j \in Ids /\ j < nextId'
    BY <1>3 DEF Listed, IdsOf
  <2>2. nextId' \in Nat
    BY DEF IInv, TypeOK
  <2>3. \A j \in Ids : j > nextId' => j \notin Listed'
    BY <2>1, <2>2 DEF Ids
  <2> QED
    BY <1>1, <1>3, <2>3 DEF NoneNewer
<1>5. NewSettled'
  BY <1>1 DEF NewSettled, Flushed
<1>6. PutsSafe'
  <2> SUFFICES ASSUME NEW k \in Keys, IsPut(k)' PROVE PutIsSafe(k)'
    BY DEF PutsSafe
  <2>1. IsPut(k) /\ PutIsSafe(k)
    BY <1>1 DEF IsPut, PInv, PutsSafe
  <2>2. InLog(k) => InLog(k)' /\ memtable'[k] # "NotFound"
    BY <1>1 DEF InLog, PInv, LogNamed
  <2>3. ASSUME NEW g, Anchor(g, k) PROVE g \in Listed' /\ Anchor(g, k)'
    <3>1. g \in Ids /\ table[g] # NoFile
      BY <2>3 DEF Anchor, IsTable, PInv, IInv, Whole
    <3>2. Anchor(g, k)'
      BY <1>1, <2>3, AnchorKept
    <3> QED
      BY <1>3, <3>1, <3>2
  <2> QED
    BY <1>1, <2>1, <2>2, <2>3 DEF PutIsSafe
<1> QED
  BY <1>1, <1>2, <1>4, <1>5, <1>6 DEF PInv, Tame, LogKept

LEMMA StutterPInv ==
  ASSUME PInv, IInv', Tidy', OpenFails \/ UNCHANGED vars
  PROVE  PInv'
<1>1. UNCHANGED <<table, tableMay, wal, walMay, walNamed, op, record, memtable,
                  sstables, nextId, pc, promised, failing>>
  BY SameLayers DEF OpenFails, vars, disk, memory
<1>2. Tame' /\ LogNamed' /\ LogPromised' /\ MemPromised'
  BY <1>1 DEF PInv, Tame, LogKept, LogNamed, LogPromised, MemPromised
<1>3. NewSettled' /\ NoneNewer'
  <2>1. \A k \in Keys : NewestIn(sstables, k)' = NewestIn(sstables, k)
    BY UnlistedReads DEF PInv
  <2>2. Output' = Output
    BY <1>1, <2>1 DEF Output, Merged
  <2> QED
    BY <1>1, <2>2 DEF PInv, NewSettled, NoneNewer, Flushed
<1>4. PutsSafe'
  BY <1>1 DEF PInv, PutsSafe, IsPut, PutIsSafe, InLog, Anchor, Harmless, Listed,
              IdsOf, Indices
<1> QED
  BY <1>2, <1>3, <1>4 DEF PInv

LEMMA NextPInv == PInv /\ [Next]_vars => PInv'
<1> SUFFICES ASSUME PInv, [Next]_vars PROVE PInv'
  OBVIOUS
<1>1. IInv' /\ Tidy'
  BY NextIInv, NextTidy DEF PInv
<1>2. ASSUME NEW k \in Keys, NEW e \in Writes, Put(k, e) PROVE PInv'
  BY <1>1, <1>2, PutPInv
<1>3. CASE WalWrite \/ WalWriteFails \/ WalSync
  <2>1. ~WalWriteFails
    BY DEF WalWriteFails, PInv, Tame, LogKept
  <2> QED
    BY <1>1, <1>3, <2>1, WalWritePInv, WalSyncPInv
<1>4. CASE \/ WalSyncFails \/ Flush \/ Compact \/ CreateTmp \/ SyncTmp
           \/ WriteSortedFails \/ ClearFails \/ CompactDone
           \/ UnlinkFails \/ UnlinkSyncFails
  BY <1>1, <1>4, QuietPInv
<1>5. CASE Rename
  BY <1>1, <1>5, RenamePInv
<1>6. CASE FlushDirSync \/ CompactDirSync
  BY <1>1, <1>6, FlushDirSyncPInv, CompactDirSyncPInv
<1>7. CASE Truncate \/ ClearSync
  BY <1>1, <1>7, TruncatePInv, ClearSyncPInv
<1>8. CASE CompactToNothing
  BY <1>1, <1>8, CompactToNothingPInv
<1>9. CASE Unlink \/ UnlinkSync
  BY <1>1, <1>9, UnlinkPInv, UnlinkSyncPInv
<1>10. CASE Kill \/ PowerLoss \/ Open
  BY <1>1, <1>10, KillPInv, PowerLossPInv, OpenPInv
<1>11. CASE OpenFails \/ UNCHANGED vars
  BY <1>1, <1>11, StutterPInv
<1> QED
  BY <1>2, <1>3, <1>4, <1>5, <1>6, <1>7, <1>8, <1>9, <1>10, <1>11 DEF Next, Step

THEOREM PutsInductive == Spec => [](Tame => PInv)
<1>1. Init => (Tame => PInv)
  BY InitPInv
<1>2. (Tame => PInv) /\ [Next]_vars => (Tame => PInv)'
  <2> SUFFICES ASSUME Tame => PInv, [Next]_vars, Tame' PROVE PInv'
    OBVIOUS
  <2>1. Tame
    BY FailingFixed DEF Tame, LogKept
  <2> QED
    BY <2>1, NextPInv
<1> QED
  BY <1>1, <1>2, PTL DEF Spec

\* Where the failures are tame, an acknowledged put is never lost, nor an older
\* value shown in its place, whichever of them happen and whenever: deaths within a
\* flush or a compaction, tables left unlisted, power loss that cuts the log
\* (lsm.rs:209-217, wal.rs:55-58).
THEOREM PutsStay == Spec => []PutsKept
<1>1. (Tame => PInv) => PutsKept
  BY PInvPutsKept DEF PutsKept
<1> QED
  BY <1>1, PutsInductive, PTL

-----------------------------------------------------------------------------
(***************************************************************************)
(* The log of the tree is one that LogLayer allows.  Death may cut the log *)
(* anywhere in a record, and writing behind the cut has any outcome.       *)
(***************************************************************************)

Log == INSTANCE LogLayer WITH Entries <- Writes, NotFound <- "NotFound", may <- logMay

\* Nothing fails under the log's own calls, and its name is durable.  Then the
\* handle writes to the end, and only death leaves a broken record there.
LogUsable == {"append", "clear_sync", "unnamed_log"} \cap failing = {}
AtEnd == LogUsable => walNamed /\ at # "astray" /\ ~spilled

LEMMA NextAtEnd == AtEnd /\ [Next]_vars => AtEnd'
<1> SUFFICES ASSUME AtEnd, [Next]_vars, LogUsable' PROVE AtEnd'
  BY DEF AtEnd
<1>1. LogUsable
  BY FailingFixed DEF LogUsable
<1>2. walNamed /\ at # "astray" /\ ~spilled
  BY <1>1 DEF AtEnd
<1>3. CASE WalWrite
  BY <1>2, <1>3 DEF WalWrite, Misplaced, AtEnd
<1>4. CASE WalWriteFails \/ ClearFails
  BY <1>1, <1>2, <1>4 DEF WalWriteFails, ClearFails, LogUsable, disk, AtEnd
<1>5. CASE Kill
  BY <1>2, <1>5 DEF Kill, MemoryLost, Misplaced, AtEnd
<1>6. CASE PowerLoss
  BY <1>2, <1>6 DEF PowerLoss, MemoryLost, AtEnd
<1>7. CASE Truncate \/ ClearSync
  BY <1>2, <1>7 DEF Truncate, ClearSync, memory, AtEnd
<1> QED
  BY <1>2, <1>3, <1>4, <1>5, <1>6, <1>7
     DEF Next, Step, vars, disk, memory, DirectorySynced, AtEnd, Put, WalSync,
         WalSyncFails, Flush, CreateTmp, SyncTmp, Rename, FlushDirSync, CompactDirSync,
         WriteSortedFails, Compact, CompactToNothing, Unlink, UnlinkFails, UnlinkSync,
         UnlinkSyncFails, CompactDone, Open, OpenFails

\* Each step of the tree is one of the log's, or leaves the log alone.
LEMMA StepOnLog ==
  IInv /\ LogUsable /\ AtEnd /\ [Next]_vars => [Log!Next]_<<wal, tail, logMay>>
<1> SUFFICES ASSUME IInv, LogUsable, AtEnd, [Next]_vars, ~UNCHANGED logFile
             PROVE  Log!Next
  OBVIOUS
<1>1. walNamed /\ at # "astray" /\ ~spilled
  BY DEF AtEnd
<1>2. Parts \subseteq {wal} \X Log!Broken
  BY DEF Parts, Log!Broken
<1>3. Misplaced /\ ~InPlace => Log!Behind
  BY <1>1 DEF InPlace, Misplaced, AtEnd, Ends, Log!Behind, Log!Broken, Log!Ends,
              IInv, TypeOK
<1>4. CASE WalWrite
  <2>1. CASE InPlace
    <3>1. record[1] \in Keys /\ record[2] \in Writes
      BY <1>4 DEF WalWrite, IInv, TypeOK, Phases
    <3>2. /\ wal' = [wal EXCEPT ![record[1]] = record[2]]
          /\ tail = "clean" /\ tail' = "clean"
          /\ logMay' \subseteq logMay \cup {<<wal', "clean">>} \cup Parts
      BY <1>4, <2>1 DEF WalWrite, InPlace, Unsynced
    <3> QED
      BY <1>2, <3>1, <3>2 DEF Log!Next, Log!Write
  <2>2. CASE ~InPlace
    BY <1>3, <1>4, <2>2 DEF WalWrite, Log!Next
  <2> QED
    BY <2>1, <2>2
<1>5. CASE Kill
  <2>1. CASE ~InPlace
    BY <1>1, <1>3, <1>5, <2>1 DEF Kill, Log!Next
  <2>2. CASE InPlace
    <3>1. /\ tail = "clean" /\ tail' = "cut" /\ wal' = wal
          /\ logMay' = Unsynced(logMay, <<wal, "cut">>) \cup Parts
      BY <1>1, <1>5, <2>2 DEF Kill, InPlace
    <3>2. logMay' \subseteq logMay \cup ({wal} \X Log!Broken)
      BY <1>2, <3>1 DEF Unsynced, Log!Broken
    <3> QED
      BY <3>1, <3>2 DEF Log!Next, Log!Part, Log!Broken
  <2> QED
    BY <2>1, <2>2
<1>6. CASE WalSync \/ ClearSync
  BY <1>1, <1>6 DEF WalSync, ClearSync, Log!Next, Log!Sync
<1>7. CASE Truncate
  <2>1. /\ wal' = Blank /\ tail' = "clean" /\ Blank = Log!Blank
        /\ logMay' \subseteq logMay \cup {<<Blank, "clean">>}
    BY <1>7 DEF Truncate, Unsynced, Blank, Log!Blank
  <2> QED
    BY <2>1 DEF Log!Next, Log!Truncate
<1>8. CASE PowerLoss
  <2>1. PICK l \in logMay : wal' = l[1] /\ tail' = l[2]
    BY <1>1, <1>8 DEF PowerLoss
  <2>2. l = <<wal', tail'>>
    BY <2>1 DEF IInv, TypeOK, Logs
  <2> QED
    BY <1>8, <2>1, <2>2 DEF PowerLoss, Log!Next, Log!PowerLoss
<1>9. CASE WalWriteFails
  BY <1>9 DEF WalWriteFails, LogUsable
<1>10. CASE \/ \E k \in Keys, e \in Writes : Put(k, e)
            \/ Flush \/ Compact \/ CompactToNothing \/ Open \/ OpenFails \/ UNCHANGED vars
            \/ WalSyncFails \/ CreateTmp \/ SyncTmp \/ Rename \/ FlushDirSync \/ CompactDirSync
            \/ WriteSortedFails \/ ClearFails \/ Unlink \/ UnlinkFails \/ UnlinkSync
            \/ UnlinkSyncFails \/ CompactDone
  BY <1>10 DEF vars, disk, Put, WalSyncFails, Flush, CreateTmp, SyncTmp, Rename, FlushDirSync,
       CompactDirSync, WriteSortedFails, ClearFails, Compact, CompactToNothing, Unlink,
       UnlinkFails, UnlinkSync, UnlinkSyncFails, CompactDone, Open, OpenFails
<1> QED
  BY <1>4, <1>5, <1>6, <1>7, <1>8, <1>9, <1>10 DEF Next, Step

\* The tree takes its log to do nothing but what LogLayer says, power losses that
\* cut a record included, where no append fails, no sync of a truncated log does
\* and the log's name is durable (lsm.rs:111-113, wal.rs:31-46, 55-58).
THEOREM LogFollowsLayer == Spec /\ LogUsable => Log!Spec
<1>1. Init /\ LogUsable => AtEnd /\ Log!Init
  BY DEF Init, LogUsable, AtEnd, Log!Init, Blank, Log!Blank
<1>2. LogUsable /\ [Next]_vars => LogUsable'
  BY FailingFixed DEF LogUsable
<1> QED
  BY <1>1, <1>2, NextAtEnd, StepOnLog, Inductive, PTL DEF Spec, Log!Spec, Log!vars
==============================================================================
