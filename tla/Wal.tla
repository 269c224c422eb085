--------------------------------- MODULE Wal ---------------------------------
(***************************************************************************)
(* The write-ahead log (src/wal.rs) down to the bytes of its file, which   *)
(* is where a torn record, a partial write and a reused file offset show.  *)
(* Numbers are scaled down: a cell holds a digit in base Base, and a       *)
(* length takes two cells where the code's u32 takes four bytes.           *)
(***************************************************************************)
EXTENDS Integers, Sequences, SequencesExt, FiniteSets

CONSTANTS Keys,       \* keys and values, as sequences of cells
          Values,
          Base,       \* a cell is a digit below Base
          Capacity,   \* capacity of the BufWriter, in cells
          Scenarios,  \* a behaviour puts the records and meets the failures of one
          MaxLog,     \* bound: records put in the log over a behaviour
          MaxCells    \* bound: cells of the file when a put starts

FailureNames == {"kill", "power", "write", "sync", "clear_open", "clear_sync"}

Cells == 0 .. Base - 1
Tombstone == Base * Base - 1      \* u32::MAX, as a length

ASSUME SizesAssumption ==
  /\ Base \in Nat \ {0} /\ Capacity \in Nat /\ MaxLog \in Nat /\ MaxCells \in Nat
  /\ \A s \in Keys \cup Values : s \in Seq(Cells) /\ Len(s) < Tombstone

\* A value stands for put, the lack of one for delete.
Records == [key : Keys, value : {<<v>> : v \in Values} \cup {<<>>}]
ASSUME ScenariosAssumption ==
  Scenarios \subseteq [records : SUBSET Records, failures : SUBSET FailureNames]
NoRecord == [key |-> <<>>, value |-> <<>>]

VARIABLES
  file,     \* the log as a reader finds it
  disk,     \* the log as it was last synced
  buf,      \* bytes in the BufWriter
  at,       \* offset of its file handle, Append if opened with append(true)
  queue,    \* write_all calls still to make for the record being put
  pc,       \* "idle", "put", "clear_sync" or "down"
  log,      \* history: the records since the last clear, and whether they
            \* must be recovered
  scenario  \* never changes
vars == <<file, disk, buf, at, queue, pc, log, scenario>>

Fail(f) == f \in scenario.failures

Append_ == -1

-----------------------------------------------------------------------------
(* The record format, and replay *)

Number(n) == <<n % Base, n \div Base>>
Valued(f, i) == f[i] + Base * f[i + 1]

\* The write_all calls of put and of delete.
Chunks(r) == <<Number(Len(r.key)), r.key>> \o
             (IF r.value = <<>> THEN <<Number(Tombstone)>>
              ELSE <<Number(Len(r.value[1])), r.value[1]>>)

Cut == [cut |-> TRUE]    \* what read_exact finds of a record that is not all there

\* What a file holds from cell i on.  One that ends within the length of a key
\* ends the log there.
Parsed(f) ==
  LET from[i \in 1 .. Len(f) + 1] ==
        LET afterKey == i + 1 + Valued(f, i)
            key == SubSeq(f, i + 2, afterKey)
            size == Valued(f, afterKey + 1)
            end == afterKey + 2 + (IF size = Tombstone THEN 0 ELSE size)
            value == IF size = Tombstone THEN <<>> ELSE <<SubSeq(f, afterKey + 3, end)>>
        IN  IF Len(f) < i + 1 THEN <<>>
            ELSE IF Len(f) < afterKey + 2 \/ Len(f) < end THEN <<Cut>>
            ELSE <<[key |-> key, value |-> value]>> \o from[end + 1]
  IN  from[1]

Replay(f) == LET all == Parsed(f)
             IN  IF all # <<>> /\ Last(all) = Cut THEN [ok |-> FALSE, entries |-> <<>>]
                 ELSE [ok |-> TRUE, entries |-> all]

-----------------------------------------------------------------------------
(* Writing through the buffer *)

\* The file after cells are written at an offset; a gap is filled with zeros.
Written(offset, cells) ==
  LET from == IF offset = Append_ THEN Len(file) ELSE offset
      to == IF cells = <<>> THEN 0 ELSE from + Len(cells)
  IN  [i \in 1 .. (IF to > Len(file) THEN to ELSE Len(file)) |->
         IF i > from /\ i <= to THEN cells[i - from]
         ELSE IF i <= Len(file) THEN file[i] ELSE 0]

\* One write call that takes these cells.
WriteCall(cells) ==
  /\ file' = Written(at, cells)
  /\ at' = IF at = Append_ THEN at ELSE at + Len(cells)

Start(r) ==
  /\ pc = "idle"
  /\ Len(log) < MaxLog /\ Len(file) < MaxCells
  /\ queue' = Chunks(r)
  /\ log' = Append(log, [record |-> r, acked |-> FALSE])
  /\ pc' = "put"
  /\ UNCHANGED <<file, disk, buf, at, scenario>>

Buffered(r) == Len(FlattenSeq(Chunks(r))) <= Capacity

Spare == Capacity - Len(buf)

\* write_all copies what fits ...
Buffer ==
  /\ pc = "put" /\ queue # <<>>
  /\ Len(Head(queue)) <= Spare /\ Len(Head(queue)) < Capacity
  /\ buf' = buf \o Head(queue)
  /\ queue' = Tail(queue)
  /\ UNCHANGED <<file, disk, at, pc, log, scenario>>

AtOnce == pc = "put" /\ buf # <<>>                      \* mutant of Emptying

\* ... or first empties the buffer, as flush() does at the end ...
Emptying == /\ pc = "put" /\ buf # <<>>
            /\ queue # <<>> => Len(Head(queue)) > Spare
Empty ==
  /\ Emptying
  /\ WriteCall(buf)
  /\ buf' = <<>>
  /\ UNCHANGED <<disk, queue, pc, log, scenario>>

\* ... and passes on what is larger than the whole buffer.
PassingOn == pc = "put" /\ buf = <<>> /\ queue # <<>> /\ Len(Head(queue)) >= Capacity
PassOn ==
  /\ PassingOn
  /\ WriteCall(Head(queue))
  /\ queue' = Tail(queue)
  /\ UNCHANGED <<disk, buf, pc, log, scenario>>

\* A write call takes only some of the cells and the next one fails (a full
\* disk): put returns the error; the rest of the buffer stays in the buffer.
WriteFails ==
  /\ Fail("write")
  /\ \/ /\ Emptying
        /\ \E n \in 0 .. Len(buf) - 1 : /\ WriteCall(SubSeq(buf, 1, n))
                                        /\ buf' = SubSeq(buf, n + 1, Len(buf))
     \/ /\ PassingOn
        /\ \E n \in 0 .. Len(Head(queue)) - 1 : WriteCall(SubSeq(Head(queue), 1, n))
        /\ buf' = buf
  /\ queue' = <<>>
  /\ pc' = "idle"
  /\ UNCHANGED <<disk, log, scenario>>

OnlyFlushed == disk                                     \* mutant of SyncedNow
SyncedNow == file

\* sync_all, after the flush: the record is acknowledged.
Sync ==
  /\ pc = "put" /\ queue = <<>> /\ buf = <<>>
  /\ disk' = SyncedNow
  /\ log' = [log EXCEPT ![Len(log)].acked = TRUE]
  /\ pc' = "idle"
  /\ UNCHANGED <<file, buf, at, queue, scenario>>

SyncFails ==
  /\ pc = "put" /\ queue = <<>> /\ buf = <<>> /\ Fail("sync")
  /\ pc' = "idle"
  /\ UNCHANGED <<file, disk, buf, at, queue, log, scenario>>

-----------------------------------------------------------------------------
(* clear *)

\* Every record is in a table now; until clear returns the log may hold it still.
Released == [i \in DOMAIN log |-> [log[i] EXCEPT !.acked = FALSE]]

Untouched == file                                       \* mutant of Truncated
Truncated == <<>>

Truncate ==
  /\ pc = "idle"
  /\ file' = Truncated
  /\ log' = Released
  /\ pc' = "clear_sync"
  /\ UNCHANGED <<disk, buf, at, queue, scenario>>

TruncateFails ==
  /\ pc = "idle" /\ Fail("clear_open")
  /\ log' = Released
  /\ UNCHANGED <<file, disk, buf, at, queue, pc, scenario>>

\* The new handle is not in append mode and stands at 0.  The old BufWriter is
\* dropped, which writes what is left in it through the old handle; the history
\* keeps a mark for that.
Debris == [record |-> NoRecord, acked |-> FALSE]

ClearSync ==
  /\ pc = "clear_sync"
  /\ disk' = file
  /\ file' = Written(at, buf)
  /\ buf' = <<>>
  /\ at' = 0
  /\ log' = IF buf = <<>> THEN <<>> ELSE <<Debris>>
  /\ pc' = "idle"
  /\ UNCHANGED <<queue, scenario>>

\* clear returns before it replaces the writer, whose handle keeps its offset.
ClearSyncFails ==
  /\ pc = "clear_sync" /\ Fail("clear_sync")
  /\ pc' = "idle"
  /\ UNCHANGED <<file, disk, buf, at, queue, log, scenario>>

-----------------------------------------------------------------------------
(* death and reopening *)

AtStart == 0                                             \* mutant of OpenedAt
OpenedAt == Append_    \* Wal::open opens the file with append(true)

WriterLost == buf' = <<>> /\ at' = OpenedAt /\ queue' = <<>> /\ pc' = "down"

\* Dropping the log writes what is left in its buffer.
Close ==
  /\ pc = "idle"
  /\ file' = Written(at, buf)
  /\ WriterLost
  /\ UNCHANGED <<disk, log, scenario>>

Kill ==
  /\ pc # "down" /\ Fail("kill")
  /\ WriterLost
  /\ UNCHANGED <<file, disk, log, scenario>>

\* Power loss leaves what was synced and any part of what was added since.
Outcomes == {disk} \cup
  {SubSeq(file, 1, n) : n \in (IF IsPrefix(disk, file) THEN Len(disk) ELSE 0) .. Len(file)}

PowerLoss ==
  /\ pc # "down" /\ Fail("power")
  /\ file' \in Outcomes
  /\ disk' = file'
  /\ WriterLost
  /\ UNCHANGED <<log, scenario>>

\* LsmTree::open replays the log, then Wal::open opens it for appending.
Open ==
  /\ pc = "down"
  /\ Replay(file).ok
  /\ pc' = "idle"
  /\ UNCHANGED <<file, disk, buf, at, queue, log, scenario>>

-----------------------------------------------------------------------------
Init == /\ scenario \in Scenarios
        /\ file = <<>> /\ disk = <<>>
        /\ buf = <<>> /\ at = Append_ /\ queue = <<>>
        /\ pc = "idle"
        /\ log = <<>>

Next == \/ \E r \in scenario.records : Start(r)
        \/ Buffer \/ Empty \/ PassOn \/ WriteFails \/ Sync \/ SyncFails
        \/ Truncate \/ TruncateFails \/ ClearSync \/ ClearSyncFails
        \/ Close \/ Kill \/ PowerLoss \/ Open

Spec == Init /\ [][Next]_vars

-----------------------------------------------------------------------------
(* Properties *)

TypeOK ==
  /\ file \in Seq(Cells) /\ disk \in Seq(Cells)
  /\ buf \in Seq(Cells) /\ Len(buf) <= Capacity
  /\ at \in {Append_} \cup Nat
  /\ queue \in Seq(Seq(Cells)) /\ Len(queue) <= 4
  /\ pc \in {"idle", "put", "clear_sync", "down"}
  /\ log \in Seq([record : Records \cup {NoRecord}, acked : BOOLEAN])
  /\ scenario \in Scenarios

\* The records replay returns, in the order they were put, with none missing
\* that was acknowledged and none that was not put.
Faithful(entries) ==
  \E kept \in SUBSET DOMAIN log :
    /\ \A i \in DOMAIN log : log[i].acked => i \in kept
    /\ Cardinality(kept) = Len(entries)
    /\ \A i \in kept :
         entries[Cardinality({j \in kept : j <= i})] = log[i].record

\* At every moment, whether the process dies now or the power goes, replay
\* rebuilds every acknowledged record, in order, or refuses the log: it never
\* leaves one out silently, nor makes one up (wal.rs:55-58, 64).
NothingLost ==
  \A f \in Outcomes \cup {file} : Replay(f).ok => Faithful(Replay(f).entries)

\* A log can be replayed whenever the process may have died: a record cut short
\* is one never acknowledged, and ends the log.
ShortReadEndsLog == pc = "down" => Replay(file).ok

\* Where the code keeps to them: no power has been lost, and no write call has
\* stopped halfway nor landed where clear did not expect it ...
WholeCalls == {"power", "write", "clear_sync"} \cap scenario.failures = {}
\* ... and every record goes through the buffer, and out of it in one call.
OneCall == \A r \in scenario.records : Buffered(r)
WholeRecords == WholeCalls /\ OneCall

NoSilentLoss == WholeCalls => NothingLost
AlwaysReplays == WholeRecords => ShortReadEndsLog

\* Whatever fails, the records acknowledged before the first trouble since the
\* last clear stand at the front of the log, byte for byte, even after power
\* loss: later writes, torn or misplaced, never reach back over them.
Undisturbed == {n \in 0 .. Len(log) : \A i \in 1 .. n : log[i].acked}
Encoded(n) == FlattenSeq([i \in 1 .. n |-> FlattenSeq(Chunks(log[i].record))])

FrontIntact ==
  \A n \in Undisturbed : \A f \in Outcomes : IsPrefix(Encoded(n), f)

-----------------------------------------------------------------------------
(* The log is the layer that LsmTree takes it to be. *)

\* The whole records of a file: of one that is cut, those before the cut.
Whole(f) == LET all == Parsed(f)
            IN  IF all # <<>> /\ Last(all) = Cut THEN Front(all) ELSE all

\* They make up the whole file, or replay finds it cut, or leaves cells out.
BytesOf(entries) == FlattenSeq([i \in DOMAIN entries |-> FlattenSeq(Chunks(entries[i]))])
TailOf(f) == IF ~Replay(f).ok THEN "cut"
             ELSE IF \E entries \in {Whole(f)} :
                       entries \in Seq(Records) /\ f = BytesOf(entries)
             THEN "clean" ELSE "ragged"

\* The whole records in order, the last of each key winning (LsmTree::open).
LayerOf(f) ==
  LET entries == Whole(f)
      Of(k) == {i \in DOMAIN entries : entries[i].key = k}
  IN  [k \in Keys |->
         IF Of(k) = {} THEN <<>>
         ELSE <<entries[CHOOSE i \in Of(k) : \A j \in Of(k) : j <= i].value>>]

Layer == INSTANCE LogLayer WITH
  Entries <- {<<r.value>> : r \in Records},
  NotFound <- <<>>,
  wal <- LayerOf(file),
  tail <- TailOf(file),
  may <- {<<LayerOf(f), TailOf(f)>> : f \in Outcomes}

\* Where no write call fails halfway and records go out in one call, each step on
\* the bytes is one on the layer, power losses included.
Layered == {"write", "clear_sync"} \cap scenario.failures = {} /\ OneCall

\* Through buffering, failing syncs and truncations, deaths, power losses and
\* reopening, a record is there whole or not at all, or is the broken end of the
\* log; a sync fixes it, a clear empties the log, and behind a sound end replay
\* invents nothing (wal.rs:55-58, 79-99, 112; lsm.rs:92-99).
ImplementsLogLayer ==
  /\ Layered => Layer!Init
  /\ [][Layered => UNCHANGED <<file, disk>> \/ Layer!Next \/ UNCHANGED Layer!vars]_vars
=============================================================================
