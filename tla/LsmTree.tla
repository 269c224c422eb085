------------------------------- MODULE LsmTree -------------------------------
(***************************************************************************)
(* LsmTree (src/lsm.rs) over its files: the write path through the log,    *)
(* flush, compaction and reopen, cut at every system call that can fail or *)
(* be the last one before the process or the machine dies.                 *)
(*                                                                         *)
(* The handle is used under Engine's write lock, so at most one operation  *)
(* is under way: pc names the system call it will make next.  For each     *)
(* file the model keeps what a reader sees now (the page cache) and the    *)
(* set of contents power loss may leave.                                   *)
(***************************************************************************)
EXTENDS Integers, Sequences, FiniteSets, SequencesExt

CONSTANTS Keys,        \* keys the clients use
          Values,      \* values the clients write
          MaxId,       \* bound on the ids of tables: they are 0 .. MaxId - 1
          Full(_),     \* MemTable::is_full, as a predicate on the entries
          Scenarios,   \* sets of failures: a run of the system meets those of one
          NoFile,      \* content of a table id with no file under it
          Torn         \* content of a file whose data did not all reach the disk

\* A failure is named after the system call that fails, "append" being the writes
\* of a log record; "kill" is the death of the process, "power" that of the
\* machine.  "cut" and "ragged" say what a death may leave of a record under way:
\* one that breaks off in the middle, and with "ragged" one of which only some
\* bytes of its first length reached the disk.  "unnamed_log" says that syncing
\* a new log does not make its directory entry durable.
FailureNames == {"append", "wal_sync", "create", "sync", "rename", "dir_sync",
                 "truncate", "clear_sync", "unlink", "unlink_sync",
                 "kill", "power", "cut", "ragged", "unnamed_log"}

ASSUME MaxIdAssumption == MaxId \in Nat
ASSUME ScenariosAssumption == Scenarios \subseteq SUBSET FailureNames
ASSUME ValuesAssumption == Values \cap {"Deleted", "NotFound", "None"} = {}

Ids == 0 .. MaxId - 1
Entries == Values \cup {"Deleted", "NotFound"}    \* Lookup of one layer
Writes == Values \cup {"Deleted"}                 \* put(value) and delete
Results == Values \cup {"None"}                   \* Option<String> of a read

Content == [Keys -> Entries]                      \* one layer, memtable or table
File == Content \cup {NoFile, Torn}
Blank == [k \in Keys |-> "NotFound"]              \* an empty layer
NoRecord == <<>>

\* How the log ends: after a whole record, within one so that replay refuses it
\* (wal.rs:86-99), or in bytes that replay leaves out (wal.rs:79-83).
Ends == {"clean", "cut", "ragged"}
Logs == Content \X Ends

ASSUME FullAssumption == \A m \in Content : Full(m) \in BOOLEAN
ASSUME FileAssumption == /\ NoFile \notin Content \cup {Torn}
                         /\ Torn \notin Content

ToOption(e) == IF e \in Values THEN e ELSE "None"

VARIABLES
  table,       \* table[i]: the file sst-i.sst as a reader finds it
  tableMay,    \* tableMay[i]: what power loss may leave of it
  tmp,         \* the .tmp file being written: "none", "dirty" or "synced"
  wal,         \* the layer that the log's records make up
  tail,        \* how the log ends
  logMay,      \* the layers and ends that power loss may leave of it
  walNamed,    \* the log's directory entry is durable
  at,          \* where the log's handle writes: "append", to the end; "offset",
               \* at its offset, which is the end; "astray", which is not
  spilled,     \* a failed append has left bytes in the BufWriter
  pc,          \* "idle", "down" or the next system call
  op,          \* what write_sorted is working for: "none", "flush", "compact"
  record,      \* the log record in flight, <<key, entry>>
  memtable,
  sstables,    \* ids of the open tables, newest first
  old,         \* tables a compaction still has to unlink, newest first
  nextId,
  reply,       \* history: "pending" during a put or delete, then what the last
               \* one returned, "ok" or "error"; "none" before and after a death
  promised,    \* history: what a restart may reveal for each key
  failing      \* the failures that can happen, which never change

logFile == <<wal, tail, logMay>>
disk == <<table, tableMay, tmp, logFile, walNamed>>
handle == <<at, spilled>>
memory == <<op, record, memtable, sstables, old, nextId, handle>>
vars == <<disk, memory, pc, reply, promised, failing>>

-----------------------------------------------------------------------------
(* Reading *)

IsTable(f) == f \notin {NoFile, Torn}

\* SSTable::get, and one step of the search in LsmTree::get.
Holds(i, k) == IsTable(table[i]) /\ table[i][k] # "NotFound"

OldestWins(S) == CHOOSE n \in S : \A m \in S : m <= n    \* mutant of Winner
Winner(S) == CHOOSE n \in S : \A m \in S : n <= m

\* The entry of the first of the listed tables that knows the key.
NewestIn(ids, k) ==
  LET hits == {n \in 1 .. Len(ids) : Holds(ids[n], k)}
  IN  IF hits = {} THEN "NotFound"
      ELSE table[ids[Winner(hits)]][k]

Get(k) == ToOption(IF memtable[k] # "NotFound" THEN memtable[k]
                   ELSE NewestIn(sstables, k))

\* The merge of all open tables with the tombstones dropped.
Merged == [k \in Keys |-> LET e == NewestIn(sstables, k)
                          IN  IF e \in Values THEN e ELSE "NotFound"]

-----------------------------------------------------------------------------
(* What the disk may hold after power loss.  With no power loss among the   *)
(* failures only the page cache counts, and the sets stay singletons.       *)

Unsynced(may, now) == IF "power" \in failing THEN may \cup {now} ELSE {now}

walMay == {l[1] : l \in logMay}
WalOutcomes == walMay \cup (IF walNamed THEN {} ELSE {Blank})

\* The values that a restart may reveal for k, whatever happens before it.
CanMiss(i, k) == \E f \in tableMay[i] : IsTable(f) => f[k] = "NotFound"

TableFates(k) ==
  LET Reached(i) == \A j \in Ids : j > i => CanMiss(j, k)
      Found(i) == {f[k] : f \in {g \in tableMay[i] : IsTable(g)}} \ {"NotFound"}
  IN  {ToOption(e) : e \in UNION {Found(i) : i \in {j \in Ids : Reached(j)}}}
        \cup (IF Reached(-1) THEN {"None"} ELSE {})

Fates(k) ==
  {ToOption(w[k]) : w \in {x \in WalOutcomes : x[k] # "NotFound"}}
    \cup (IF \E w \in WalOutcomes : w[k] = "NotFound" THEN TableFates(k) ELSE {})

-----------------------------------------------------------------------------
Init ==
  /\ failing \in Scenarios
  /\ table = [i \in Ids |-> NoFile]
  /\ tableMay = [i \in Ids |-> {NoFile}]
  /\ tmp = "none"
  /\ wal = Blank /\ tail = "clean"
  /\ logMay = {<<Blank, "clean">>}
  /\ at = "append" /\ spilled = FALSE
  /\ reply = "none"
  /\ walNamed = ("unnamed_log" \notin failing)
  /\ pc = "idle" /\ op = "none" /\ record = NoRecord
  /\ memtable = Blank
  /\ sstables = <<>> /\ old = <<>>
  /\ nextId = 0
  /\ promised = [k \in Keys |-> {"None"}]

-----------------------------------------------------------------------------
(* put and delete *)

\* The call begins: from here on a restart may reveal the write.
Put(k, e) ==
  /\ pc = "idle"
  /\ nextId < MaxId
  /\ record' = <<k, e>>
  /\ promised' = [promised EXCEPT ![k] = @ \cup {ToOption(e)}]
  /\ reply' = "pending"
  /\ pc' = "append"
  /\ UNCHANGED <<disk, op, memtable, sstables, old, nextId, handle, failing>>

\* What is written lands behind the last record, with nothing in between.
InPlace == tail = "clean" /\ at # "astray" /\ ~spilled
\* What death may leave when the power goes before the record is synced.
Parts == IF "power" \in failing THEN {wal} \X ({"cut", "ragged"} \cap failing) ELSE {}

\* Bytes land elsewhere: what replay then makes of the log depends on them.
Misplaced == /\ wal' \in Content /\ tail' \in Ends
             /\ logMay' = IF "power" \in failing THEN Logs ELSE {<<wal', tail'>>}

\* The record is handed to the operating system (BufWriter::flush), behind what
\* was left in the buffer.
WalWrite ==
  /\ pc = "append"
  /\ \/ /\ InPlace
        /\ wal' = [wal EXCEPT ![record[1]] = record[2]]
        /\ tail' = "clean"
        /\ logMay' = Unsynced(logMay, <<wal', "clean">>) \cup Parts
     \/ ~InPlace /\ Misplaced
  /\ spilled' = FALSE
  /\ pc' = "wal_sync"
  /\ UNCHANGED <<table, tableMay, tmp, walNamed, op, record, memtable,
                 sstables, old, nextId, at, reply, promised, failing>>

\* One of its write calls fails: part of the record is in the file, the rest
\* stays in the buffer, and the caller gets the error.
WalWriteFails ==
  /\ pc = "append" /\ "append" \in failing
  /\ \/ /\ InPlace
        /\ wal' = wal /\ tail' \in Ends
        /\ logMay' = Unsynced(logMay, <<wal, tail'>>) \cup Parts
     \/ ~InPlace /\ Misplaced
  /\ spilled' = TRUE
  /\ record' = NoRecord
  /\ reply' = "error"
  /\ pc' = "idle"
  /\ UNCHANGED <<table, tableMay, tmp, walNamed, op, memtable,
                 sstables, old, nextId, at, promised, failing>>

\* sync_all succeeds: the memtable takes the entry, and flush_if_full decides.
WalSync ==
  /\ pc = "wal_sync"
  /\ logMay' = {<<wal, tail>>}
  /\ LET k == record[1]
         e == record[2]
     IN  /\ memtable' = [memtable EXCEPT ![k] = e]
         /\ promised' = [promised EXCEPT ![k] = {ToOption(e)}]
  /\ record' = NoRecord
  /\ IF Full(memtable') THEN pc' = "create" /\ op' = "flush" /\ reply' = reply
                        ELSE pc' = "idle" /\ op' = op /\ reply' = "ok"
  /\ UNCHANGED <<table, tableMay, tmp, wal, tail, walNamed, sstables, old, nextId,
                 handle, failing>>

\* sync_all fails: the caller gets the error, the record stays in the file.
WalSyncFails ==
  /\ pc = "wal_sync" /\ "wal_sync" \in failing
  /\ record' = NoRecord
  /\ reply' = "error"
  /\ pc' = "idle"
  /\ UNCHANGED <<disk, op, memtable, sstables, old, nextId, handle, promised, failing>>

-----------------------------------------------------------------------------
(* flush, and the writing of a table that it shares with compact *)

Flush ==
  /\ pc = "idle"
  /\ memtable # Blank
  /\ nextId < MaxId
  /\ pc' = "create" /\ op' = "flush"
  /\ UNCHANGED <<disk, record, memtable, sstables, old, nextId, handle, reply, promised, failing>>

CreateTmp ==
  /\ pc = "create"
  /\ tmp' = "dirty"
  /\ pc' = "sync"
  /\ UNCHANGED <<table, tableMay, logFile, walNamed, memory, reply, promised, failing>>

SkipSync == /\ pc = "sync"                                 \* mutant of SyncTmp
            /\ pc' = "rename"
            /\ UNCHANGED <<disk, memory, reply, promised, failing>>
SyncTmp ==
  /\ pc = "sync"
  /\ tmp' = "synced"
  /\ pc' = "rename"
  /\ UNCHANGED <<table, tableMay, logFile, walNamed, memory, reply, promised, failing>>

Output == IF op = "flush" THEN memtable ELSE Merged

Rename ==
  /\ pc = "rename"
  /\ table' = [table EXCEPT ![nextId] = Output]
  /\ tableMay' = [tableMay EXCEPT ![nextId] =
                    Unsynced(@, Output)
                      \cup (IF tmp = "dirty" /\ "power" \in failing THEN {Torn} ELSE {})]
  /\ tmp' = "none"
  /\ pc' = "dir_sync"
  /\ UNCHANGED <<logFile, walNamed, memory, reply, promised, failing>>

NothingSynced == UNCHANGED <<tableMay, walNamed>>    \* mutant of DirectorySynced
\* Syncing the directory makes every entry in it durable, the log's included.
DirectorySynced == /\ tableMay' = [i \in Ids |-> {table[i]}]
                   /\ walNamed' = TRUE

\* write_sorted returns, and the next id is taken.  A flush goes on to the log;
\* a compaction opens the new table in place of the old ones.
FlushDirSync ==
  /\ pc = "dir_sync" /\ op = "flush"
  /\ DirectorySynced
  /\ nextId' = nextId + 1
  /\ pc' = "truncate"
  /\ UNCHANGED <<table, tmp, logFile, op, record,
                 memtable, sstables, old, handle, reply, promised, failing>>

NewestGoFirst == Reverse(sstables)                       \* mutant of Replaced
Replaced == sstables   \* the tables to unlink, from the last one

CompactDirSync ==
  /\ pc = "dir_sync" /\ op = "compact"
  /\ DirectorySynced
  /\ nextId' = nextId + 1
  /\ old' = Replaced
  /\ sstables' = <<nextId>>
  /\ pc' = "unlink"
  /\ UNCHANGED <<table, tmp, logFile, op, record, memtable, handle, reply, promised, failing>>

\* A flush answers the put or delete that set it off, if one did.
Answered(a) == reply' = IF reply = "pending" THEN a ELSE reply

\* One of write_sorted's calls fails: its caller returns the error at once, and
\* so does the put behind it, whose record is synced and readable all the same.
WriteSortedFails ==
  /\ pc \in {"create", "sync", "rename", "dir_sync"} /\ pc \in failing
  /\ Answered("error")
  /\ pc' = "idle" /\ op' = "none"
  /\ UNCHANGED <<disk, record, memtable, sstables, old, nextId, handle, promised, failing>>

\* Wal::clear opens the log with truncate(true) ...
Truncate ==
  /\ pc = "truncate"
  /\ wal' = Blank /\ tail' = "clean"
  /\ logMay' = Unsynced(logMay, <<Blank, "clean">>)
  /\ pc' = "clear_sync"
  /\ UNCHANGED <<table, tableMay, tmp, walNamed, memory, reply, promised, failing>>

\* The list of open tables with the new one in it, and two mutants of it.
ListedLast == sstables \o <<nextId - 1>>
ListedUnderNextId == <<nextId>> \o sstables
WithNewTable == <<nextId - 1>> \o sstables

\* ... and syncs it; the handle it keeps is not in append mode.  The old
\* BufWriter is dropped, which writes what is left in it where the new handle
\* will write too.  Then the table takes the memtable's place.
ClearSync ==
  /\ pc = "clear_sync"
  /\ \/ ~spilled /\ logMay' = {<<wal, tail>>} /\ UNCHANGED <<wal, tail>>
     \/ spilled /\ Misplaced
  /\ at' = IF spilled THEN "astray" ELSE "offset"
  /\ spilled' = FALSE
  /\ memtable' = Blank
  /\ sstables' = WithNewTable
  /\ Answered("ok")
  /\ pc' = "idle" /\ op' = "none"
  /\ UNCHANGED <<table, tableMay, tmp, walNamed, record, old, nextId, promised, failing>>

\* Wal::clear fails: flush returns before it lists the table it wrote.  After a
\* truncation the old handle stays, and its offset, if it has one, is past the end.
ClearFails ==
  /\ pc \in {"truncate", "clear_sync"} /\ pc \in failing
  /\ at' = IF pc = "clear_sync" /\ at = "offset" THEN "astray" ELSE at
  /\ Answered("error")
  /\ pc' = "idle" /\ op' = "none"
  /\ UNCHANGED <<disk, record, memtable, sstables, old, nextId, spilled, promised, failing>>

-----------------------------------------------------------------------------
(* compact *)

Compact ==
  /\ pc = "idle"
  /\ Len(sstables) >= 2
  /\ Merged # Blank
  /\ nextId < MaxId
  /\ pc' = "create" /\ op' = "compact"
  /\ UNCHANGED <<disk, record, memtable, sstables, old, nextId, handle, reply, promised, failing>>

\* Every key is deleted: no table is written, the old ones only go away.
CompactToNothing ==
  /\ pc = "idle"
  /\ Len(sstables) >= 2
  /\ Merged = Blank
  /\ pc' = "unlink" /\ op' = "compact"
  /\ old' = Replaced
  /\ sstables' = <<>>
  /\ UNCHANGED <<disk, record, memtable, nextId, handle, reply, promised, failing>>

NothingGone == old                                           \* mutant of Rest
Rest == Front(old)   \* what is left once the last one is unlinked

\* remove_file of the oldest table that is left.
Unlink ==
  /\ pc = "unlink" /\ old # <<>>
  /\ table' = [table EXCEPT ![Last(old)] = NoFile]
  /\ tableMay' = [tableMay EXCEPT ![Last(old)] = Unsynced(@, NoFile)]
  /\ pc' = "unlink_sync"
  /\ UNCHANGED <<tmp, logFile, walNamed, memory, reply, promised, failing>>

\* It fails: this table and the newer ones are served again.
UnlinkFails ==
  /\ pc = "unlink" /\ old # <<>> /\ "unlink" \in failing
  /\ sstables' = sstables \o old
  /\ old' = <<>>
  /\ pc' = "idle" /\ op' = "none"
  /\ UNCHANGED <<disk, record, memtable, nextId, handle, reply, promised, failing>>

UnlinkSync ==
  /\ pc = "unlink_sync"
  /\ DirectorySynced
  /\ old' = Rest
  /\ pc' = "unlink"
  /\ UNCHANGED <<table, tmp, logFile, op, record,
                 memtable, sstables, nextId, handle, reply, promised, failing>>

\* The unlink took place but its sync failed: only the newer ones are served.
UnlinkSyncFails ==
  /\ pc = "unlink_sync" /\ "unlink_sync" \in failing
  /\ sstables' = sstables \o Rest
  /\ old' = <<>>
  /\ pc' = "idle" /\ op' = "none"
  /\ UNCHANGED <<disk, record, memtable, nextId, handle, reply, promised, failing>>

CompactDone ==
  /\ pc = "unlink" /\ old = <<>>
  /\ pc' = "idle" /\ op' = "none"
  /\ UNCHANGED <<disk, record, memtable, sstables, old, nextId, handle, reply, promised, failing>>

-----------------------------------------------------------------------------
(* death and reopening *)

MemoryLost == /\ pc' = "down" /\ op' = "none" /\ record' = NoRecord
              /\ memtable' = Blank
              /\ sstables' = <<>> /\ old' = <<>>
              /\ nextId' = 0
              /\ at' = "append" /\ spilled' = FALSE
              /\ reply' = "none"
              /\ failing' = failing

\* The process dies, or closes the database; the page cache survives it.  A
\* record that does not fit the buffer goes out in several write calls, so that
\* a part of it may be in the file; closing writes what a failed append left.
Kill ==
  /\ pc # "down" /\ "kill" \in failing
  /\ LET halfway == pc = "append" /\ "cut" \in failing
     IN  \/ UNCHANGED logFile
         \/ /\ halfway /\ InPlace
            /\ wal' = wal /\ tail' = "cut"
            /\ logMay' = Unsynced(logMay, <<wal, "cut">>) \cup Parts
         \/ halfway /\ ~InPlace /\ Misplaced
         \/ pc = "idle" /\ spilled /\ Misplaced
  /\ MemoryLost
  /\ UNCHANGED <<table, tableMay, tmp, walNamed, promised>>

\* The machine dies: each file is left with one of its possible contents.
PowerLoss ==
  /\ "power" \in failing
  /\ \E f \in [Ids -> UNION {tableMay[i] : i \in Ids}] :
        /\ \A i \in Ids : f[i] \in tableMay[i]
        /\ table' = f
        /\ tableMay' = [i \in Ids |-> {f[i]}]
  /\ \/ /\ \E l \in logMay : wal' = l[1] /\ tail' = l[2]
        /\ walNamed' = TRUE
     \/ ~walNamed /\ wal' = Blank /\ tail' = "clean" /\ walNamed' = FALSE
  /\ logMay' = {<<wal', tail'>>}
  /\ tmp' = "none"
  /\ MemoryLost
  /\ promised' = promised

\* LsmTree::open: drop a leftover .tmp, open the tables newest first, continue
\* after the highest id, replay the log and append to it from then on, behind
\* whatever bytes replay has left out.  A torn table or log makes it fail.
Present == {i \in Ids : table[i] # NoFile}
Descending(s) == \A m, n \in 1 .. Len(s) : m < n => s[m] > s[n]
NewestFirstSeqs(S) ==
  {s \in [1 .. Cardinality(S) -> S] :
     Descending(s) /\ \A i \in S : \E n \in 1 .. Cardinality(S) : s[n] = i}

\* The id after those of the tables, newest first, and two mutants of it.
FromZero(s) == 0
ReuseHighest(s) == IF s = <<>> THEN 0 ELSE s[1]
FreshId(s) == IF s = <<>> THEN 0 ELSE s[1] + 1

TablesOpen == \A i \in Ids : table[i] # Torn

Open ==
  /\ pc = "down"
  /\ TablesOpen /\ tail # "cut"
  /\ \E s \in NewestFirstSeqs(Present) :
        /\ sstables' = s
        /\ nextId' = FreshId(s)
  /\ memtable' = wal
  /\ tmp' = "none"
  /\ pc' = "idle"
  /\ UNCHANGED <<table, tableMay, logFile, walNamed, op, record, old, handle,
                 reply, promised, failing>>

\* It fails; the leftover .tmp is gone all the same.
OpenFails ==
  /\ pc = "down"
  /\ ~TablesOpen \/ tail = "cut"
  /\ tmp' = "none"
  /\ UNCHANGED <<table, tableMay, logFile, walNamed, memory, pc, reply, promised, failing>>

-----------------------------------------------------------------------------
Step == \/ WalWrite \/ WalWriteFails \/ WalSync \/ WalSyncFails
        \/ CreateTmp \/ SyncTmp \/ Rename \/ FlushDirSync \/ CompactDirSync
        \/ WriteSortedFails
        \/ Truncate \/ ClearSync \/ ClearFails
        \/ Unlink \/ UnlinkFails \/ UnlinkSync \/ UnlinkSyncFails \/ CompactDone

Next == \/ \E k \in Keys, e \in Writes : Put(k, e)
        \/ Flush \/ Compact \/ CompactToNothing
        \/ Step
        \/ Kill \/ PowerLoss \/ Open \/ OpenFails

Spec == Init /\ [][Next]_vars

\* A call that has started runs on, and whoever runs the database reopens it.
Fairness == WF_vars(Step) /\ WF_vars(Open)
LiveSpec == Spec /\ Fairness

-----------------------------------------------------------------------------
(* Properties *)

TypeOK ==
  /\ table \in [Ids -> File]
  /\ tableMay \in [Ids -> SUBSET File]
  /\ tmp \in {"none", "dirty", "synced"}
  /\ wal \in Content /\ tail \in Ends
  /\ logMay \subseteq Logs
  /\ walNamed \in BOOLEAN
  /\ at \in {"append", "offset", "astray"} /\ spilled \in BOOLEAN
  /\ pc \in {"idle", "down", "append", "wal_sync", "create", "sync", "rename",
             "dir_sync", "truncate", "clear_sync", "unlink", "unlink_sync"}
  /\ op \in {"none", "flush", "compact"}
  /\ record \in {NoRecord} \cup (Keys \X Writes)
  /\ memtable \in Content
  /\ sstables \in Seq(Ids)
  /\ old \in Seq(Ids)
  /\ nextId \in 0 .. MaxId
  /\ reply \in {"none", "pending", "ok", "error"}
  /\ promised \in [Keys -> SUBSET Results]
  /\ failing \in Scenarios

\* Premises.  Writing behind the debris of an earlier record loses what is
\* written there, acknowledged or not: after a failed append or a failed sync of
\* the truncated log, or when power loss has left some bytes of a length.
LogKept == {"append", "clear_sync", "ragged"} \cap failing = {}

\* The failures every write survives.  A delete can be undone besides when a
\* failed truncation keeps a table out of the list, and when power is lost
\* before an unlink of which the process has forgotten was synced.
Survivable ==
  /\ LogKept
  /\ {"truncate", "unnamed_log"} \cap failing = {}
  /\ "power" \in failing => {"kill", "unlink_sync"} \cap failing = {}

\* The failures a put survives; one more than above it does not is the loss of a
\* new log's name.
Tame == LogKept /\ "unnamed_log" \notin failing

\* Where the failures are survivable, an acknowledged write is never lost, nor an
\* older value brought back: at every moment, all that a restart may reveal of a
\* key is its last synced write or one attempted after it.  A log that power loss
\* has cut reveals nothing, since no restart succeeds on it (lsm.rs:111-113,
\* 167-168 and 209-217).
NoAckedLoss == Survivable => \A k \in Keys : Fates(k) \subseteq promised[k]

\* Where the failures are tame, an acknowledged put is never lost, nor an older
\* value shown in its place, even when a killed process leaves unlinks unsynced
\* or a table unlisted and power is lost later: only a delete can be undone
\* (lsm.rs:209-217, wal.rs:55-58).  Of the failures that are not, each can lose a
\* put: debris in the log swallows the records behind it, a new log's name may
\* go, and a failed sync of the truncated log leaves the table just written out
\* of the list, so that a compaction puts older values under a higher id.
PutsKept == Tame =>
  \A k \in Keys : "None" \notin promised[k] => Fates(k) \subseteq promised[k]

\* A key whose delete was acknowledged stays deleted through flushes,
\* compactions that drop its tombstone, and restarts (lsm.rs:127-128, 179-180).
DeletedStaysDeleted ==
  pc # "down" => \A k \in Keys : promised[k] = {"None"} => Get(k) = "None"

\* The tables in use are on disk and complete, and so are those a failed
\* compaction would serve again (lsm.rs:223-232).
ListedReadable ==
  /\ \A n \in 1 .. Len(sstables) : IsTable(table[sstables[n]])
  /\ \A n \in 1 .. Len(old) :
       pc = "unlink" \/ n < Len(old) => IsTable(table[old[n]])

\* The search order of reads is the age order of the tables, through partial
\* compactions and reopening, and the next id is above every listed table's
\* (lsm.rs:17-19, 75).
NewestFirst ==
  /\ Descending(sstables \o old)
  /\ \A n \in 1 .. Len(sstables) : sstables[n] < nextId

\* A table in use is never rewritten while the process lives: a step changes
\* its file only by unlinking it after it was replaced (lsm.rs:17-19, 209-217).
LiveTablesImmutable ==
  [][\A n \in 1 .. Len(sstables) :
        pc' # "down" => table'[sstables[n]] = table[sstables[n]]]_vars

\* No power loss can leave a truncated file under a table's name, which open
\* would refuse to read (sstable.rs:55-58).
NoTornTable == \A i \in Ids : Torn \notin tableMay[i]

\* Every operation returns or dies, and a database that went down is served
\* again, unless its log is cut: then, and only then, every open fails
\* (wal.rs:86-99, lsm.rs:94).
OperationsReturn ==
  /\ (pc \notin {"idle", "down"}) ~> (pc \in {"idle", "down"})
  /\ (pc = "down") ~> (pc = "idle" \/ tail = "cut")

-----------------------------------------------------------------------------
(* The tree implements the durable map. *)

Abstract == INSTANCE DurableMap WITH
  up <- pc # "down",
  store <- [k \in Keys |-> IF pc = "down" THEN "Unavailable" ELSE Get(k)],
  write <- IF record = NoRecord THEN <<>> ELSE <<record[1], ToOption(record[2])>>

\* Where the failures are survivable, the tree is a durable map to its callers:
\* a flush, a compaction or a failure in the middle of one changes no read; a put
\* is seen at once after its sync and returns Ok only then, though it may return
\* an error later too, from the flush it set off (lsm.rs:117); and a restart that
\* succeeds reveals only what was promised (lsm.rs:111-145).
ImplementsDurableMap ==
  /\ Survivable => Abstract!Init
  /\ [][Survivable => Abstract!Next \/ UNCHANGED Abstract!vars]_vars
=============================================================================
