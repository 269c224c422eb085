# A TLA+ model of youdaheDB

youdaheDB is a small log-structured key-value store in Rust: a write-ahead log, a
memtable, sorted tables on disk, compaction, a thread-safe handle over them, and a
consistent-hashing ring for a cluster still to come; beside it a hosted backend takes
signups for a waitlist. This directory holds TLA+
modules of these parts, TLC configurations that check them on small instances, and
proofs for instances of any size that the TLA+ proof system (TLAPS) checks.

`PROJECT.json` lists the runs, the source lines each definition stands for, the
hazards of the code with the properties that watch over them, one mutation of the
model per property that the property must catch, and the theorems. To repeat a run:
`tlc -config X.cfg M.tla`; to repeat a proof: `tlapm M.tla`.

## 1. The system

| Component | Code | State it keeps | Operations |
|---|---|---|---|
| LSM tree | `src/lsm.rs` | memtable, list of open tables (newest first), next table id, log, directory lock | open, put, delete, get, scan_merge, flush, compact |
| Write-ahead log | `src/wal.rs` | `data.wal`, a `BufWriter` and a file handle | open, put, delete, sync, replay, clear |
| Memtable | `src/memtable.rs` | sorted entries, running total of their sizes | put, delete, get, iter, clear, is_full |
| Table file | `src/sstable.rs` | one immutable file, its index in memory | write_sorted, open, get, iter_entries |
| Merge iterator | `src/merge.rs` | the heads of its sources, bounds | next, one item at a time |
| Directory ownership | `lsm.rs` (open, field order), `engine.rs` (clones) | advisory lock on `LOCK` | open, drop |
| Engine | `src/engine.rs` | the tree behind `Arc<RwLock<..>>` | all of the tree's, from any thread; scan guards |
| Hash ring | `src/hash_ring.rs` | sorted positions, members | add_node, remove_node, owner |
| Ring hash function | `src/hash_ring/hash.rs` | none | 64-bit FNV-1a with a finaliser |
| Waitlist backend | `supabase/` | rows, queued HTTP calls | signup, trigger, mail function |
| Library root, REPL | `src/lib.rs`, `src/main.rs` | none | re-exports; one call per line |
| Tests, benchmark, crash writer | `tests/`, `src/bin/`, `src/engine/benchmark.rs` | none | drivers of the library |
| Web site, prototype client | `web/`, `cli/` | none of the engine's | pages; a mock |

How they interact. A caller has a clone of `Engine`; every call takes the read or the
write guard of one `RwLock` and runs on the tree under it. `put` and `delete` append
to the log and sync it, then insert in the memtable, then flush if the memtable is full,
all under the one write guard. `flush` writes the memtable to a temporary file, syncs it,
renames it, syncs the directory, clears the log, clears the memtable and lists the new
table. `compact` merges all tables through `MergeIter` into one, lists that, and
unlinks the old ones oldest first, with a directory sync after each. `open` takes the
directory lock, deletes leftover `.tmp` files, opens the tables in descending order of
id and replays the log. Reads search the memtable, then the tables from the newest.
The waitlist shares no code with this: `join_waitlist` inserts a row, the row's trigger
queues an HTTP call, and the called function mails a receipt and marks the row.

What is hard about it, and so what the models are built around:

- *death in the middle*: of a process (the page cache survives) or a machine (only what
  was synced survives) at each system call of put, flush, compact and open;
- *one of several steps failing*: every system call can return an error, after which
  the same process goes on using what is in memory;
- *bytes*: what a torn record, a full disk or a stale file offset does to the log;
- *threads*: readers and a writer of one tree, scans that stream under a guard,
  a panic under the write guard;
- *processes*: several openers of a directory, dying and closing at any moment;
- *arithmetic beside the data*: sizes and offsets added up next to what they count, and
  a hash whose every bit is part of a contract;
- *calls made again*: the waitlist's function, redelivered, overlapping itself, ended
  between the mail and the mark.

What correctness means, by component: the tree loses no acknowledged write and never
shows an older one again; its tables are whole, ordered by age and never rewritten; the
log gives back every acknowledged record in order; the memtable's total is exact and a
write leaves it below its limit; a table answers as the memtable it was made from; a
merge is right up to its first error, and complete if there is none; a directory has
one owner; a call on the engine takes effect at one moment and returns; the owner of a
key depends on the ring's members only and changes only with them, through hashes that
are those published; a row of the waitlist says what was mailed, and each signup is
mailed once.

## 2. The modules

| Module | Stands for | Composes or implements |
|---|---|---|
| `DurableMap` | abstract: what the tree promises across deaths | |
| `LsmTree` | the tree over its files and their durability | implements `DurableMap` |
| `AtomicMap` | abstract: what the engine promises its threads | |
| `Engine` | the lock, and calls cut where threads could meet | implements `AtomicMap` |
| `LogLayer` | abstract: what the log is to the tree | |
| `Wal` | the log's bytes, buffer and file offset | implements `LogLayer` |
| `MemTable`, `SSTable` | the size kept of the entries; the cells of a table file | |
| `TableFlush` | a flush: memtable to table file | composes `MemTable` and `SSTable` |
| `MergeIter` | the loop of `next()` over damaged and whole sources | |
| `Layers` | its sources as the layers of the tree | composes `MergeIter` and `LsmTree` |
| `DirectoryLock` | the advisory lock from open to drop | |
| `HashRing` | positions, members, owners, under any hash | |
| `Ordering` | the elements of a set in order, as a sorted vector or map yields them | used by `HashRing`, `MergeIter`, `TableFlush` |
| `Encoding` | the bytes that are hashed for keys and positions | extends `HashRing` |
| `RingHash` | the 64-bit hash of a string of bytes | |
| `Placement` | the positions of the ring under that hash | composes `Encoding` and `RingHash` |
| `Waitlist` | row, queue and mailing function | |
| `LsmTreeProofs`, `EngineProofs`, `WalProofs`, `MergeIterProofs`, `HashRingProofs`, `DirectoryProofs`, `WaitlistProofs` | theorems | |
| `OrderingProofs` | lemmas on sets in order | |
| `MC*` | values for TLC's constants | |

A definition carries the name it has in the code where there is one; those marked
`mutant of X` are faulty versions of `X` that nothing uses, kept to show that the
properties notice.

**LsmTree.** `memtable`, `sstables`, `nextId` are the fields of the struct; `old` is what
`compact` has taken out of the list and still has to unlink. `table[i]` is the file with
id *i* as a reader sees it, `tableMay[i]` the set of contents that power loss may leave;
`wal` is the layer that the log's whole records make up and `tail` says how it ends: after a
whole record, within one so that replay refuses it (`"cut"`), or in bytes that replay leaves
out (`"ragged"`); `logMay` is the set of layers and ends that power loss may leave. `walNamed`
tells whether the log's directory entry is durable, `at` where the handle writes and `spilled`
whether a failed append has left bytes in the `BufWriter`. A record written behind a sound
end extends the layer; behind a broken one, past the end, or mixed with what was spilled, the
log may then stand for anything (`Misplaced`). `Open` fails on a torn table and on a cut log,
for good, and appends behind whatever bytes replay has left out. `pc` names the
next system call of the operation under way; each such call is an action, with a second
action in which it fails and the operation returns its error, leaving behind exactly what
the code leaves (a failed append keeps the rest of the record in the buffer; a failed
`Wal::clear` returns after the table was written and before it is listed; a failed unlink puts
the remaining tables back). `Kill` keeps the disk as it is, but for a record under way, which
may be in the file in part; `PowerLoss` picks one possible content per file, independently. A
file is a function from keys to entries here; its bytes are `SSTable`'s and `Wal`'s subject.
`failing` is the set of failures that the behaviour may meet, fixed at the start to one of
`Scenarios`; besides the calls that fail and the two deaths, `"cut"` and `"ragged"` say how
a death may break the record under way. `promised[k]` is history: the last synced value of
*k* and all attempted since. `reply` is what the last put or delete returned: `DurableMap` lets
it be `"ok"` only once the write is committed, and `"error"` at any time, before or after,
since a put also returns the error of the flush it set off.

**Engine.** The tree is its layers. Each thread has a `pc`; a read goes layer by layer
(`Get`) or key by key (`ScanNext`, over all keys, a range or a prefix), a write through
log, memtable, flush and list, so that a thread without the lock would see every
half-changed state there is. A scan guard may be iterated again (`ScanAgain`) and dropped
at any moment. `inHand` is the
table that a flush has made and not yet listed, or what `compact` has taken. Any system
call may fail, any writer may panic and poison the lock. The refinement to `AtomicMap`
sends a call to "performed" when it takes its read guard, or inserts in the memtable, and
carries the map as it was then (`seen`).

**Wal.** The file is a sequence of cells. Keys and values keep their bytes, and a length
is two digits in base `Base` instead of four bytes. The `BufWriter` is a buffer of
`Capacity` cells with the standard library's rules: what fits is copied, what does not
first empties the buffer, what is as large as the buffer passes it by. `at` is the
handle's offset, or append mode. `Replay` is the code's parser. `scenario` fixes, for a
behaviour, which records are put and which calls may fail. The refinement to `LogLayer`
maps the bytes to the layer that their whole records make up (`LayerOf`) and to how they end
(`TailOf`), and the contents that power loss may leave to the pairs they stand for.

**LogLayer, between the two.** `LsmTree` and `Wal` describe one file at two levels, and
`LogLayer` is what they have in common: a record enters the layer whole, or not at all, or is
its broken end, and behind a broken end anything may follow until the log is truncated. The
variables `wal`, `tail` and `logMay` of `LsmTree` take its steps and no others
(`LogFollowsLayer`), and so do the bytes of `Wal` (`ImplementsLogLayer`), power losses included.
Both leave out the same failures: a write call that fails halfway (`"append"` there, `"write"`
here) and a failing sync in `clear`; `LsmTree` besides the loss of the log's name, `Wal`
besides records that do not fit the `BufWriter`, which `LsmTree` has as a kill that leaves
its record cut. `LsmTree` has the left-out failures too, with whatever they may make of the log.

**DirectoryLock.** Each opener goes through open, try_lock, listing, replay, serving and
the drop of the fields in declaration order. Locks belong to the inode that a descriptor
is open on, so that unlinking `LOCK` would be a visible mistake.

**TableFlush.** The memtable of `MemTable` is filled by replay and writes; when it is full
or flushed by call its sorted entries are handed to the writer of `SSTable`, which lays
out entries, index and footer; then the memtable is cleared. The flush may fail at any
moment and leave the memtable as it was. `Get` searches the index as the standard library's
binary search does (`Search`), halving the part that can hold the key, so that it finds keys
only in an index in ascending order.

**MergeIter.** Sources yield their entries up to a damage, then an error, then nothing.
Keys are numbered in order and stand for the strings in `Words`, which ascend as byte
strings do (`Precedes`), so that prefixes mean what they do in the code. `Layers` makes of
the same sources the memtable and the listed tables of an `LsmTree` between two operations,
so that what comes out of the merge can be held against `Get` and `Merged` there, which
`LsmTree` takes for granted.

**HashRing.** `nodeHash` is chosen once, any function at all, so that collisions between
virtual nodes, of one node or two, are among the cases. `Encoding` gives the nodes names
and says which bytes are hashed. `RingHash` is the hash that the
code has: a u64 is its eight bytes, the exclusive or goes bit by bit, products carry from
byte to byte and are cut at eight. `Placement` says of the members of the ring what any hash leaves open.

**Waitlist.** A row has three marks: it exists, it was mailed, it has an error. A call of
the function is a `pc` per address and slot, so that calls for one row can overlap:
checking, sending, and the update that follows an accepted or rejected mail. `faults`,
fixed at the start, says what can go wrong in the behaviour. `Join` is the insert with
its trigger, `Deliver` what pg_net does with a queued call, once or more often,
`Redeliver` and `ClearErrors` what an operator does by hand.

## 3. The runs

| Run | Instance | Shows |
|---|---|---|
| `lsm_durable` | 2 keys, 1 value, 3 table ids; three scenarios, all of them `Survivable`: kill, in the middle of a record too, with any failing call but the writes of a record and those of `Wal::clear`; power loss with failing directory syncs and unlinks; power loss that may cut the log, with failing log syncs | `NoAckedLoss`: at every moment, whatever a restart that succeeds could then reveal of a key is its last synced write or one attempted after it. `ImplementsDurableMap`: reads never change but by the caller's own writes, and a call returns `Ok` only for a write that is committed |
| `lsm_failures` | 1 key, 1 value, 3 ids; every failure at once but those that can undo a put (`Tame`); every failure of a process; every failure that the log's bytes are exposed to, ragged ends, failing appends and a failing `Wal::clear` among them; with fairness | listed tables readable, whole, ordered by age, never rewritten, whatever has become of the log; `PutsKept`: under the first an acknowledged put outlives kills and power losses in any order; operations return, and a tree that went down serves again unless its log is cut |
| `lsm_orphan` | 1 key, kill and a failing truncation | violated: `DeletedStaysDeleted` |
| `engine_shared` | 2 threads (2 calls and 1), 2 keys, 1 value, four start trees of up to two tables; with fairness | atomic calls, scans of any selection among them, stable views, no guard after a panic, no half-flushed tree seen, every call returns |
| `wal` | small records of 2 keys, or a value larger than the buffer and one that fits though its whole record does not, with kills, failing syncs and failing truncations; small records of 1 key with power losses besides; the large value with every failure | each step on the bytes, power losses among them, is one on the layer, where records fit the buffer; without power loss the log replays there, and loses and invents nothing even where write calls split a record; the records acknowledged before the first trouble keep their bytes |
| `wal_torn`, `wal_ragged` | one failure each | violated: `ShortReadEndsLog`, `NothingLost` |
| `table_flush` | 4 keys (one empty, one the extension of another), values of every length that fits | exact sizes, limit kept, `get` and the iterator read what was written, flush loses nothing |
| `merge_scans` | 3 keys, memtable and 2 tables; with bounds, memtable and 1 table | right up to an error, ascending, and complete without one: a scan shows what `Get` of `LsmTree` finds, a compaction writes its `Merged` |
| `directory_lock` | 3 openers, 2 clones | one owner, log only under the lock, no one's table deleted |
| `hash_ring` | 3 nodes of 2 positions, every hash function into 4 hashes; 3 node names, 127 keys and 16 indexes of the bytes 0 and 1 | ownership by membership, minimal movement; unambiguous encoding, 256 positions of a node apart, published vectors |
| `waitlist` | 1 address, 2 slots, every set of 9 faults; with fairness | the row never claims a mail that did not go out; a mail that did is marked, nobody gets two, everybody one, each without the faults that exclude it |

### Bounds, and why they are enough

- `MaxId` (tables ever made): 3 is two tables and their compaction, the least in which a
  tombstone can be dropped above a value; operations that would need another id do not
  start. Reopening continues after the highest id left, so ids are used again when
  a compaction has left none, and behaviours are not bounded in length.
- Keys and values: with one key every layer can shadow every other; with two, flushes and
  compactions to nothing differ from those of one. One value and the tombstone tell an
  old state of a key from a new one; results that depend on two values of one key would
  need tables whose order is wrong, which `NewestFirst`, proved for any number, excludes.
- `Full`: the memtable fills up once each key is in it, and may be flushed by call before.
- `MaxLog`, `MaxCells` in `Wal`: three records between clears are one before, one in and
  one after a trouble; the bound on the file's length stops a log that keeps growing by
  failed puts and is far above three records.
- The scenarios of `LsmTree`: `"cut"` and `"ragged"` are taken apart where that shows
  something. With either a run may lose power again and again; a cut log ends it, since no
  restart succeeds. `Survivable` and `Tame` are the premises of the properties, in their
  formulas, and each failure they leave out breaks them (section 4).
- `Base` 4, `Capacity` 7: a record of the small values is six cells, so two do not fit
  the buffer and one does; the large value, of seven, passes the buffer by.
- `MaxCalls`: a call after a call of the same thread, against one of another thread.
  `Starts`: an empty tree, a tombstone in memory over two tables that disagree, a
  memtable over a table, and two tables that merge into nothing.
- `Wrap` 6, `MaxSize` 6: lengths up to one below the tombstone's mark; a limit that
  single entries, pairs and replays reach, miss and pass.
- `HashSpace` 4 with six positions: collisions are forced, and so are hashes past the last
  position.
- `HashedKeys`, `HashedIndexes`: strings of up to six bytes that are also the domain
  bytes, and all four-byte indexes of them, so that a missing domain or a shorter index
  makes two strings one.
- `Slots` 2, `MaxMails` 2: two calls of one row at a time; a call starts only while fewer
  than two receipts went out, and two are one too many. Addresses do not meet: one is
  enough.
- `MaxClones` 2: dropping a clone and dropping the last one.

### Fairness

Three runs state liveness. `LsmTree!Fairness` is weak fairness of the next step of a
running operation and of `Open`: a call that has begun runs on its caller's thread with
nothing to wait for, and whoever runs the database starts it again. On a cut log, where
every `Open` fails, nothing more is claimed. Nothing is assumed of
the callers, nor of failures not to happen: an operation may end by dying.

`Engine!LiveSpec` is weak fairness per thread of the step it is owed: the operating system
schedules every runnable thread, and a free lock is given to who waits for it, except that
a reader is owed nothing while a writer waits, since `RwLock` may put writers first. Who
has a scan guard drops it in the end, as the documentation asks, however often it iterates.
No bound on a writer's wait is assumed, nor strong fairness; each thread makes finitely
many calls, and with unboundedly many `std::sync::RwLock` promises nothing. The mutant
`UnderOwnGuard`, a call made under one's own scan guard, deadlocks under this fairness.

`Waitlist!LiveSpec` is weak fairness of pg_net's work on its queue and of each handler that
has begun. `ReceiptGoesOut` is claimed only of behaviours in which no call is lost or
ended and the provider takes mail.

## 4. What disagrees with the code's own words

| Run | Where | What happens |
|---|---|---|
| `lsm_orphan` | `lsm.rs:169` | `Wal::clear` fails after the new table is on disk; it stays there unlisted. Later the key is deleted, flushed and compacted with the tombstone dropped; the next open lists the orphan and the deleted key is back (a put can be undone so too, below) |
| `wal_torn` | `wal.rs:99` | a record cut in its value makes replay fail, so the database does not open, though the site's articles say that a short read ends the log. A value larger than the `BufWriter` needs no more than a kill between two write calls |
| `wal_ragged` | `wal.rs:79` | a log that ends inside a key's length replays, but the bytes stay and later acknowledged records are written behind them, where the next replay misreads them |

Known limits of the passing runs, for the same honesty. These need no new model, only
other constants. The first three are why `Survivable` and `Tame` exclude `"append"`,
`"ragged"` and `"clear_sync"`: whatever is written behind the debris they leave, acknowledged
or not, can be lost at the next replay.

- a *power loss that leaves one to three bytes of a record's first length* (`wal_ragged`,
  above) loses every record put after the restart, since `replay` accepts the bytes
  (`wal.rs:79-83`) and `Wal::open` appends behind them (`wal.rs:19-22`). With `"ragged"` in
  the log's scenario of `lsm_durable` and the premise dropped, `NoAckedLoss` is violated. A
  power loss that cuts the record further on loses no record but the database: it cannot be
  opened until somebody cuts the log by hand (`wal.rs:86-99`, `lsm.rs:94`);
- a *full disk* (`"write"` among the failures of `wal` for small records) breaks
  `NothingLost`: a record of which only a part was written stays in the log, and the old
  `BufWriter`, dropped at `wal.rs:121`, writes what it kept into the truncated log;
- a *failing sync in clear* (`"clear_sync"` alone) breaks it too: after one clear that
  succeeded the handle is not in append mode; a second whose sync fails empties the file
  but leaves the handle where the log ended, and the next record lands behind a gap of
  zeros that replays as records of the empty key (`wal.rs:114-121`);
- a *failing sync in clear* can undo an acknowledged put as well (`lsm.rs:169`): two tables
  hold an older value of a key, a put of a newer one is flushed to a third, and the
  truncated log's sync fails, so that the third stays out of the list. `compact` now merges
  the two older tables into one with a higher id. After a kill the next `open` lists
  both, and the older value hides the newer. It takes two values and four ids, and is why
  `Tame` would have to exclude `"clear_sync"` even if the log's bytes stood it;
- *kill and power loss in one scenario* of `lsm_durable` breaks `NoAckedLoss`: `open` does
  not sync the directory, so an unlink that a dead process had not synced can be undone
  by power loss after a later unlink was made durable (`lsm.rs:222`), which brings back a
  value under a dropped tombstone. Only a delete can be undone so: `PutsKept` has both
  failures. For the same reason a failing sync after an unlink is not combined with power
  loss in `lsm_durable`;
- `"unnamed_log"` with `"power"` breaks it too: nothing syncs the directory after
  `data.wal` is created (`wal.rs:19`). File systems differ in whether the sync of a new
  file makes its name durable;
- *the waitlist's function* mails twice when two calls for a row overlap, since it reads
  the mark before the mail and writes it after (`index.ts:80-117`; `index.ts:78-79` says
  "never send twice for a row that already went out"), and when the mark cannot be
  written or read; `fetch` throws when the provider is not reached, and then nothing is
  recorded (`index.ts:89`; `index.ts:104` says "Record the outcome either way"). With
  `"overlap"` or `"unanswered"` allowed, `OneReceipt` without its premise is violated.

## 5. The proofs

All of them are for every value of the constants that satisfies the named assumptions;
what these say is no more than that bounds are natural numbers and markers are no values.

**LsmTreeProofs.** `Inductive` proves `Spec => []IInv`; the other theorems follow from it:
`TypeCorrect`, `TablesReadable`, `TablesOrdered`, `TablesWhole` and the action property
`TablesImmutable`. None of these is inductive by itself. That the listed tables are
readable after `Rename` needs the new id to differ from the listed ones (`Ages`: every
listed id is below `nextId`); after `ClearSync`, that the table just written is readable
and newer than the listed ones (`NewTable`); after `Unlink`, that the tables being
removed are all older than those listed (`Ages`); after `Open`, that no file is torn,
which the guard gives, and that `FreshId` is above all of them. That no power loss tears
a table needs the temporary file to be synced before it is renamed (`Whole`, with `pc`).
`Phases` says which fields are meaningful at which system call. Assumptions:
`MaxIdAssumption`, `FileAssumption` (no marker is a layer), `ValuesAssumption`,
`ScenariosAssumption`, `FullAssumption`. There is one lemma per action that moves more
than `pc`, and in it one step per conjunct.

Durability there rests on two more inductive invariants on top of `IInv`, each under
a hypothesis on the failures, and both for any keys, values, ids and capacity. Both contain
`Tidy`, about the log: while the failures spare it (`LogKept`), every record lands behind a
whole one, power loss may leave a cut record but no ragged end, and a log that is cut is one
that nobody writes to any more. So what an open replays is a layer that `logMay` had in it.

`DurableInductive` proves `Spec => [](Survivable => DInv)`, and from it follow `Durable`
(`NoAckedLoss`), `DeletesHold` (`DeletedStaysDeleted`, under the same premise) and `Implements`
(`ImplementsDurableMap`). `Survivable` says that no append fails and `Wal::clear` does not,
that no power loss leaves a ragged end, that the log's name is durable, and that no unlink is
left unsynced where power may be lost; it covers the three scenarios of `lsm_durable`, and
each failure it excludes breaks the theorem (section 4). That power loss cuts a record in the
middle is allowed: then no restart succeeds, and nothing is revealed. `NoAckedLoss` speaks of
what a restart may reveal, so the invariant
has to bound every combination of what the disk may hold. It says that every layer the
log may come back as holds promised values only and every key of the memtable
(`LogPromised`, `LogCovers`); that a listed table can have no other content, and that
no table can be on disk that is neither listed, being replaced, nor new
(`ListedSettled`, `NothingElse`); that a value in a replaced table, of a key the merged one
dropped, has a tombstone above it that is unlinked later (`ReplacedCovered`); and that the
table of a flush holds the memtable before the log is truncated (`NewContent`).

`PutsInductive` proves `Spec => [](Tame => PInv)`, and from it `PutsStay` (`PutsKept`), for
every failure but a failing append, a failing sync of the truncated log, a ragged end and the
loss of the log's name; kills and power losses in any order are among
them. What the disk may hold cannot be bounded then, since unlinks come undone and tables
are left unlisted. The invariant instead finds for each acknowledged put an *anchor*: a
table that no failure takes away and that holds a promised value, above which nothing but
promised values can come up; or else the log has it. While looking for it `PutsKept`
turned out to be false as first stated, which no run had shown: the failing sync of the
truncated log (section 4) needs more ids and values than the runs have.

`LogFollowsLayer` joins this model to `Wal`: in a behaviour without failing appends, failing
syncs of the truncated log and the loss of its name, `wal`, `tail` and `logMay` take the steps
of `LogLayer` and no others. `ImplementsLayer` below says that the bytes of the log do too,
under the same exclusions and power losses included, where records fit the buffer.

**EngineProofs.** `GuardsInductive` proves that readers and writer are told by where the
threads are (`GuardsMatch`), exclude one another (`Exclusive`), get nothing from a
poisoned lock, and that a table in hand belongs to a writer about to list it or to a dead
one (`HandOfWriter`). `ViewsStable`, `FlushUnseen` and `PoisonHolds` follow, for any number of
threads, calls, keys and tables. `ProgressInductive` adds, in `AInv`, what a call has done so
far: the layers that a get has passed do not know its key (`GetSearched`), and the rows of a
scan are those of the map up to the key it has come to (`ScanFound`). With it, and since the
view of the layers is the same when a flush or a compaction has taken a table in hand,
`Implements` shows that every step is one of `AtomicMap` or none.
`TypesKept` is the type invariant. Assumption: `NoThread \notin Threads`.

**OrderingProofs.** A finite set under a strict total order has one ascending sequence, the
one that `Ordering` defines by the number of lesser elements; an initial part of the set
comes first in it. A set of natural numbers has a least one. This stands where
the code sorts, keeps sorted, or filters what is sorted.

**WalProofs.** `BytesInductive` proves `Spec => []WInv`, and from it `FrontStays`
(`FrontIntact`), for any records, base, buffer and failures, torn writes and power losses
among them. `FrontIntact` is not inductive, since it says nothing of what is still on its way
to the disk. `WInv` adds, for a history whose records are all acknowledged, that file and
disk are their bytes and the buffer is empty (`QuietIsExact`); while the next one is put,
that file, buffer and the calls still to make are that record's bytes behind theirs
(`InFlightFills`); and that until the first trouble the handle stands at the end of the file
or appends, so that a call only adds to it (`AtTheEnd`, with what is left in the buffer by a
call that failed). A failing put or clear ends this state for good, and from then on
`FrontSynced` alone is needed. Assumptions: `SizesAssumption`, `ScenariosAssumption`.
`FlattenSeq`, which lays the chunks of records one after the other, is a recursive function
of the community modules; what it does to one more element (`FlattenAppend`) is induction
over the length, done by hand: a set of naturals for which the claim fails has a least
element.

`NeverSilent` (`NoSilentLoss`) and `AlwaysOpens` (`AlwaysReplays`) rest on `KeptInductive`.
Its invariant, `KInv`, holds while no power has been lost and no write call failed: the file
is the bytes of an ascending choice `s` of the records of the history (`Held(log, s)`, since
a put whose sync fails leaves its record), followed, while a put is under way or after a kill
in one, by the first bytes of the latest record, never one byte alone (`Putting`, `Left`);
the disk is such a choice `t` with all that were acknowledged, and as long as there are any,
what was synced stands at the front of the file (`Synced`). `Replay` is a recursive function
over the cells. What it makes of such bytes is `ReplayLaid`: what it returns from the start of
a record is shown for the last record first, then for the one before it (`ParsedLaid`), by
the least counterexample. Every file that a crash can leave is of that form, with all
acknowledged records in it (`OutcomeReads`), and so what is read from it is in the history and
in its order (`FaithfulReading`). A cut record is one whose
length or bytes are short, so replay refuses it or, cut before the end of the key's length,
drops it. `ImplementsLayer` (`ImplementsLogLayer`) leaves the history out, since power loss
may take away what it says: where each record fits in the `BufWriter`, the handle appends
and the buffer and the calls still to make are the record under way (`LInv`). So a put adds
nothing or the whole record to the file, whatever the file is. Behind a sound end that makes
the layer with that entry written (`SoundAppends`), or, where power loss leaves only the
first bytes of it, the old layer with a broken end; behind a broken end the layer may become
anything. All for any records, base, buffer and failures.

**HashRingProofs.** `PositionsInductive`: the positions are those of the members, in order,
so that what `retain` leaves is what sorting would make. `OwnersFollowMembership`
(`OwnerByMembership`): the positions before the search's result are exactly those with a
smaller hash, so the first of the others, or the first of all, is met no later clockwise
than any other. `OwnersMoveMinimally` (`MinimalMovement`): the nearest member is unique,
and stays so when another joins or leaves. For any numbers of nodes and positions, any hash
space and any hash function. `BytesTellApart` (`EncodingUnambiguous`): the bytes of keys and of
members' positions are as many strings as there are keys and positions, for any names, keys
and indexes of any length, since the first byte tells keys from positions and the last four
are the index. Assumptions: `RingAssumption`, and for this `EncodingAssumption`, that node
ids are different strings and indexes have four bytes.

`DefaultPositionsApart` (`PositionsApart`) is about the hash itself: whatever a member's name,
its 256 default positions have 256 hashes. Their strings differ in one byte, and
`OneByteTells` shows that two strings of one length which differ in one byte never hash alike,
since each step of the hash can be undone. An exclusive or with a byte can (`XorApart`), and so
can one with the number itself shifted by 33, which leaves its upper half as it was
(`XorShiftApart`). A product can because the lowest byte of each factor is odd, modulo 256 for
the lowest byte and from there upward, the columns below and what they carry being the same
(`ColumnTells`, `ProductApart`). The hash after each byte and the carries of a product are
recursive functions. That such a function exists is shown once, as the union of those
defined so far (`RecursionExists`), and what holds of all its values by the least
counterexample (`Climb`).

**MergeIterProofs.** `MergeInductive`, and from it `OutAscends` (`Ascending`),
`RightSoFarAlways` (`RightUntilError`) and `NeverShort` (`NoShortScan`), for any number of
tables, contents, damage, bounds and prefixes. The invariant is that all sources have come
past the same key, and that each still holds what was written to it from there to the first
key that its damage takes away, with an error behind that until the error is
returned. So while none was returned, a key still to come is at the head of its source or
behind a lesser head (`NoneHidden`). That a scan may stop at the first key past its prefix
needs the keys to be in the order of byte strings (`PrefixesTogether`, from
`WordsAssumption`). `NoShortScan` joins two models: the newest version of a key among
the sources is the one at which the search of `LsmTree` through memtable and tables ends
(`SearchIs`, `GetIs`), and without a memtable its merge (`MergedIs`); `WrittenAssumption` says
that no value written is one of the markers.

**DirectoryProofs.** Who owns a directory, and what a flush puts in it. The first part is about
`DirectoryLock`: `LockInductive`, and from it `Exclusive`, `LogUnderLock`, `WorkKept`,
`LastCloneFrees` and `LockTypes`. The strengthening is that all descriptors
are on the one inode `LOCK` ever gets (`OneInode`), that whoever is past `try_lock`
holds the lock (`OwnersLock`), and that a file being written is in the directory
(`TmpListed`).

The second is about `TableFlush`. `MemInductive`, and from it `SizeKept` (`SizeExact`) and
`WritesStayBelow` (`BelowLimitAfterWrite`), for any keys, values and limit. In the model the
total is a fold over a set of keys. `Counted` says instead of some function on
the sets of present keys that it adds them up and that `size` is its value; such functions
exist and agree (`SumsExist`, `SumsAgree`, by the least counterexample), and taking one key
out takes its weight out (`SumSplits`). That a failed flush leaves the memtable full, and
that no flush is of an empty one, are part of it. `FileInductive` adds `FileInv`: what is
written stands, entry by entry, where the index says and without gaps (`EntriesLaid`),
the index stands behind all of it and the footer says where (`IndexLaid`), and the entries
are the memtable's in key order (`OfTheMemtable`). From it `TablesAnswer` (`GetsRight`),
`TablesIterate` (`IteratesRight`) and `FlushesKeep` (`FlushKeepsAll`). The two readers of
a table, of its index and of its entries, go from one place to the next up to an end. That
such a function exists, and that over items laid one behind the other it returns just those,
is shown once (`OnwardExists`, `OnwardReads`). The search is such a function too: halving keeps
the place of the key in the part that is left (`HalvingFinds`), as long as the keys
ascend, so it ends there (`SearchFinds`). `AnyTable` says the same of the writer by
itself, for any list in ascending order of keys, as a compaction hands it over too.
Assumptions: `WrapAssumption`, `KeysAssumption`, `ValuesAssumption`, `MaxSizeAssumption`;
these theorems need besides `ValuesFit`, that no value is as long as the tombstone's mark or longer. In the
code that is 4 GiB less one byte, nothing rejects such a value, and a table with one is
read wrong (section 6).

**WaitlistProofs.** `WaitlistInductive`, and from it `MarksTrue`, `MarksWritten` and
`MailedOnce`, for any number of addresses, overlapping calls and receipts and every set
of faults. `MailedIfSent` needs `AcceptedIsMailed`: only a call whose mail was taken goes on
to the update that marks the row. `OneReceipt` needs that without overlap an address has
one running call (`OneCall`), so that a call past the check finds a receipt that went out
marked (`SentIfMailed`), never about to be marked by another, and sends only the first
(`FirstOfItsKind`).

The new inductive invariants were run through TLC before they were proved: `DInv` and
`PInv` with one key, two values and four ids and with two keys, one value and three ids;
`AInv` on `engine_shared`; `MInv` on `merge_scans` with one table; `KInv`, with the choice of
records given by witnesses, on `wal`; `MemInv` and `FileInv`, with the places of the entries
given by witnesses, on `table_flush`.

Only model-checked: `PlacementPinned`, since the published hashes are values that the run gives
to the constants, which TLC computes; and the three liveness properties
(`OperationsReturn`, `CallsReturn`, `ReceiptGoesOut`) with anything else that has ENABLED
in it, which the prover does not do. The
violated properties of section 4 are shown by their runs.

## 6. What is not modelled

- *REPL, re-exports, tests, benchmark, crash writer, web site, mock client*: no state of
  the engine, or drivers of it.
- *Lengths past `u32`*: nothing in the code rejects them and nothing promises anything.
- *`size`, `len`*: they read one field.
- *Who may call the waitlist and read its table, the form of an address, the text of the
  mail*: configuration and wording.
- *`owner` of a key under the real hash*: the search is checked under every hash into a
  small space, and the hash by itself; numbers of 64 bits are beyond TLC's arithmetic.
- *Corruption of a table's bytes*: `MergeIter` has damage as an error in the stream; how
  `SSTable::open` and `get` report it is text.

## 7. The plan

The modules were written in the order of their weight: `LsmTree`, `Engine`,
`DirectoryLock`, `Wal` with `LogLayer`, `MergeIter`, `SSTable` with `MemTable`, `HashRing` with
`RingHash`, `Waitlist`; then the proofs of section 5, and last `Layers`, which joins two of
the models. What is left:

- *A compaction down to the bytes*: `NoShortScan` is about the rows that a merge yields,
  `AnyTable` about any rows that are written; one model in which the rows go from the merge
  through the writer, and a damaged table stops both, would join them.
- *What changes with the code*: the manifest and the levels that its comments announce
  (`lsm.rs:179-182`, `lsm.rs:217`) would replace the order of unlinks on which `Durable` rests.
