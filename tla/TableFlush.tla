------------------------------ MODULE TableFlush ------------------------------
(***************************************************************************)
(* MemTable and SSTable put together by LsmTree::flush: a memtable that    *)
(* is full, or flushed by call, is written out as a table, and cleared     *)
(* once the table is.  A flush that fails leaves it as it was.             *)
(***************************************************************************)
EXTENDS SSTable

CONSTANTS MaxSize    \* max_size of the memtable: 4 MiB in the code

ASSUME MaxSizeAssumption == MaxSize \in Nat

VARIABLES memtable, size, call
source == <<memtable, size, call>>

M == INSTANCE MemTable WITH
       Keys <- ToSet(Keys),
       KeyLen <- [k \in ToSet(Keys) |-> Len(k)],
       ValueLen <- [v \in Values |-> Len(v)],
       None <- NoValue,
       entries <- memtable

Start == NoFile /\ M!Init

\* MemTable::iter: the entries in key order, tombstones among them.
NoTombstones(k) == memtable[k] \notin {Absent, NoValue}   \* mutant of Listed
Listed(k) == memtable[k] # Absent
Sorted == LET places == Ordered({i \in DOMAIN Keys : Listed(Keys[i])})
          IN  [n \in DOMAIN places |-> <<Keys[places[n]], memtable[Keys[places[n]]]>>]

Use == /\ \/ \E k \in ToSet(Keys), v \in Values \cup {NoValue} :
               M!Replay(k, v) \/ M!Write(k, v)
          \/ M!Opened \/ M!StaysBelow
       /\ UNCHANGED writer

FlushStarts == M!Flushes /\ Create(Sorted)
WriteTable == Write /\ UNCHANGED source
FlushReturns == stage = "done" /\ M!FlushReturns /\ Close

\* write_sorted, or Wal::clear after it, returns an error.
FlushFails == M!FlushFails /\ Close

FlushNext == Use \/ FlushStarts \/ WriteTable \/ FlushReturns \/ FlushFails
FlushSpec == Start /\ [][FlushNext]_<<writer, source>>

-----------------------------------------------------------------------------
(* properties *)

\* The running total is that of the entries there are: it neither drifts upward
\* nor, a usize, below zero (memtable.rs:43).
SizeExact == M!SizeExact

\* Once a write has returned Ok the memtable is below its limit, also when the
\* log replayed, or a failed flush left, more than the limit (lsm.rs:242).
BelowLimitAfterWrite == M!BelowLimitAfterWrite

\* When the memtable is cleared, the table on disk, opened by anyone, answers for
\* every key as the memtable did: found, deleted or not there (lsm.rs:167-170).
FlushKeepsAll ==
  [][M!FlushReturns => \A k \in ToSet(Keys) : Get(OpenedIndex, k) = M!Get(k)]_<<writer, source>>
=============================================================================
