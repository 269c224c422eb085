------------------------------- MODULE MemTable -------------------------------
(***************************************************************************)
(* The size that MemTable (src/memtable.rs) keeps of its entries, and the  *)
(* flushes it decides for LsmTree: kept by adding and taking off, never    *)
(* by counting, through overwrites, tombstones, failing flushes and the    *)
(* replay of a log.  TableFlush puts it to work.                           *)
(***************************************************************************)
EXTENDS Integers, FiniteSets, FiniteSetsExt

CONSTANTS Keys, Values,
          KeyLen, ValueLen,    \* the lengths of each, 0 among them
          MaxSize,             \* max_size: 4 MiB in the code
          None, Absent

VARIABLES entries,   \* a value, None for a tombstone, or Absent
          size,      \* size_bytes
          call       \* what LsmTree is doing with it: "replay", "idle",
                     \* "inserted" or "flushing"
vars == <<entries, size, call>>

Init == /\ entries = [k \in Keys |-> Absent]
        /\ size = 0
        /\ call = "replay"

EntrySize(k, v) == KeyLen[k] + (IF v = None THEN 0 ELSE ValueLen[v])

NothingOff(k) == 0                                        \* mutant of Removed
Removed(k) == IF entries[k] = Absent THEN 0 ELSE EntrySize(k, entries[k])

Get(k) == entries[k]    \* found, deleted or not in this layer

Insert(k, v) == /\ entries' = [entries EXCEPT ![k] = v]
                /\ size' = size + EntrySize(k, v) - Removed(k)

\* Replaying the log inserts without asking whether the memtable is full.
Replay(k, v) == call = "replay" /\ Insert(k, v) /\ call' = call
Opened == call = "replay" /\ call' = "idle" /\ UNCHANGED <<entries, size>>

Write(k, v) == call = "idle" /\ Insert(k, v) /\ call' = "inserted"

OverMax == size > MaxSize                                 \* mutant of IsFull
IsFull == size >= MaxSize
IsEmpty == \A k \in Keys : entries[k] = Absent

Cleared == [k \in Keys |-> Absent]

\* flush_if_full after a write, or flush by call, which leaves an empty memtable
\* alone.
StaysBelow == /\ call = "inserted" /\ ~IsFull
              /\ call' = "idle" /\ UNCHANGED <<entries, size>>
Flushes == /\ call = "idle" \/ (call = "inserted" /\ IsFull)
           /\ ~IsEmpty
           /\ call' = "flushing" /\ UNCHANGED <<entries, size>>

FlushReturns == /\ call = "flushing"
                /\ entries' = Cleared /\ size' = 0
                /\ call' = "idle"
FlushFails == /\ call = "flushing"
              /\ call' = "idle" /\ UNCHANGED <<entries, size>>

-----------------------------------------------------------------------------
(* properties *)

\* The running total is that of the entries there are: it neither drifts upward
\* nor, a usize, below zero (memtable.rs:43).
SizeExact ==
  size = MapThenSumSet(LAMBDA k : EntrySize(k, entries[k]),
                       {k \in Keys : entries[k] # Absent})

\* Once a write has returned Ok the memtable is below its limit, also when the
\* log replayed, or a failed flush left, more than the limit (lsm.rs:242).
CallReturns == call \in {"inserted", "flushing"} /\ call' = "idle" /\ ~FlushFails
BelowLimitAfterWrite == [][CallReturns /\ MaxSize > 0 => size' < MaxSize]_vars
=============================================================================
