-------------------------------- MODULE Layers --------------------------------
(***************************************************************************)
(* The sources of MergeIter as the layers of LsmTree: a scan merges the    *)
(* memtable and the tables, newest first (scan_merge), a compaction the    *)
(* tables alone.  What they yield is held against what LsmTree says of the *)
(* same layers.                                                            *)
(***************************************************************************)
EXTENDS MergeIter

CONSTANTS Written,   \* Written[s][k]: what a put of k in source s has written
          NoTable    \* no content of a table

Values == {Written[s][k] : s \in Sources, k \in Keys}

ASSUME WrittenAssumption ==
  /\ Values \cap {"Deleted", "NotFound", "None"} = {}
  /\ NoTable \notin [Keys -> Values \cup {"Deleted", "NotFound"}]

Lookup(s, k) == CASE whole[s][k] = "put" -> Written[s][k]
                  [] whole[s][k] = "tombstone" -> "Deleted"
                  [] whole[s][k] = "absent" -> "NotFound"
Layer(s) == [k \in Keys |-> Lookup(s, k)]

\* The tables have ascending ids, so that source 2 is the one with the highest.
OldestFirst == [n \in 1 .. Tables |-> n - 1]                \* mutant of Listed
Listed == [n \in 1 .. Tables |-> Tables - n]
NeverFull(m) == FALSE

\* LsmTree between two operations, with these layers.
Tree == INSTANCE LsmTree WITH
  MaxId <- Tables, Full <- NeverFull, Scenarios <- {{}},
  NoFile <- NoTable, Torn <- NoTable,
  table <- [i \in 0 .. Tables - 1 |-> Layer(Tables + 1 - i)],
  tableMay <- <<>>, tmp <- "none",
  wal <- Layer(1), tail <- "clean", logMay <- {<<Layer(1), "clean">>}, walNamed <- TRUE,
  at <- "append", spilled <- FALSE,
  pc <- "idle", op <- "none", record <- <<>>,
  memtable <- Layer(1), sstables <- Listed, old <- <<>>, nextId <- Tables,
  reply <- "none", promised <- <<>>, failing <- {}

-----------------------------------------------------------------------------
(* properties *)

Rows(items) == {<<item.key, Written[item.source][item.key]>> : item \in ToSet(items)}

\* A scan that ends without an error is complete: it shows every key of its range
\* that get finds, with the value that get finds, and no other, so no damage
\* passes for the end of the data, no tombstone for a value and no older version
\* for the newest (merge.rs:85, "a silently short scan").  A compaction
\* writes what LsmTree takes the merge of its tables to be (lsm.rs:190-204).
NoShortScan == ended /\ ~Failed =>
  /\ out = Reference
  /\ Rows(Live(out)) = {<<k, Tree!Get(k)>> :
                          k \in {j \in Keys : InRange(j) /\ Tree!Get(j) # "None"}}
  /\ New /\ Layer(1) = Tree!Blank =>
       Rows(Live(out)) = {<<k, Tree!Merged[k]>> :
                            k \in {j \in Keys : Tree!Merged[j] # "NotFound"}}
=============================================================================
