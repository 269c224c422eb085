------------------------------ MODULE MCEngine -------------------------------
(* Small instances of Engine. *)
EXTENDS Engine

CONSTANTS t1, t2, v1

\* An empty tree, a tombstone in memory over two tables that disagree, a memtable
\* over a single table, and tables that a compaction merges into nothing.
L(one, two) == <<one, two>>
MCStarts ==
  LET No == "NotFound"
      Gone == "Deleted"
      Start(m, tables) == [memtable |-> m, sstables |-> tables]
  IN  {Start(L(No, No), <<>>),
       Start(L(Gone, No), <<L(v1, Gone), L(No, v1)>>),
       Start(L(v1, No), <<L(No, v1)>>),
       Start(L(No, No), <<L(Gone, No), L(v1, No)>>)}

\* One thread makes two calls against one call of the other.
MCCalls == [t \in Threads |-> IF t = t1 THEN 2 ELSE 1]
=============================================================================
