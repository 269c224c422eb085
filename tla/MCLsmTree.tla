------------------------------ MODULE MCLsmTree ------------------------------
(* Model-checking instances of LsmTree.                                     *)
EXTENDS LsmTree, TLC

CONSTANTS k1, k2, v1, v2

MCKeys1 == {k1}
MCKeys2 == {k1, k2}
MCValues1 == {v1}
MCValues2 == {v1, v2}

\* The memtable fills up once every key is in it.
MCFull(m) == \A k \in Keys : m[k] # "NotFound"

MCSymmetry == Permutations(Keys) \cup Permutations(Values)

\* Any call may fail but the writes to the log and those of Wal::clear, and the
\* process may be killed, in the middle of a record too.
KillFailures == {"kill", "cut", "wal_sync", "create", "sync", "rename", "dir_sync",
                 "unlink", "unlink_sync"}
\* The machine may lose power, and those calls fail that leave more than one
\* possible content behind: of a table, or of the log.
TablePowerFailures == {"power", "dir_sync", "unlink"}
LogPowerFailures == {"power", "cut", "wal_sync"}
KillOrPower == {KillFailures, TablePowerFailures, LogPowerFailures}

\* Every failure at once but those that can undo a put; with those, every failure
\* of a process; and every failure that the log's bytes are exposed to.
TameFailures == FailureNames \ {"append", "clear_sync", "ragged", "unnamed_log"}
ProcessFailures == FailureNames \ {"power", "ragged", "unnamed_log"}
LogFailures == {"append", "wal_sync", "truncate", "clear_sync",
                "power", "cut", "ragged", "unnamed_log"}
AllAtOnce == {TameFailures, ProcessFailures, LogFailures}

\* The failure that leaves a table on disk and out of the list.
FailingClear == {{"kill", "truncate"}}
=============================================================================
