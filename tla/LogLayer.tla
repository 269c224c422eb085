------------------------------- MODULE LogLayer --------------------------------
(***************************************************************************)
(* What the write-ahead log promises the tree above it: at every moment it *)
(* stands for one layer, the one that its whole records make up, and for   *)
(* the layers it may stand for after power loss.  A record enters the      *)
(* layer whole or not at all, but death can leave the log with a broken    *)
(* end: "cut", which replay refuses, or "ragged", which it does not see.   *)
(* Behind a broken end nothing is promised until the log is truncated.     *)
(* LsmTree takes the log to be this, with `may` as large as it can be.     *)
(***************************************************************************)
CONSTANTS Keys,
          Entries,   \* what a record can say of its key
          NotFound   \* the entry of a key without a record

VARIABLES wal,   \* the layer of the log's whole records
          tail,  \* how the log ends
          may    \* the layers and ends it may have after power loss

vars == <<wal, tail, may>>

Broken == {"cut", "ragged"}
Ends == {"clean"} \cup Broken

Blank == [k \in Keys |-> NotFound]

Init == wal = Blank /\ tail = "clean" /\ may = {<<Blank, "clean">>}

Write(k, e) == /\ tail = "clean" /\ tail' = "clean"
               /\ wal' = [wal EXCEPT ![k] = e]
               /\ may' \subseteq may \cup {<<wal', "clean">>} \cup ({wal} \X Broken)

\* The writer dies within a record.
Part == /\ tail = "clean" /\ tail' \in Broken
        /\ wal' = wal
        /\ may' \subseteq may \cup ({wal} \X Broken)

Behind == tail \in Broken /\ tail' \in Ends

Sync == wal' = wal /\ tail' = tail /\ may' = {<<wal, tail>>}

\* A clear that fails may have emptied the log or not, and may be seen or not.
Truncate == /\ wal' = Blank /\ tail' = "clean"
            /\ may' \subseteq may \cup {<<Blank, "clean">>}

PowerLoss == <<wal', tail'>> \in may /\ may' = {<<wal', tail'>>}

Next == \/ \E k \in Keys, e \in Entries : Write(k, e)
        \/ Part \/ Behind
        \/ Sync \/ Truncate \/ PowerLoss
Spec == Init /\ [][Next]_vars
=============================================================================
