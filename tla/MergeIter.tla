------------------------------ MODULE MergeIter -------------------------------
(***************************************************************************)
(* MergeIter (src/merge.rs): the merge of the sorted layers behind every   *)
(* scan and compaction, one turn of the loop in next() at a time.  A       *)
(* corrupt table yields its entries up to the damage, then an error, and   *)
(* then ends (SSTableIter).                                                *)
(***************************************************************************)
EXTENDS Naturals, Sequences, SequencesExt, FiniteSets, Ordering

CONSTANTS Words,     \* the strings that are keys, bounds and prefixes, ascending
          Tables,    \* number of tables below the memtable
          Ranged     \* bound: the tables a scan with bounds goes over

ASSUME WordsAssumption ==
  /\ Words \in Seq(Seq(Nat))
  /\ \A i, j \in DOMAIN Words : i < j => Precedes(Words[i], Words[j])
ASSUME TablesAssumption == Tables \in Nat
ASSUME RangedAssumption == Ranged \in 0 .. Tables

Keys == DOMAIN Words
StartsWith(k, p) == IsPrefix(Words[p], Words[k])

Sources == 1 .. Tables + 1                    \* newest first, the memtable is 1
Versions == {"put", "tombstone", "absent"}    \* a put tells its source apart
Err == [error |-> TRUE]
Item(s, k, version) == [key |-> k, source |-> s, version |-> version]
IsErr(item) == "error" \in DOMAIN item

NoBound == 0
Unbounded == [kind |-> "none", key |-> NoBound]

VARIABLES whole,     \* whole[s]: what was written to source s, damaged or not
          heads,     \* heads[s]: the items it has still to yield
          start, end,
          out,       \* what next() has returned so far
          ended      \* it has returned None
vars == <<whole, heads, start, end, out, ended>>

\* The items of a source with its first `intact` entries readable.
Entries(s, content) ==
  LET keys == Ordered({k \in Keys : content[k] # "absent"})
  IN  [i \in DOMAIN keys |-> Item(s, keys[i], content[keys[i]])]
Readable(s, content) ==
  LET all == Entries(s, content)
  IN  {all} \cup (IF s = 1 THEN {}
                  ELSE {Append(SubSeq(all, 1, intact), Err) : intact \in 0 .. Len(all) - 1})

New == start = NoBound /\ end = Unbounded
WithRange == /\ start \in Keys \cup {NoBound}
             /\ end \in [kind : {"excl"}, key : Keys] \cup {Unbounded}
WithPrefix == /\ start \in Keys
              /\ end = [kind |-> "prefix", key |-> start]

Init == /\ whole \in [Sources -> [Keys -> Versions]]
        /\ heads \in {h \in [Sources -> UNION {Readable(s, whole[s]) : s \in Sources}] :
                        \A s \in Sources : h[s] \in Readable(s, whole[s])}
        /\ \/ New
           \/ /\ \A s \in Sources : s > Ranged + 1 => whole[s] = [k \in Keys |-> "absent"]
              /\ WithRange \/ WithPrefix
        /\ out = <<>>
        /\ ended = FALSE

-----------------------------------------------------------------------------
(* one turn of next() *)

AtErr(s) == heads[s] # <<>> /\ IsErr(Head(heads[s]))
AtKey(s, k) == heads[s] # <<>> /\ ~AtErr(s) /\ Head(heads[s]).key = k
HeadKeys == {k \in Keys : \E s \in Sources : AtKey(s, k)}
Smallest == CHOOSE k \in HeadKeys : \A j \in HeadKeys : k <= j

LooksOver(k) == ~StartsWith(k, end.key)                     \* mutant of PastPrefix
PastPrefix(k) == k >= end.key /\ ~StartsWith(k, end.key)

BeyondEnd(k) == CASE end.kind = "none" -> FALSE
                  [] end.kind = "excl" -> k >= end.key
                  [] end.kind = "prefix" -> PastPrefix(k)

ErrsSkipped == {}                                           \* mutant of Pending
Pending == {s \in Sources : AtErr(s)}

\* take_pending_error: the first source at an error yields it.
TakePendingError ==
  /\ ~ended /\ Pending # {}
  /\ LET s == CHOOSE s \in Pending : \A r \in Pending : s <= r
     IN  heads' = [heads EXCEPT ![s] = Tail(@)]
  /\ out' = Append(out, Err)
  /\ UNCHANGED <<whole, start, end, ended>>

OldestOf(S) == CHOOSE s \in S : \A r \in S : s >= r         \* mutant of WinnerOf
WinnerOf(S) == CHOOSE s \in S : \A r \in S : s <= r

WinnerOnly(S) == {WinnerOf(S)}                              \* mutant of Consumers
Consumers(S) == S

\* The smallest key is consumed from every source that holds it and the newest
\* of them yielded, unless it is below the start.
ConsumeSmallest ==
  /\ ~ended /\ Pending = {} /\ HeadKeys # {}
  /\ ~BeyondEnd(Smallest)
  /\ LET holders == {s \in Sources : AtKey(s, Smallest)}
     IN  /\ heads' = [s \in Sources |->
                        IF s \in Consumers(holders) THEN Tail(heads[s]) ELSE heads[s]]
         /\ out' = IF Smallest < start THEN out ELSE Append(out, Head(heads[WinnerOf(holders)]))
  /\ UNCHANGED <<whole, start, end, ended>>

End ==
  /\ ~ended /\ Pending = {}
  /\ IF HeadKeys = {} THEN TRUE ELSE BeyondEnd(Smallest)
  /\ ended' = TRUE
  /\ UNCHANGED <<whole, heads, start, end, out>>

\* live(): what a scan shows of the merge; errors pass.
Live(items) ==
  LET shown == Ordered({i \in DOMAIN items : IsErr(items[i]) \/ items[i].version = "put"})
  IN  [j \in DOMAIN shown |-> items[shown[j]]]

Next == TakePendingError \/ ConsumeSmallest \/ End
Spec == Init /\ [][Next]_vars

-----------------------------------------------------------------------------
(* properties *)

\* What an undamaged merge of the range is: for each key its newest version.
InRange(k) == /\ k >= start
              /\ CASE end.kind = "none" -> TRUE
                   [] end.kind = "excl" -> k < end.key
                   [] end.kind = "prefix" -> StartsWith(k, end.key)
Holders(k) == {s \in Sources : whole[s][k] # "absent"}
Newest(k) == LET s == CHOOSE s \in Holders(k) : \A r \in Holders(k) : s <= r
             IN  Item(s, k, whole[s][k])
Reference ==
  LET keys == Ordered({k \in Keys : InRange(k) /\ Holders(k) # {}})
  IN  [i \in DOMAIN keys |-> Newest(keys[i])]

Failed == \E i \in DOMAIN out : IsErr(out[i])

\* Up to the first error nothing is missing, stale or out of order, though a
\* table may be damaged further on (merge.rs:26, "the newest version of that key").
RightUntilError == ~Failed => IsPrefix(out, Reference)

\* Each key comes once and in ascending order, even from a caller who goes on
\* after an error (merge.rs:25; write_sorted relies on it).
Ascending == \A i, j \in DOMAIN out :
               i < j /\ ~IsErr(out[i]) /\ ~IsErr(out[j]) => out[i].key < out[j].key
=============================================================================
