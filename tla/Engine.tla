------------------------------- MODULE Engine --------------------------------
(***************************************************************************)
(* Threads sharing one Engine (src/engine.rs): the tree behind a           *)
(* read-write lock, cut at every step at which a thread without the lock   *)
(* could see the tree half changed.  The tree is its layers in memory;     *)
(* its files and their failures are LsmTree's subject, here a call that    *)
(* meets one returns an error.                                             *)
(***************************************************************************)
EXTENDS Naturals, Sequences, SequencesExt, FiniteSets

CONSTANTS Threads,
          MaxKey,     \* bound on the keys, which are 1 .. MaxKey in key order
          Values,
          MaxCalls,   \* MaxCalls[t]: bound on the calls of t
          Starts,     \* trees to start from, as records
          None, Done, Error, Nothing, NoThread

ASSUME MaxKeyAssumption == MaxKey \in Nat
ASSUME CallsAssumption == MaxCalls \in [Threads -> Nat]
ASSUME ThreadsAssumption == NoThread \notin Threads
ASSUME EntriesAssumption == {"Deleted", "NotFound"} \cap (Values \cup {None}) = {}
ASSUME AnswersAssumption == Cardinality({None, Done, Error, Nothing}) = 4

Keys == 1 .. MaxKey
Entries == Values \cup {"Deleted", "NotFound"}
Layer == [Keys -> Entries]
Blank == [k \in Keys |-> "NotFound"]

ASSUME StartsAssumption ==
  Starts \subseteq [memtable : Layer, sstables : Seq(Layer)]

\* The keys that a selection lets through: all, those in a range, or those with a
\* prefix, in each case neighbours in key order.
Selections == {{k \in Keys : a <= k /\ k < b} : a, b \in 1 .. MaxKey + 1}

Reads == [op : {"get"}, key : Keys] \cup [op : {"scan"}, selection : Selections]
           \cup [op : {"count"}]
Requests == Reads \cup [op : {"put"}, key : Keys, value : Values]
              \cup [op : {"delete"}, key : Keys] \cup [op : {"flush", "compact"}]

VARIABLES readers,    \* the threads with a read guard
          writer,     \* the thread with the write guard, or NoThread
          poisoned,
          memtable,
          sstables,   \* the layers of the open tables, newest first
          inHand,     \* tables that a flush or compaction has yet to list
          pc,
          request,    \* each thread's latest call
          at,         \* the layer (get) or key (scan) it reads next
          rows,       \* what its read has found, by key
          answer,     \* what it returned
          calls       \* the calls it has made
tree == <<memtable, sstables, inHand>>
lock == <<readers, writer, poisoned>>
local == <<request, at, rows, answer, calls>>
vars == <<lock, tree, pc, local>>

-----------------------------------------------------------------------------
(* the tree *)

ToOption(e) == IF e = "Deleted" \/ e = "NotFound" THEN None ELSE e

\* The entry of the first layer that knows k.
Newest(layers, k) ==
  LET hits == {n \in 1 .. Len(layers) : layers[n][k] # "NotFound"}
  IN  IF hits = {} THEN "NotFound"
      ELSE layers[CHOOSE n \in hits : \A m \in hits : n <= m][k]

Merged == [k \in Keys |-> LET e == Newest(sstables, k)
                          IN  IF e = "Deleted" THEN "NotFound" ELSE e]

\* The compacted table is left out when it would be empty.
Compacted == IF Merged = Blank THEN <<>> ELSE <<Merged>>

Layers == <<memtable>> \o sstables

\* What a tree that nobody is changing reads as.
View == [k \in Keys |-> ToOption(Newest(<<memtable>> \o inHand \o sstables, k))]

-----------------------------------------------------------------------------
(* calls and the lock *)

Init == /\ readers = {} /\ writer = NoThread /\ poisoned = FALSE
        /\ \E s \in Starts : memtable = s.memtable /\ sstables = s.sstables
        /\ inHand = <<>>
        /\ pc = [t \in Threads |-> "idle"]
        /\ request = [t \in Threads |-> [op |-> "count"]]
        /\ at = [t \in Threads |-> 1]
        /\ rows = [t \in Threads |-> <<>>]
        /\ answer = [t \in Threads |-> Nothing]
        /\ calls = [t \in Threads |-> 0]

UnderOwnGuard(t) == pc[t] \in {"idle", "scan"}        \* mutant of MayCall
MayCall(t) == pc[t] = "idle"

Call(t, r) ==
  /\ MayCall(t) /\ calls[t] < MaxCalls[t]
  /\ pc' = [pc EXCEPT ![t] = "waiting"]
  /\ request' = [request EXCEPT ![t] = r]
  /\ at' = [at EXCEPT ![t] = 1]
  /\ rows' = [rows EXCEPT ![t] = <<>>]
  /\ answer' = [answer EXCEPT ![t] = Nothing]
  /\ calls' = [calls EXCEPT ![t] = @ + 1]
  /\ UNCHANGED <<lock, tree>>

IsRead(t) == request[t].op \in {"get", "scan", "count"}

\* The call of t ends with answer a, and drops the guard it may hold.
Leave(t, a) ==
  /\ pc' = [pc EXCEPT ![t] = "idle"]
  /\ answer' = [answer EXCEPT ![t] = a]
  /\ readers' = readers \ {t}
  /\ writer' = IF writer = t THEN NoThread ELSE writer
  /\ poisoned' = poisoned
  /\ UNCHANGED <<request, at, rows, calls>>

NeverMind == FALSE                                   \* mutant of Refused
Refused == poisoned
Unguarded == TRUE                                    \* mutant of MayRead
MayRead == writer = NoThread
NoWriter == writer = NoThread                        \* mutant of MayWrite
MayWrite == writer = NoThread /\ readers = {}

Poisoned(t) ==
  /\ pc[t] = "waiting"
  /\ IF IsRead(t) THEN MayRead ELSE MayWrite
  /\ Refused
  /\ Leave(t, Error)
  /\ UNCHANGED tree

Read(t) ==
  /\ pc[t] = "waiting" /\ IsRead(t)
  /\ MayRead /\ ~Refused
  /\ readers' = readers \cup {t}
  /\ pc' = [pc EXCEPT ![t] = request[t].op]
  /\ UNCHANGED <<writer, poisoned, tree, local>>

Write(t) ==
  /\ pc[t] = "waiting" /\ ~IsRead(t)
  /\ MayWrite /\ ~Refused
  /\ writer' = t
  /\ pc' = [pc EXCEPT ![t] = IF request[t].op \in {"put", "delete"} THEN "log"
                             ELSE request[t].op]
  /\ UNCHANGED <<readers, poisoned, tree, local>>

-----------------------------------------------------------------------------
(* reading *)

\* One step of LsmTree::get: the next layer knows the key, or the search goes on.
Get(t) ==
  LET k == request[t].key
      e == Layers[at[t]][k]
      Found(v) == Leave(t, [x \in {k} |-> v]) /\ UNCHANGED tree
  IN  /\ pc[t] = "get"
      /\ \/ at[t] <= Len(Layers) /\ e # "NotFound" /\ Found(ToOption(e))
         \/ at[t] > Len(Layers) /\ Found(None)
         \/ /\ at[t] <= Len(Layers) /\ e = "NotFound"
            /\ at' = [at EXCEPT ![t] = @ + 1]
            /\ UNCHANGED <<lock, tree, pc, request, rows, answer, calls>>

\* The iterator under the scan guard goes on to the next key, which it yields if
\* it is selected.
ScanNext(t) ==
  /\ pc[t] = "scan" /\ at[t] \in Keys
  /\ rows' = [rows EXCEPT ![t] =
       [k \in {x \in request[t].selection : x <= at[t]} |->
          IF k < at[t] THEN rows[t][k] ELSE ToOption(Newest(Layers, k))]]
  /\ at' = [at EXCEPT ![t] = @ + 1]
  /\ UNCHANGED <<lock, tree, pc, request, answer, calls>>

\* iter() once more under the same guard.
ScanAgain(t) ==
  /\ pc[t] = "scan" /\ at[t] # 1
  /\ rows' = [rows EXCEPT ![t] = <<>>]
  /\ at' = [at EXCEPT ![t] = 1]
  /\ UNCHANGED <<lock, tree, pc, request, answer, calls>>

\* The guard may be dropped before the iterator is exhausted.
ScanDrop(t) ==
  /\ pc[t] = "scan"
  /\ Leave(t, rows[t])
  /\ UNCHANGED tree

Count(t) ==
  /\ pc[t] = "count"
  /\ Leave(t, Len(sstables))
  /\ UNCHANGED tree

-----------------------------------------------------------------------------
(* writing *)

\* The log is written and synced.
Log(t) ==
  /\ pc[t] = "log"
  /\ pc' = [pc EXCEPT ![t] = "memtable"]
  /\ UNCHANGED <<lock, tree, local>>

Insert(t) ==
  /\ pc[t] = "memtable"
  /\ memtable' = [memtable EXCEPT ![request[t].key] =
                    IF request[t].op = "put" THEN request[t].value ELSE "Deleted"]
  /\ pc' = [pc EXCEPT ![t] = "inserted"]
  /\ UNCHANGED <<lock, sstables, inHand, local>>

FlushCalledAgain == "waiting"                        \* mutant of FlushWithin
FlushWithin == "flush"

\* If the memtable is now full (which its sizes decide, here either may be), it
\* is flushed under the same guard.
FlushIfFull(t) ==
  /\ pc[t] = "inserted"
  /\ UNCHANGED tree
  /\ \/ pc' = [pc EXCEPT ![t] = FlushWithin] /\ UNCHANGED <<lock, local>>
     \/ Leave(t, Done)

\* The table is written and the log cleared, then the memtable is cleared ...
FlushClear(t) ==
  /\ pc[t] = "flush" /\ memtable # Blank
  /\ inHand' = <<memtable>>
  /\ memtable' = Blank
  /\ pc' = [pc EXCEPT ![t] = "list"]
  /\ UNCHANGED <<lock, sstables, local>>

FlushNothing(t) ==
  /\ pc[t] = "flush" /\ memtable = Blank
  /\ Leave(t, Done)
  /\ UNCHANGED tree

\* The merge is written and the old tables are taken out of the list.  After a
\* failing unlink the newest of them are put back.
CompactTake(t) ==
  /\ pc[t] = "compact" /\ Len(sstables) >= 2
  /\ \E kept \in 0 .. Len(sstables) : inHand' = Compacted \o SubSeq(sstables, 1, kept)
  /\ sstables' = <<>>
  /\ pc' = [pc EXCEPT ![t] = "list"]
  /\ UNCHANGED <<lock, memtable, local>>

CompactNothing(t) ==
  /\ pc[t] = "compact" /\ Len(sstables) < 2
  /\ Leave(t, Done)
  /\ UNCHANGED tree

\* ... and then what was made goes to the front of the list.
List(t) ==
  /\ pc[t] = "list"
  /\ sstables' = inHand \o sstables
  /\ inHand' = <<>>
  /\ memtable' = memtable
  /\ Leave(t, Done) \/ (request[t].op = "compact" /\ Leave(t, Error))

\* A failing system call ends the call before the tree in memory changes.
Fails(t) ==
  /\ pc[t] \in {"get", "scan", "log", "flush", "compact"}
  /\ Leave(t, Error)
  /\ UNCHANGED tree

\* A panic drops the write guard, which poisons the lock, and ends the thread.
Panic(t) ==
  /\ writer = t
  /\ writer' = NoThread
  /\ poisoned' = TRUE
  /\ pc' = [pc EXCEPT ![t] = "dead"]
  /\ UNCHANGED <<readers, tree, local>>

Step(t) == \/ Poisoned(t) \/ Read(t) \/ Write(t)
           \/ Get(t) \/ ScanNext(t) \/ ScanDrop(t) \/ Count(t)
           \/ Log(t) \/ Insert(t) \/ FlushIfFull(t) \/ FlushClear(t)
           \/ FlushNothing(t) \/ CompactTake(t) \/ CompactNothing(t) \/ List(t) \/ Fails(t)

Next == \E t \in Threads : \/ \E r \in Requests : Call(t, r)
                           \/ Step(t)
                           \/ ScanAgain(t)
                           \/ Panic(t)
Spec == Init /\ [][Next]_vars

\* A thread that is in a call runs on, except that the lock may keep it waiting to
\* read for as long as another waits to write; who has a scan guard drops it in
\* the end, however often it iterates.
WriterQueued == \E t \in Threads : pc[t] = "waiting" /\ ~IsRead(t)
OwedStep(t) == Step(t) /\ (pc[t] = "waiting" /\ IsRead(t) => ~WriterQueued)
LiveSpec == Spec /\ \A t \in Threads : WF_vars(OwedStep(t)) /\ WF_vars(ScanDrop(t))

-----------------------------------------------------------------------------
(* properties *)

Reading == {"get", "scan", "count"}
Writing == {"log", "memtable", "inserted", "flush", "compact", "list"}

Rows == UNION {[S -> Values \cup {None}] : S \in SUBSET Keys}

TypeOK ==
  /\ readers \subseteq Threads
  /\ writer \in Threads \cup {NoThread}
  /\ poisoned \in BOOLEAN
  /\ memtable \in Layer
  /\ sstables \in Seq(Layer) /\ inHand \in Seq(Layer)
  /\ pc \in [Threads -> {"idle", "waiting", "dead"} \cup Reading \cup Writing]
  /\ request \in [Threads -> Requests]
  /\ at \in [Threads -> Nat \ {0}]
  /\ calls \in [Threads -> Nat]
  /\ rows \in [Threads -> Rows]
  /\ \A t \in Threads : calls[t] <= MaxCalls[t]

\* Under a read guard the tree does not change, so that a get that goes from
\* layer to layer and a scan that streams for as long as its guard lives read
\* one state of it (engine.rs:15, "A consistent read view").
ViewStable ==
  [][\A t \in Threads : t \in readers /\ t \in readers' => UNCHANGED tree]_vars

\* Once a writer has panicked no thread gets a guard, so that none reads or
\* extends a tree left half changed (engine.rs:64, 76).
NoGuardAfterPanic == poisoned => readers = {} /\ writer = NoThread

\* A table that was made but is not yet listed is seen by nobody but its maker:
\* between memtable.clear and sstables.insert (lsm.rs:170-172) reads would miss
\* acknowledged writes.
NeverHalfFlushed == inHand # <<>> => readers = {}

\* Each call takes effect at one moment (AtomicMap).
Stage == [idle |-> "idle", waiting |-> "asked", log |-> "asked",
          memtable |-> "asked", dead |-> "dead"]
StageOf(t) == IF pc[t] \in DOMAIN Stage THEN Stage[pc[t]] ELSE "performed"

Abstract == INSTANCE AtomicMap WITH
  map <- View,
  broken <- poisoned,
  stage <- [t \in Threads |-> StageOf(t)],
  seen <- [t \in Threads |-> IF StageOf(t) = "performed" THEN View ELSE Nothing]

\* Engine's calls are atomic for the threads that make them, whatever the order
\* in which they get the lock, and however many layers and steps they take.
ImplementsAtomicMap == Abstract!Spec

\* Every call returns, or its thread has died, when the threads make finitely
\* many calls and none while they hold a guard of their own (engine.rs:17-20).
CallsReturn == \A t \in Threads : pc[t] = "waiting" ~> pc[t] \in {"idle", "dead"}
=============================================================================
