---------------------------- MODULE DirectoryLock ----------------------------
(***************************************************************************)
(* Ownership of a data directory (LsmTree::open, the drop of an LsmTree    *)
(* and the clones of an Engine): several processes, or one of them more    *)
(* than once, open the same directory.  The advisory lock belongs to the   *)
(* inode under LOCK, so both the inode and each opener's descriptor are    *)
(* kept.                                                                   *)
(***************************************************************************)
EXTENDS Naturals, Sequences, FiniteSets

CONSTANTS Openers,      \* what calls Engine::open, once at a time each
          Inodes,       \* inodes a LOCK file may get
          NoInode,      \* no file, or no descriptor
          MaxClones     \* bound on the clones of an Engine

ASSUME InodesAssumption == NoInode \notin Inodes
ASSUME ClonesAssumption == MaxClones \in Nat \ {0}

VARIABLES lockFile,   \* the inode under the name LOCK
          fd,         \* fd[h]: the inode h's directory_lock has open
          locked,     \* locked[h]: h's try_lock on it succeeded
          pc,         \* pc[h]: how far the open, the use or the drop of h is
          wal,        \* wal[h]: h has data.wal open for writing
          clones,     \* clones[h]: clones of h's Engine
          flushing,   \* flushing[h]: h is writing a table under a .tmp name
          tmp         \* the openers whose .tmp file is in the directory
vars == <<lockFile, fd, locked, pc, wal, clones, flushing, tmp>>

Init == /\ lockFile = NoInode
        /\ fd = [h \in Openers |-> NoInode]
        /\ locked = [h \in Openers |-> FALSE]
        /\ pc = [h \in Openers |-> "closed"]
        /\ wal = [h \in Openers |-> FALSE]
        /\ clones = [h \in Openers |-> 0]
        /\ flushing = [h \in Openers |-> FALSE]
        /\ tmp = {}

-----------------------------------------------------------------------------
(* LsmTree::open *)

InUse == {fd[h] : h \in Openers} \cup {lockFile}

\* Opening LOCK creates the file if there is none.
OpenLockFile(h) ==
  /\ pc[h] = "closed"
  /\ \E i \in Inodes : /\ IF lockFile = NoInode THEN i \notin InUse ELSE i = lockFile
                       /\ lockFile' = i
                       /\ fd' = [fd EXCEPT ![h] = i]
  /\ pc' = [pc EXCEPT ![h] = "trying"]
  /\ UNCHANGED <<locked, wal, clones, flushing, tmp>>

LockedByOther(h) == \E g \in Openers : g # h /\ locked[g] /\ fd[g] = fd[h]

TryLock(h) ==
  /\ pc[h] = "trying"
  /\ ~LockedByOther(h)
  /\ locked' = [locked EXCEPT ![h] = TRUE]
  /\ pc' = [pc EXCEPT ![h] = "listing"]
  /\ UNCHANGED <<lockFile, fd, wal, clones, flushing, tmp>>

\* Closing the descriptor gives the lock up.
Released(h) == /\ fd' = [fd EXCEPT ![h] = NoInode]
               /\ locked' = [locked EXCEPT ![h] = FALSE]

UnlinkLockFile == lockFile' = NoInode                \* mutant of KeepLockFile
\* The LOCK file stays when its lock is released.
KeepLockFile == UNCHANGED lockFile

WouldBlock(h) ==
  /\ pc[h] = "trying"
  /\ LockedByOther(h)
  /\ Released(h)
  /\ pc' = [pc EXCEPT ![h] = "closed"]
  /\ UNCHANGED <<lockFile, wal, clones, flushing, tmp>>

ListsEarly == {"trying", "listing"}                      \* mutant of Lists
Lists == {"listing"}

\* Leftover .tmp files are deleted and the tables opened.
ListDirectory(h) ==
  /\ pc[h] \in Lists
  /\ tmp' = {}
  /\ pc' = [pc EXCEPT ![h] = IF @ = "listing" THEN "replaying" ELSE @]
  /\ UNCHANGED <<lockFile, fd, locked, wal, clones, flushing>>

\* The log is replayed, then opened for writing; the Engine is returned.
OpenLog(h) ==
  /\ pc[h] = "replaying"
  /\ wal' = [wal EXCEPT ![h] = TRUE]
  /\ clones' = [clones EXCEPT ![h] = 1]
  /\ pc' = [pc EXCEPT ![h] = "serving"]
  /\ UNCHANGED <<lockFile, fd, locked, flushing, tmp>>

\* A failing call makes open return, which drops the lock; the listing may
\* have deleted some files by then.
OpenFails(h) ==
  /\ pc[h] \in {"trying", "listing", "replaying"}
  /\ tmp' \in IF pc[h] = "listing" THEN SUBSET tmp ELSE {tmp}
  /\ Released(h)
  /\ pc' = [pc EXCEPT ![h] = "closed"]
  /\ KeepLockFile
  /\ UNCHANGED <<wal, clones, flushing>>

-----------------------------------------------------------------------------
(* use and drop *)

StartFlush(h) ==
  /\ pc[h] = "serving" /\ ~flushing[h]
  /\ flushing' = [flushing EXCEPT ![h] = TRUE]
  /\ tmp' = tmp \cup {h}
  /\ UNCHANGED <<lockFile, fd, locked, pc, wal, clones>>

\* The finished file is renamed to its table name; after a failure it stays.
FinishFlush(h) ==
  /\ pc[h] = "serving" /\ flushing[h]
  /\ flushing' = [flushing EXCEPT ![h] = FALSE]
  /\ tmp' \in {tmp, tmp \ {h}}
  /\ UNCHANGED <<lockFile, fd, locked, pc, wal, clones>>

Clone(h) ==
  /\ pc[h] = "serving" /\ clones[h] < MaxClones
  /\ clones' = [clones EXCEPT ![h] = @ + 1]
  /\ UNCHANGED <<lockFile, fd, locked, pc, wal, flushing, tmp>>

\* The fields with a file open for writing, in the order of their declaration.
LockFirst == <<"drop_lock", "drop_wal">>                 \* mutant of DropOrder
DropOrder == <<"drop_wal", "drop_lock">>

NoneLeft(h) == clones[h] = 0                             \* mutant of LastClone
LastClone(h) == clones[h] = 1

\* The last clone to be dropped drops the tree.
DropClone(h) ==
  /\ pc[h] = "serving" /\ ~flushing[h]
  /\ clones' = [clones EXCEPT ![h] = @ - 1]
  /\ pc' = [pc EXCEPT ![h] = IF LastClone(h) THEN DropOrder[1] ELSE @]
  /\ UNCHANGED <<lockFile, fd, locked, wal, flushing, tmp>>

DropWal(h) == wal' = [wal EXCEPT ![h] = FALSE] /\ UNCHANGED <<lockFile, fd, locked>>
DropLock(h) == Released(h) /\ KeepLockFile /\ UNCHANGED wal

DropField(h) ==
  \E n \in 1..2 :
    /\ pc[h] = DropOrder[n]
    /\ pc' = [pc EXCEPT ![h] = IF n = 1 THEN DropOrder[2] ELSE "closed"]
    /\ IF pc[h] = "drop_wal" THEN DropWal(h) ELSE DropLock(h)
    /\ UNCHANGED <<clones, flushing, tmp>>

\* The process dies: the system closes its files, a .tmp file stays.
Kill(h) ==
  /\ pc[h] # "closed"
  /\ Released(h)
  /\ KeepLockFile
  /\ pc' = [pc EXCEPT ![h] = "closed"]
  /\ wal' = [wal EXCEPT ![h] = FALSE]
  /\ clones' = [clones EXCEPT ![h] = 0]
  /\ flushing' = [flushing EXCEPT ![h] = FALSE]
  /\ UNCHANGED tmp

Next == \E h \in Openers :
          \/ OpenLockFile(h) \/ TryLock(h) \/ WouldBlock(h) \/ ListDirectory(h)
          \/ OpenLog(h) \/ OpenFails(h) \/ StartFlush(h) \/ FinishFlush(h)
          \/ Clone(h) \/ DropClone(h) \/ DropField(h) \/ Kill(h)
Spec == Init /\ [][Next]_vars

-----------------------------------------------------------------------------
(* properties *)

Owning == {"listing", "replaying", "serving", "drop_wal", "drop_lock"}

TypeOK == /\ lockFile \in Inodes \cup {NoInode}
          /\ fd \in [Openers -> Inodes \cup {NoInode}]
          /\ locked \in [Openers -> BOOLEAN]
          /\ pc \in [Openers -> Owning \cup {"closed", "trying"}]
          /\ wal \in [Openers -> BOOLEAN]
          /\ clones \in [Openers -> 0..MaxClones]
          /\ flushing \in [Openers -> BOOLEAN]
          /\ tmp \subseteq Openers

\* Of all who open the directory, through any closing, failure and death, at
\* most one is reading its recovery state, serving it or dropping it
\* (lsm.rs:48, "Acquire ownership before reading recovery state").
OneOwner == \A g, h \in Openers : pc[g] \in Owning /\ pc[h] \in Owning => g = h

\* Only the holder of the lock has the log open for writing, up to the last
\* moment of its drop (lsm.rs:38, "until after the WAL ... dropped").
LogGuarded == \A h \in Openers : wal[h] => locked[h]

\* The tree lives exactly as long as a clone does (engine.rs:52, "The directory
\* becomes available again when the last clone is dropped").
ServedWhileCloned == \A h \in Openers : pc[h] = "serving" <=> clones[h] > 0

\* No one takes the table that another is just writing for the leftover of a
\* dead process and deletes it (lsm.rs:64-70).
TmpKept == \A h \in Openers : flushing[h] => h \in tmp
=============================================================================
