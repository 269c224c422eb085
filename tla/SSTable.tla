------------------------------- MODULE SSTable --------------------------------
(***************************************************************************)
(* The file of a table (src/sstable.rs): write_sorted lays out entries,    *)
(* index and footer, and open, get and iter_entries find their way by the  *)
(* offsets.  A cell of the file is a byte of a key or value, a length (4   *)
(* bytes in the code) or an offset (8 bytes): lengths wrap at Wrap, 2^32   *)
(* in the code.                                                            *)
(***************************************************************************)
EXTENDS Naturals, Sequences, SequencesExt, Ordering

CONSTANTS Keys,      \* sequences of bytes, in ascending order
          Values,    \* sequences of bytes
          Wrap,      \* the number of lengths there are
          NoValue,   \* the value of a tombstone, "None"
          Absent     \* no entry

ASSUME WrapAssumption == Wrap \in Nat \ {0}
ASSUME KeysAssumption ==
  /\ Keys \in Seq(Seq(Nat)) /\ \A k \in ToSet(Keys) : Len(k) < Wrap
  /\ \A i, j \in DOMAIN Keys : i < j => Precedes(Keys[i], Keys[j])
ASSUME ValuesAssumption == /\ Values \subseteq Seq(Nat) /\ {NoValue, Absent} \cap Values = {}
                           /\ NoValue # Absent

VARIABLES entries,   \* what is to be written: sorted <<key, value or NoValue>>
          written,   \* entries written so far
          file,      \* the cells written so far
          index,     \* <<key, offset>> of the entries written so far
          offset,    \* of the next entry
          stage      \* "none", "entries", "footer" or "done"
writer == <<entries, written, file, index, offset, stage>>

TOMBSTONE == Wrap - 1

NewFile(s) == /\ stage' = s
              /\ written' = 0 /\ file' = <<>> /\ index' = <<>> /\ offset' = 0

NoFile == /\ entries = <<>> /\ stage = "none"
          /\ written = 0 /\ file = <<>> /\ index = <<>> /\ offset = 0

-----------------------------------------------------------------------------
(* write_sorted *)

Create(sorted) == stage = "none" /\ entries' = sorted /\ NewFile("entries")

Length(s) == Len(s) % Wrap
KeyCells(key) == <<Length(key)>> \o key
ValueCells(value) == IF value = NoValue THEN <<TOMBSTONE>> ELSE <<Length(value)>> \o value

SizeInFull(value) == 1 + (IF value = NoValue THEN 1 ELSE Len(value))  \* mutant of ValueSize
ValueSize(value) == 1 + (IF value = NoValue THEN 0 ELSE Len(value))

WriteEntry ==
  /\ stage = "entries" /\ written < Len(entries)
  /\ LET key == entries[written + 1][1]
         value == entries[written + 1][2]
     IN  /\ index' = Append(index, <<key, offset>>)
         /\ file' = file \o KeyCells(key) \o ValueCells(value)
         /\ offset' = offset + 1 + Len(key) + ValueSize(value)
  /\ written' = written + 1
  /\ UNCHANGED <<entries, stage>>

WriteIndex ==
  /\ stage = "entries" /\ written = Len(entries)
  /\ file' = file \o FlattenSeq([n \in DOMAIN index |-> Append(KeyCells(index[n][1]),
                                                               index[n][2])])
  /\ stage' = "footer"
  /\ UNCHANGED <<entries, written, index, offset>>

WriteFooter ==
  /\ stage = "footer"
  /\ file' = Append(file, offset)
  /\ stage' = "done"
  /\ UNCHANGED <<entries, written, index, offset>>

Write == WriteEntry \/ WriteIndex \/ WriteFooter

\* The writer is done with the file, or gives it up.
Close == entries' = <<>> /\ NewFile("none")

-----------------------------------------------------------------------------
(* reading; at p means after the first p cells *)

\* read_exact, which here never meets the end of a finished file.
Cell(p) == IF p + 1 \in DOMAIN file THEN file[p + 1] ELSE 0
Cells(p, n) == [i \in 1 .. n |-> Cell(p + i - 1)]

Footer == Cell(Len(file) - 1)

\* open: index entries from the footer's offset up to the footer.
OpenedIndex ==
  LET from[p \in Nat] ==
        IF p >= Len(file) - 1 THEN <<>>
        ELSE <<<<Cells(p + 1, Cell(p)), Cell(p + 1 + Cell(p))>>>>
               \o from[p + 2 + Cell(p)]
  IN  from[Footer]

\* The lookup of the value whose length is at p.
ZeroIsTombstone(p) == IF Cell(p) = 0 THEN NoValue ELSE Cells(p + 1, Cell(p)) \* mutant of ValueAt
ValueAt(p) == IF Cell(p) = TOMBSTONE THEN NoValue ELSE Cells(p + 1, Cell(p))

\* The comparison with which the index is searched, and a mutant of it.
Swapped(entry, key) == Precedes(entry[1], key)
Beyond(entry, key) == Precedes(key, entry[1])

\* binary_search_by: the part of the index that can hold the key, its first place
\* and its length, is halved until one entry is left.
Halved(idx, key, part) ==
  LET half == part[2] \div 2
      middle == part[1] + half
  IN  <<IF Beyond(idx[middle], key) THEN part[1] ELSE middle, part[2] - half>>
Search(idx, key) ==
  LET left[part \in Nat \X (0 .. Len(idx))] ==
        IF part[2] <= 1 THEN part[1] ELSE left[Halved(idx, key, part)]
  IN  left[<<1, Len(idx)>>]

\* get: the index gives the offset, the key there is not read again.
SeekTo(at, key) == at + 1 + Len(key)
Get(idx, key) ==
  LET n == Search(idx, key)
  IN  IF n \in DOMAIN idx /\ idx[n][1] = key THEN ValueAt(SeekTo(idx[n][2], key))
                                             ELSE Absent

\* iter_entries: entries one after the other while bytes are left before the index.
UpToTheEnd(indexOffset) == Len(file)                       \* mutant of Until
Until(indexOffset) == indexOffset
Iterated ==
  LET from[p \in Nat] ==
        IF p >= Until(offset) THEN <<>>
        ELSE LET valueAt == p + 1 + Cell(p)
                 value == ValueAt(valueAt)
             IN  <<<<Cells(p + 1, Cell(p)), value>>>>
                   \o from[valueAt + 1 + (IF value = NoValue THEN 0 ELSE Len(value))]
  IN  from[0]

-----------------------------------------------------------------------------
(* properties *)

\* Every key is found as it was written, tombstones as such and empty values as
\* values, through the writer's index and through the one read back.
Found(key) == LET hits == {n \in DOMAIN entries : entries[n][1] = key}
              IN  IF hits = {} THEN Absent ELSE entries[CHOOSE n \in hits : TRUE][2]
GetsRight == stage = "done" =>
  \A key \in ToSet(Keys) : Get(index, key) = Found(key) /\ Get(OpenedIndex, key) = Found(key)

\* The iterator yields the entries in order and stops before the index, whose
\* bytes would read as more entries.
IteratesRight == stage = "done" => Iterated = entries
=============================================================================
