------------------------------ MODULE MCHashRing ------------------------------
(* Small instances of HashRing under its hash.                               *)
EXTENDS Placement

NodeA == <<110, 111, 100, 101, 45, 97>>
MCNodeName == << <<>>, <<1>>, NodeA>>

\* Strings of the bytes that are also the domains, long enough to be taken for a
\* node with its index, and indexes of one to four bytes.
MCHashedKeys == UNION {[1 .. m -> {0, 1}] : m \in 0 .. 6}
MCHashedIndexes == [1 .. 4 -> {0, 1}]

\* The vectors of hash.rs:48-53.
MCKnownKeys ==
  {<< <<>>, <<251, 245, 86, 112, 211, 74, 3, 185>> >>,
   << <<117, 115, 101, 114, 58, 49, 50, 51>>, <<254, 6, 187, 206, 112, 144, 194, 254>> >>,
   << <<230, 157, 177, 228, 186, 172>>, <<64, 41, 145, 108, 98, 175, 17, 231>> >>}
MCKnownNodes ==
  {<<NodeA, <<0, 0, 0, 0>>, <<126, 251, 44, 159, 29, 113, 5, 245>> >>,
   <<NodeA, <<255, 0, 0, 0>>, <<146, 10, 77, 33, 147, 190, 211, 206>> >>,
   << <<>>, <<0, 0, 0, 0>>, <<192, 250, 87, 41, 76, 42, 219, 235>> >>}
=============================================================================
