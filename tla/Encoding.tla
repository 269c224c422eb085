------------------------------ MODULE Encoding --------------------------------
(***************************************************************************)
(* What HashRing hashes: the bytes of a key, or of a node with the index   *)
(* of a position (src/hash_ring/hash.rs).                                  *)
(***************************************************************************)
EXTENDS HashRing

CONSTANTS NodeName,       \* the bytes of each node id, which are in byte order
          HashedKeys,     \* keys that may be looked up
          HashedIndexes   \* virtual indexes, as the four bytes of a u32

Byte == 0 .. 255

ASSUME EncodingAssumption ==
  /\ NodeName \in [NodeIds -> Seq(Byte)]
  /\ \A m, n \in NodeIds : NodeName[m] = NodeName[n] => m = n
  /\ HashedKeys \subseteq Seq(Byte) /\ IsFiniteSet(HashedKeys)
  /\ HashedIndexes \subseteq [1 .. 4 -> Byte] /\ IsFiniteSet(HashedIndexes)

KeyDomain == 0
NodeDomain == 1

WithoutZeros(index) == SelectSeq(index, LAMBDA b : b # 0)    \* mutant of ToLeBytes
ToLeBytes(index) == index

KeyBytes(key) == <<KeyDomain>> \o key
NodeBytes(node_id, index) == <<NodeDomain>> \o node_id \o ToLeBytes(index)

BytesOfNode == [n \in NodeIds |-> {NodeBytes(NodeName[n], i) : i \in HashedIndexes}]
BytesOfKeys == {KeyBytes(key) : key \in HashedKeys}

\* No key and no position of a member are hashed from the same bytes as another
\* key or position, so that only the hash itself can make them collide
\* (hash.rs:30-31, "The fixed-width trailing index makes this encoding
\* unambiguous").
EncodingUnambiguous ==
  Cardinality(BytesOfKeys \cup UNION {BytesOfNode[n] : n \in nodes}) =
    Cardinality(HashedKeys) + Cardinality(nodes) * Cardinality(HashedIndexes)
=============================================================================
