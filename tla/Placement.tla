------------------------------- MODULE Placement -------------------------------
(***************************************************************************)
(* The ring of HashRing with the hash of RingHash over the bytes of        *)
(* Encoding: what HashRing, which takes any hash, leaves open about the    *)
(* positions of its nodes.                                                 *)
(***************************************************************************)
EXTENDS Encoding, RingHash

CONSTANTS KnownKeys,      \* published hashes of keys, as pairs, and of positions,
          KnownNodes      \* as triples

DefaultVirtualNodes == 256

KeyHash(key) == StableHash(KeyBytes(key))
NodeHash(node_id, index) == StableHash(NodeBytes(node_id, index))

\* How many positions each node has by default.
PositionsOfNode ==
  [n \in NodeIds |-> Cardinality({NodeHash(NodeName[n], <<b, 0, 0, 0>>) :
                                    b \in 0 .. DefaultVirtualNodes - 1})]

\* The positions that a member has by default never fall together: the hash is
\* one-to-one on strings that differ in one byte, since every step of it can be
\* undone (hash_ring.rs:12, hash.rs:8-10).
PositionsApart == \A n \in nodes : PositionsOfNode[n] = DefaultVirtualNodes

\* Members and keys hash to what placement v1 was published with, computed apart
\* from the code (hash.rs:46-53): other constants, another order of the steps or
\* another encoding would move keys between the nodes of a running cluster.
WrongNodes == {v \in KnownNodes : NodeHash(v[1], v[2]) # v[3]}
WrongKeys == {v \in KnownKeys : KeyHash(v[1]) # v[2]}
PlacementPinned == /\ \A n \in nodes, v \in WrongNodes : v[1] # NodeName[n]
                   /\ nodes # {} => WrongKeys = {}
=============================================================================
