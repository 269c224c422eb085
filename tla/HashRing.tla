------------------------------- MODULE HashRing -------------------------------
(***************************************************************************)
(* HashRing (src/hash_ring.rs): which node owns a key.  Node ids are       *)
(* numbered in their byte order; the hash of a virtual node is any         *)
(* function, so that collisions occur.                                     *)
(***************************************************************************)
EXTENDS Naturals, Sequences, SequencesExt, FiniteSets, FiniteSetsExt, Ordering

CONSTANTS MaxNode,        \* bound on the node ids, which are 1 .. MaxNode
          VirtualNodes,   \* positions of each node
          HashSpace,      \* bound on the hashes: 2^64 in the code
          NoOwner

ASSUME RingAssumption == /\ MaxNode \in Nat
                         /\ VirtualNodes \in Nat \ {0}
                         /\ HashSpace \in Nat \ {0}

NodeIds == 1 .. MaxNode
Virtual == 0 .. VirtualNodes - 1
Hashes == 0 .. HashSpace - 1

VARIABLES nodeHash,    \* node_hash, the same for the life of the ring
          nodes,
          positions    \* of all nodes, as records, in the order searched
vars == <<nodeHash, nodes, positions>>

Init == /\ nodeHash \in [NodeIds \X Virtual -> Hashes]
        /\ nodes = {}
        /\ positions = <<>>

\* The derived order of Position: its fields in turn.
Before(p, q) ==
  \/ p.hash < q.hash
  \/ p.hash = q.hash /\ p.node_id < q.node_id
  \/ p.hash = q.hash /\ p.node_id = q.node_id /\ p.virtual_index < q.virtual_index

PositionsOf(n) == [i \in 1 .. VirtualNodes |->
  [hash |-> nodeHash[<<n, i - 1>>], node_id |-> n, virtual_index |-> i - 1]]

\* No position occurs twice, so that to sort them is to put their set in order.
Sorted(S) == InOrder(S, Before)

AddNode(n) ==
  /\ n \notin nodes
  /\ nodes' = nodes \cup {n}
  /\ positions' = Sorted(ToSet(positions \o PositionsOf(n)))
  /\ UNCHANGED nodeHash

\* retain keeps those of other nodes, in the order in which they are.
Retained(n) ==
  LET others == Ordered({i \in DOMAIN positions : positions[i].node_id # n})
  IN  [j \in DOMAIN others |-> positions[others[j]]]

RemoveNode(n) ==
  /\ n \in nodes
  /\ nodes' = nodes \ {n}
  /\ positions' = Retained(n)
  /\ UNCHANGED nodeHash

Next == \E n \in NodeIds : AddNode(n) \/ RemoveNode(n)
Spec == Init /\ [][Next]_vars

\* How many positions are before the one that partition_point finds.
ModuloCount(h) == h % Len(positions)                     \* mutant of Partition
AfterHash(h) ==                                          \* mutant of Partition
  Cardinality({i \in DOMAIN positions : positions[i].hash <= h})
Partition(h) == Cardinality({i \in DOMAIN positions : positions[i].hash < h})

OwnerAt(h) ==
  IF positions = <<>> THEN NoOwner
  ELSE positions[IF Partition(h) < Len(positions) THEN Partition(h) + 1 ELSE 1].node_id

-----------------------------------------------------------------------------
(* properties *)

\* Equal membership gives equal ownership of every hash, collisions included, whatever
\* additions and removals led to it (hash_ring.rs:15, "independently of insertion
\* order"): the first position clockwise, of equally near ones that of the first
\* node.
Reach(h, x) == IF x >= h THEN x - h ELSE HashSpace + x - h
Clockwise(h, n) == Min({Reach(h, nodeHash[<<n, i>>]) : i \in Virtual})

OwnerByMembership ==
  \A h \in Hashes :
    OwnerAt(h) = IF nodes = {} THEN NoOwner
                 ELSE LET near == Min({Clockwise(h, n) : n \in nodes})
                      IN  Min({n \in nodes : Clockwise(h, n) = near})

\* A key moves only to a node that joins, or from one that leaves: all other keys
\* keep their owners, though positions are sorted and searched anew.
MinimalMovement ==
  [][\A h \in Hashes : \/ OwnerAt(h)' = OwnerAt(h)
                       \/ nodes' \ nodes = {OwnerAt(h)'}
                       \/ nodes \ nodes' = {OwnerAt(h)}]_vars
=============================================================================
