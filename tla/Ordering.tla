------------------------------- MODULE Ordering -------------------------------
(* The order of strings, and the elements of a set in ascending order.         *)
EXTENDS Naturals, Sequences, FiniteSets

\* The order of byte strings: that of the first byte in which they differ.
Precedes(a, b) == \E n \in 0 .. Len(a) : /\ n < Len(b)
                                         /\ \A i \in 1 .. n : a[i] = b[i]
                                         /\ n = Len(a) \/ a[n + 1] < b[n + 1]

\* Each element comes after as many as are less than it.
InOrder(S, Less(_, _)) ==
  LET below == [x \in S |-> {y \in S : Less(y, x)}]
  IN  [i \in 1 .. Cardinality(S) |-> CHOOSE x \in S : Cardinality(below[x]) = i - 1]

Ordered(K) == InOrder(K, <)
===============================================================================
