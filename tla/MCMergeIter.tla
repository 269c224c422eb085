----------------------------- MODULE MCMergeIter ------------------------------
(* Small instances of MergeIter over the layers of LsmTree. *)
EXTENDS Layers

\* "a", "ab" and "b": a key below a prefix, with it and past it.
MCWords == <<<<1>>, <<1, 2>>, <<2>>>>

\* The value of a put tells its source.
MCWritten == [s \in Sources |-> [k \in Keys |-> <<"latest", "newer", "older">>[s]]]
=============================================================================
