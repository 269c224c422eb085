---------------------------- MODULE MCTableFlush -----------------------------
(* Small instances of TableFlush. *)
EXTENDS TableFlush

\* The empty key, a key and its extension, and a longer key.
MCKeys == <<<<>>, <<0>>, <<0, 1>>, <<1, 1, 0>>>>
\* Values up to the longest length below the tombstone's.
MCValues == {<<>>, <<0>>, <<1>>, <<2, 1>>, <<0, 0, 0, 0>>}
=============================================================================
