------------------------------ MODULE DurableMap ------------------------------
(***************************************************************************)
(* What the storage engine promises its callers: a map that survives the   *)
(* death of the process.  A write is first attempted, and from then on a   *)
(* restart may reveal it; once its log record is on disk it is committed,  *)
(* and from then on nothing older may be revealed for its key.  The call   *)
(* returns Ok only after that; an error says nothing of the write, which   *)
(* may be lost, come back at a restart, or be committed already.  Flushes, *)
(* compactions and their failures are invisible here.                      *)
(***************************************************************************)
CONSTANTS Keys,       \* the keys of the map
          Results     \* what a read can return, "None" among them

VARIABLES up,         \* a process has the directory open
          store,      \* what a read of each key returns, while up
          promised,   \* what a restart may reveal for each key
          write,      \* the write attempted and not yet committed, <<key, value>>
          reply       \* of the last write: "pending", "ok", "error" or "none"

vars == <<up, store, promised, write, reply>>

Unavailable == [k \in Keys |-> "Unavailable"]   \* nobody can read
NoWrite == <<>>

Init == /\ up = TRUE
        /\ store = [k \in Keys |-> "None"]
        /\ promised = [k \in Keys |-> {"None"}]
        /\ write = NoWrite
        /\ reply = "none"

\* The write may be revealed by a restart, but is not readable yet.
Attempt(k, v) == /\ up
                 /\ reply # "pending"
                 /\ write' = <<k, v>>
                 /\ reply' = "pending"
                 /\ promised' = [promised EXCEPT ![k] = @ \cup {v}]
                 /\ UNCHANGED <<up, store>>

\* The write is durable: it is what reads return and all a restart may reveal.
Commit(k, v) == /\ up
                /\ write = <<k, v>>
                /\ write' = NoWrite
                /\ store' = [store EXCEPT ![k] = v]
                /\ promised' = [promised EXCEPT ![k] = {v}]
                /\ reply' \in {"pending", "ok"}
                /\ up' = up

\* The call returns.
Return == /\ reply = "pending"
          /\ \/ write = NoWrite /\ reply' = "ok"
             \/ reply' = "error"
          /\ write' = NoWrite
          /\ UNCHANGED <<up, store, promised>>

Crash == /\ up
         /\ up' = FALSE
         /\ store' = Unavailable
         /\ write' = NoWrite
         /\ reply' = "none"
         /\ promised' = promised

\* Every key comes back, with one of the values promised for it.
Restart == /\ ~up
           /\ up' = TRUE
           /\ store' \in [Keys -> Results]
           /\ \A k \in Keys : store'[k] \in promised[k]
           /\ UNCHANGED <<promised, write, reply>>

Next == \/ \E k \in Keys, v \in Results : Attempt(k, v) \/ Commit(k, v)
        \/ Return
        \/ Crash
        \/ Restart

Spec == Init /\ [][Next]_vars
===============================================================================
