------------------------------ MODULE AtomicMap ------------------------------
(***************************************************************************)
(* What Engine promises threads that share it: each call takes effect at   *)
(* one moment between its invocation and its return, a scan reads the map  *)
(* as it is at one such moment, and once a writer has died no call takes   *)
(* effect any more.                                                        *)
(***************************************************************************)
EXTENDS Naturals, Functions

CONSTANTS Threads, Keys, Requests,
          None,      \* the value of a key that is not there
          Done,      \* the answer of a call that returns no value
          Error,     \* the answer of a call that failed
          Nothing    \* no answer, no map

VARIABLES map,       \* the value of each key
          broken,    \* a writer died
          stage,     \* "idle", "asked", "performed" or "dead", for each thread
          request,   \* its latest call
          seen,      \* the map its call has read or left
          answer     \* what its latest call returned

vars == <<map, broken, stage, request, seen, answer>>

Effect(r) == CASE r.op = "put" -> [map EXCEPT ![r.key] = r.value]
               [] r.op = "delete" -> [map EXCEPT ![r.key] = None]
               [] OTHER -> map

Answers(r, m) ==
  CASE r.op = "get" -> {Restrict(m, {r.key})}
    [] r.op = "scan" -> {Restrict(m, {k \in r.selection : k < n}) : n \in Keys}
                          \cup {Restrict(m, r.selection)}
    [] r.op = "count" -> Nat    \* of tables, which the map knows nothing of
    [] OTHER -> {Done}

Init == /\ map \in [Keys -> {r.value : r \in {q \in Requests : q.op = "put"}} \cup {None}]
        /\ broken = FALSE
        /\ stage = [t \in Threads |-> "idle"]
        /\ request \in [Threads -> Requests]
        /\ seen = [t \in Threads |-> Nothing]
        /\ answer = [t \in Threads |-> Nothing]

Invoke(t) == /\ stage[t] = "idle"
             /\ stage' = [stage EXCEPT ![t] = "asked"]
             /\ request' \in {[request EXCEPT ![t] = r] : r \in Requests}
             /\ answer' = [answer EXCEPT ![t] = Nothing]
             /\ UNCHANGED <<map, broken, seen>>

Perform(t) == /\ stage[t] = "asked" /\ ~broken
              /\ stage' = [stage EXCEPT ![t] = "performed"]
              /\ map' = Effect(request[t])
              /\ seen' = [seen EXCEPT ![t] = map']
              /\ UNCHANGED <<broken, request, answer>>

Refuse(t) == /\ stage[t] = "asked"
             /\ stage' = [stage EXCEPT ![t] = "idle"]
             /\ answer' = [answer EXCEPT ![t] = Error]
             /\ UNCHANGED <<map, broken, request, seen>>

Return(t) == /\ stage[t] = "performed"
             /\ stage' = [stage EXCEPT ![t] = "idle"]
             /\ seen' = [seen EXCEPT ![t] = Nothing]
             /\ answer'[t] = Error \/ answer'[t] \in Answers(request[t], seen[t])
             /\ answer' = [answer EXCEPT ![t] = answer'[t]]
             /\ UNCHANGED <<map, broken, request>>

Die(t) == /\ stage[t] \in {"asked", "performed"}
          /\ request[t].op \notin {"get", "scan", "count"}
          /\ stage' = [stage EXCEPT ![t] = "dead"]
          /\ seen' = [seen EXCEPT ![t] = Nothing]
          /\ broken' = TRUE
          /\ UNCHANGED <<map, request, answer>>

Next == \E t \in Threads : \/ Invoke(t) \/ Perform(t) \/ Refuse(t)
                           \/ Return(t) \/ Die(t)
Spec == Init /\ [][Next]_vars
=============================================================================
