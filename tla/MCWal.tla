-------------------------------- MODULE MCWal --------------------------------
(* Model-checking instances of Wal: records of six cells fit in the buffer, *)
(* a value of seven does not, and one of four does but not its whole record *)
EXTENDS Wal

MCKeys == {<<1>>, <<>>}
MCSmall == {<<2>>, <<3>>}
MCMedium == {<<1, 1, 1, 1>>}
MCLarge == {<<1, 1, 1, 1, 1, 1, 1>>}
MCValues == MCSmall \cup MCMedium \cup MCLarge

Small == {r \in Records : r.value = <<>> \/ r.value[1] \in MCSmall}
OneKey(values) == {[key |-> <<1>>, value |-> v] : v \in {<<>>} \cup {<<w>> : w \in values}}

\* The calls that fail without leaving part of a record behind.
WholeFailures == {"kill", "sync", "clear_open"}
Scenario(r, f) == [records |-> r, failures |-> f]
MCScenarios == {Scenario(Small, WholeFailures),
                Scenario(OneKey({<<2>>}), WholeFailures \cup {"power"}),
                Scenario(OneKey(MCMedium \cup MCLarge), WholeFailures),
                Scenario(OneKey(MCLarge), FailureNames)}
TornScenario == {Scenario(OneKey(MCLarge), {"kill"})}
RaggedScenario == {Scenario(OneKey(MCSmall), {"power"})}
=============================================================================
