------------------------------ MODULE MCWaitlist ------------------------------
(* Small instances of Waitlist. *)
EXTENDS Waitlist

\* Every set of faults.
MCScenarios == SUBSET FaultNames
=============================================================================
