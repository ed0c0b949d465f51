---------------------------- MODULE MCEventStore ----------------------------
(***************************************************************************)
(* Model-checking instances of EventStore.                                 *)
(***************************************************************************)
EXTENDS EventStore, TLC

CONSTANTS opening, result

\* A two-event protocol: the result is legal only after the opening event.
OpeningFirst(prefix, k) ==
    k = result => \E i \in 1..Len(prefix) : prefix[i] = opening

StoreSymmetry == Permutations(Processes)
=============================================================================
