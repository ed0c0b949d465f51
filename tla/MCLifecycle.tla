---------------------------- MODULE MCLifecycle ----------------------------
(***************************************************************************)
(* Model-checking instances of Lifecycle.                                  *)
(***************************************************************************)
EXTENDS LifecycleInductive, TLC

\* Failures close an experiment as invalid or hand it back as a no-op.
CloseOnly == [f \in Failures |-> {"abandon", "return_to_planner"}]

\* One experiment goes all the way to the final selection, or several compete
\* for their keys before any patch and before the run is finalized.
Narrow ==
    \/ Cardinality(Proposed) <= 1
    \/ run.status # "finalizing" /\ \A x \in Proposed : node[x].commit = 0
NarrowSpec == Init /\ [][Next /\ Narrow']_vars

Symmetry == Permutations(Exps) \cup Permutations(Keys)
=============================================================================
