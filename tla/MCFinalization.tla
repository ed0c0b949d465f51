-------------------------- MODULE MCFinalization --------------------------
(***************************************************************************)
(* Model-checking instances of Finalization.                               *)
(***************************************************************************)
EXTENDS Finalization

\* A stopped run records no recovery decision.
NoAnswers == [f \in Failures |-> {}]
=============================================================================
