------------------------------- MODULE Round -------------------------------
(***************************************************************************)
(* A parallel round as its resources see it: the directions are planned    *)
(* and charged, each lane's candidate is coded and charged, and the lanes  *)
(* that have a candidate run under the one observer.  A round whose        *)
(* planning fails runs nothing.  The lanes begin to run together here;     *)
(* charges and health share no state, so nothing depends on that.          *)
(***************************************************************************)
EXTENDS Charges, Health

\* Every lane runs the candidate of the direction it was given.
ASSUME RoundAssumption == Lanes = Directions

VARIABLES runnable,  \* the lanes whose session ended in a candidate
          running    \* whether the round has come to its runs

roundVars == <<plan, usage, last, bill, session, window, watched, lane, runnable, running>>

RoundInit == ChargesInit /\ HealthInit /\ runnable = {} /\ running = FALSE

Coded == {l \in Lanes : session[l].at = "coded"}

\* The charges are on the ledger; what a later round inherits of the counters
\* is among the initial states of Charges, so the run forgets them here.
RunsBegin ==
    /\ ~running /\ \A l \in Lanes : session[l].at \in {"coded", "failed"}
    /\ running' = TRUE /\ runnable' = Coded
    /\ session' = [l \in Lanes |-> Session("ended")]
    /\ usage' = [c \in Directions \cup {Router} |-> NoUsage] /\ last' = 0
    /\ UNCHANGED <<plan, bill, window, watched, lane>>

RoundNext ==
    \/ ChargesNext /\ UNCHANGED <<window, watched, lane, runnable, running>>
    \/ RunsBegin
    \/ /\ \E l \in runnable : LaneStep(l)
       /\ UNCHANGED <<plan, usage, last, bill, session, runnable, running>>
RoundSpec == RoundInit /\ [][RoundNext]_roundVars
=============================================================================
