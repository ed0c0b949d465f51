------------------------------ MODULE MCRound -------------------------------
(* Instances of Round.                                                       *)
EXTENDS Round, TLC

Shows(stale, idle, loss, fault) ==
    [stale |-> stale, idle |-> idle, loss |-> loss, fault |-> fault]
SomeSignals ==
    {Shows(FALSE, FALSE, 1, "none"), Shows(TRUE, FALSE, 9, "none"),
     Shows(TRUE, TRUE, 0, "none"), Shows(FALSE, FALSE, 1, "oom")}
\* One run long enough to fill the window, beside a shorter one.
CONSTANTS l1, l2
SomeTimes == (l1 :> 4) @@ (l2 :> 2)
SomeAttempts == (l1 :> 2) @@ (l2 :> 1)
=============================================================================
