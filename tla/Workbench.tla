----------------------------- MODULE Workbench -----------------------------
(***************************************************************************)
(* One experiment on its worktree: the coding worker and the runner take   *)
(* turns under the lease, as the controller routes their answers           *)
(* (router.py), while other processes may want the same worktree.          *)
(***************************************************************************)
EXTENDS Coder, Runner

vars == <<wvars, cvars, rvars>>

Init == WorktreeInit /\ CoderInit /\ RunnerInit

-----------------------------------------------------------------------------
(***************************************************************************)
(* The controller.                                                         *)
(***************************************************************************)
Now(answer) == story' = [story EXCEPT !.answer = answer]

\* Gate A reads the worktree without the lease.
CheckPatch ==
    /\ code.pc = "idle" /\ story.answer = "sealed"
    /\ \/ Attaches(story.latest) /\ Now("accepted")
       \/ Now("rejected")
    /\ UNCHANGED <<wvars, code, box, kept, rvars>>

Execute ==
    /\ code.pc = "idle" /\ story.answer = "accepted"
    /\ StartRun(story.latest)
    /\ Now("running")
    /\ UNCHANGED <<code, box, kept>>

\* The same commit is run again, at most twice for all its transient failures.
\* (An exhausted disk, or no progress before a timeout, is not answered so.)
Again ==
    /\ story.retries < 2
    /\ story' = [story EXCEPT !.answer = "accepted", !.retries = @ + 1]

\* The gates, the evaluation and the policy on the result of a run.
RouteResult ==
    /\ exec.pc = "idle" /\ story.answer = "running"
    /\ \/ runs.last = "success" /\ \E a \in {"accepted", "rejected", "done"} : Now(a)
       \/ runs.last \in {"contract_error", "code_error"} /\ Now("rejected")
       \/ runs.last \in {"infrastructure_error", "timeout"} /\ Again
       \/ runs.last \in {"infrastructure_error", "timeout", "oom"} /\ Now("fatal")
    /\ runs' = [runs EXCEPT !.last = "none"]
    /\ UNCHANGED <<wvars, code, box, kept, exec, pod>>

Next ==
    \/ StartCall /\ UNCHANGED rvars
    \/ (CoderStep \/ Edit) /\ UNCHANGED rvars
    \/ CheckPatch \/ Execute \/ RouteResult
    \/ (RunnerStep \/ ContainerStep \/ WallTimePasses) /\ UNCHANGED cvars
    \/ OtherProcess /\ UNCHANGED <<cvars, rvars>>

\* Both run in threads of the controller, whose steps and whose clock go on; what
\* Trae, the candidate and other processes do is up to them.
Spec ==
    /\ Init /\ [][Next]_vars
    /\ WF_vars(CoderStep /\ UNCHANGED rvars)
    /\ WF_vars(RunnerStep /\ UNCHANGED cvars)
    /\ WF_vars(WallTimePasses /\ UNCHANGED cvars)

-----------------------------------------------------------------------------
(***************************************************************************)
(* Properties.                                                             *)
(***************************************************************************)

Holds(me) == lock = [thread |-> me, file |-> me]

\* What the coding worker returns is one commit on the base of the call, its diff
\* the last one a review accepted, at HEAD of a clean worktree in which no
\* container of Trae is left to write (_produce_candidate_with_lease).
SealsWhatWasReviewed ==
    [][story.answer = "pending" /\ story'.answer = "sealed" =>
         /\ commits[story'.latest] = [base |-> code.base, diff |-> code.reviewed]
         /\ AtHead(story'.latest) /\ Clean /\ box # "running"]_vars

\* Files, index and HEAD change under the lease alone: but for the container of a
\* call that failed because it could not be removed, nothing writes once the lease
\* is free (acquire_lease, _close_isolation, terminate_group).
LeaseGuardsTheTree ==
    [][[tree EXCEPT !.there = TRUE, !.branch = TRUE]
         # [tree' EXCEPT !.there = TRUE, !.branch = TRUE]
       => \/ Holds("coder") /\ code.pc # "idle"
          \/ Holds("runner") /\ exec.pc # "idle"
          \/ story.answer = "fatal"]_vars

\* Between calls neither component keeps a lock, whichever lock was refused and
\* whatever the call ended with (worktrees.acquire_lease).
LocksAreReturned ==
    code.pc = "idle" /\ exec.pc = "idle" =>
        lock.thread = "free" /\ lock.file \in {"free", "other"}

\* A run is a success only if the candidate completed with exit code zero, its whole
\* outputs were copied while its container was held or, of a local one, were there when
\* it ended, the container is gone, an execution seal binds them, and the worktree is
\* the sealed one (_run_locked).
SuccessIsWhole ==
    [][runs'.made > runs.made /\ runs'.last = "success" =>
         /\ exec.copied = "whole" /\ exec.sealed
         /\ ~pod.there /\ SealHolds(exec.commit)]_vars

\* The one retry of a failed initial attempt or repair finds the worktree it
\* needs: clean, at the commit its context names (discard_uncommitted_changes).
RetriesFindTheirCommit ==
    [][story.answer = "transient" /\ story'.answer = "pending" /\ story.kind # "restart"
       => Attaches(Expected)]_vars

\* Every coding call returns or raises, whatever Trae, docker or the reviewer does,
\* and every run ends with a result, even of a candidate that never does: locks are
\* waited for under a deadline and the wall time is checked in every turn.
EveryCallEnds ==
    /\ code.pc # "idle" ~> code.pc = "idle"
    /\ exec.pc # "idle" ~> exec.pc = "idle"
=============================================================================
