------------------------------- MODULE Runner -------------------------------
(***************************************************************************)
(* The execution runner (execution/runner.py) with the process and the     *)
(* container it manages (process.py, container_supervisor.py): a sealed    *)
(* commit is run under the lease, watched until it ends or is stopped, its *)
(* outputs are copied out while the supervisor holds the container, and    *)
(* the outcome is decided once the container is proven gone.               *)
(***************************************************************************)
EXTENDS Worktree

CONSTANTS MaxRuns,      \* execution attempts of the experiment (bound)
          LocalBackend  \* the trusted local backend, without a container, is allowed

ASSUME RunnerAssumption == MaxRuns \in Nat /\ LocalBackend \in BOOLEAN

VARIABLES
    exec,  \* the run in progress
    pod,   \* the container, its client process and its candidate
    runs   \* how many runs were made, and the outcome nobody has read yet

rvars == <<exec, pod, runs>>

NoRun == [pc |-> "idle", commit |-> 0, late |-> FALSE, extracted |-> FALSE,
          copied |-> "none", term |-> "none", exit |-> "none", sealed |-> FALSE]

\* done is what the candidate left behind, with the marker COMPLETE of a container.
NoPod == [up |-> FALSE, client |-> FALSE, done |-> "no", released |-> FALSE,
          exit |-> "none", there |-> FALSE, local |-> FALSE]

RunnerInit == exec = NoRun /\ pod = NoPod /\ runs = [made |-> 0, last |-> "none"]

Goto(pc) == exec' = [exec EXCEPT !.pc = pc]
\* A termination is an outcome with the place it was decided at.
Terminates(pc, outcome) == exec' = [exec EXCEPT !.pc = pc, !.term = outcome]

\* A result is returned as the lease is released.
Returns(outcome) ==
    /\ exec' = NoRun
    /\ runs' = [made |-> runs.made + 1, last |-> outcome]

-----------------------------------------------------------------------------
(***************************************************************************)
(* Before the launch: lease, seal, policy.  What is refused here never had *)
(* a process.                                                              *)
(***************************************************************************)
StartRun(commit) ==
    /\ exec.pc = "idle" /\ runs.made < MaxRuns
    /\ exec' = [NoRun EXCEPT !.pc = "thread", !.commit = commit]
    /\ UNCHANGED <<wvars, pod, runs>>

RunnerLocksThread ==
    /\ exec.pc = "thread"
    /\ \/ TakeThread("runner") /\ Goto("file") /\ UNCHANGED runs
       \/ lock.thread # "free" /\ Returns("contract_error") /\ UNCHANGED lock
    /\ UNCHANGED <<tree, commits, faults, pod>>

RunnerLocksFile ==
    /\ exec.pc = "file"
    /\ \/ TakeFile("runner") /\ Goto("preseal") /\ NoFault /\ UNCHANGED runs
       \/ lock.file # "free" /\ ReleaseThread /\ Returns("contract_error") /\ NoFault
       \/ Fault /\ ReleaseThread /\ Returns("contract_error")
    /\ UNCHANGED <<tree, commits, pod>>

\* Mutant of SealHolds: the receipt is checked, the worktree is not.
ReceiptAlone(commit) == commit \in DOMAIN commits
\* verify: the worktree is clean at the commit, a child of its recorded base.
SealHolds(commit) == Attaches(commit) /\ commit \in DOMAIN commits

PreSeal ==
    /\ exec.pc = "preseal"
    /\ IF SealHolds(exec.commit)
       THEN Goto("prepare") /\ UNCHANGED <<lock, runs>>
       ELSE Returns("contract_error") /\ ReleaseLease
    /\ UNCHANGED <<tree, commits, faults, pod>>

\* The command, its sandbox and fresh output paths.
PrepareRun ==
    /\ exec.pc = "prepare"
    /\ \/ Goto("launch") /\ NoFault /\ UNCHANGED <<lock, runs>>
       \/ Fault /\ Returns("contract_error") /\ ReleaseLease
    /\ UNCHANGED <<tree, commits, pod>>

\* What is launched: docker run, or the candidate itself.
Backends == IF LocalBackend THEN {TRUE, FALSE} ELSE {FALSE}
Started(unconfined) ==
    [NoPod EXCEPT !.up = TRUE, !.client = TRUE, !.there = ~unconfined, !.local = unconfined]

\* A failure removes the container it may have created, if it can.
Launch ==
    /\ exec.pc = "launch"
    /\ \/ /\ \E unconfined \in Backends : pod' = Started(unconfined)
          /\ Goto("watch") /\ NoFault /\ UNCHANGED <<lock, runs>>
       \/ /\ Fault /\ pod' \in {NoPod, [Started(FALSE) EXCEPT !.client = FALSE]}
          /\ Returns("infrastructure_error") /\ ReleaseLease
    /\ UNCHANGED <<tree, commits>>

-----------------------------------------------------------------------------
(***************************************************************************)
(* The container and the clock.                                            *)
(***************************************************************************)
Watched == exec.pc \in {"watch", "probe", "extract", "release"}

\* The candidate ends by itself, leaving outputs or not; the supervisor of a
\* container writes COMPLETE and waits, without a limit of its own, to be released.
CandidateEnds ==
    /\ pod.up /\ pod.done = "no"
    /\ \E d \in {"ok", "empty", "failed"} : pod' = [pod EXCEPT !.done = d]
    /\ UNCHANGED <<wvars, exec, runs>>

\* Released, the container exits with the code of the candidate; nothing holds the
\* process of a local one.
ContainerExits ==
    /\ pod.up /\ IF pod.local THEN pod.done # "no" ELSE pod.released
    /\ pod' = [pod EXCEPT !.up = FALSE, !.client = FALSE,
                          !.exit = IF ~pod.client THEN @
                                   ELSE IF pod.done = "failed" THEN "nonzero" ELSE "zero"]
    /\ UNCHANGED <<wvars, exec, runs>>

\* The container or the local process is killed, or only the client of the container.
ContainerDies ==
    /\ pod.up /\ pod.client /\ Fault
    /\ \/ pod' = [pod EXCEPT !.up = FALSE, !.client = FALSE, !.exit = "nonzero"]
       \/ ~pod.local /\ pod' = [pod EXCEPT !.client = FALSE, !.exit = "lost"]
    /\ UNCHANGED <<tree, commits, lock, exec, runs>>

\* Only a candidate that no container confines can write into the worktree, until
\* its process group is killed.
CandidateWrites ==
    /\ pod.local /\ pod.client /\ pod.done = "no" /\ Fault
    /\ \E d \in Diffs : tree' = [tree EXCEPT !.files = d]
    /\ UNCHANGED <<commits, lock, rvars>>

WallTimePasses ==
    /\ Watched /\ ~exec.late
    /\ exec' = [exec EXCEPT !.late = TRUE]
    /\ UNCHANGED <<wvars, pod, runs>>

-----------------------------------------------------------------------------
(***************************************************************************)
(* The loop of _run_locked.  Telemetry, observed limits, health directives *)
(* and failing probes stop a run the same way; three misses in a row are   *)
(* needed for some, one here for all.  Outcomes that the policy routes     *)
(* alike are one: a hang is an infrastructure error, a cancelled run an    *)
(* oom, and a code error stands for every defect.                          *)
(***************************************************************************)
Stops == {"infrastructure_error", "oom", "code_error"}

Overdue == exec.late

Watch ==
    /\ exec.pc = "watch"
    /\ \/ ~pod.client /\ Goto("finish") /\ NoFault
       \/ pod.client /\ Overdue /\ Terminates("stop", "timeout") /\ NoFault
       \/ pod.client /\ ~Overdue /\ Goto("probe") /\ NoFault
       \/ pod.client /\ ~Overdue /\ Fault /\ \E o \in Stops : Terminates("stop", o)
    /\ UNCHANGED <<tree, commits, lock, pod, runs>>

\* Mutant of Ready: a container that answers has its outputs.
UpIsReady == pod.up
\* The probe finds COMPLETE; in a container that is gone, and where there is none, it
\* finds nothing.
Ready == pod.up /\ ~pod.local /\ pod.done # "no"

Probe ==
    /\ exec.pc = "probe"
    /\ \/ Goto(IF Ready THEN "extract" ELSE "watch") /\ NoFault
       \/ Fault /\ Terminates("stop", "infrastructure_error")
    /\ UNCHANGED <<tree, commits, lock, pod, runs>>

\* What the candidate has written by now.
Outputs == IF pod.done = "ok" THEN "whole" ELSE IF pod.done = "no" THEN "part" ELSE "none"

\* A second answer of a container that is slow to exit fails the run: its outputs
\* are copied once.
Extract ==
    /\ exec.pc = "extract"
    /\ \/ /\ ~exec.extracted /\ pod.up /\ NoFault
          /\ exec' = [exec EXCEPT !.pc = "release", !.extracted = TRUE,
                                  !.copied = Outputs]
       \/ (exec.extracted \/ ~pod.up) /\ NoFault
          /\ Terminates("stop", "infrastructure_error")
       \/ ~exec.extracted /\ Fault /\ Terminates("stop", "infrastructure_error")
    /\ UNCHANGED <<tree, commits, lock, pod, runs>>

Release ==
    /\ exec.pc = "release"
    /\ \/ /\ pod.up /\ pod' = [pod EXCEPT !.released = TRUE]
          /\ Goto("watch") /\ NoFault
       \/ /\ ~pod.up /\ NoFault
          /\ Terminates("stop", "infrastructure_error") /\ UNCHANGED pod
       \/ /\ pod.up /\ Fault /\ Terminates("stop", "infrastructure_error")
          /\ pod' \in {pod, [pod EXCEPT !.released = TRUE]}
    /\ UNCHANGED <<tree, commits, lock, runs>>

-----------------------------------------------------------------------------
(***************************************************************************)
(* After the loop.  Absence of the container is proven, or the run fails   *)
(* with whatever is left of it.                                            *)
(***************************************************************************)
Stop ==
    /\ exec.pc = "stop"
    /\ \/ pod' = NoPod /\ NoFault /\ Goto("postseal")
       \/ /\ Fault /\ pod' \in {NoPod, [pod EXCEPT !.client = FALSE]}
          /\ Terminates("postseal", "infrastructure_error")
    /\ UNCHANGED <<tree, commits, lock, runs>>

\* Mutant of Finish's check: what was not copied is looked for among the outputs.
ExitIsEnough == TRUE
\* A supervised container that exits before its outputs were copied has lost them; a
\* local candidate writes them where they are looked for.
OutputsWereCopied == exec.extracted \/ pod.local

\* The exit code of the client is compared with the container's.
ExitAgrees == pod.exit # "lost"

Finish ==
    /\ exec.pc = "finish"
    /\ \/ /\ pod' = NoPod /\ NoFault
          /\ exec' = [exec EXCEPT !.pc = "postseal", !.exit = pod.exit,
                !.copied = IF pod.local THEN Outputs ELSE @,
                !.term = IF OutputsWereCopied /\ ExitAgrees THEN @
                         ELSE "infrastructure_error"]
       \/ /\ Fault /\ pod' \in {NoPod, [pod EXCEPT !.client = FALSE]}
          /\ Terminates("postseal", "infrastructure_error")
    /\ UNCHANGED <<tree, commits, lock, runs>>

\* The seal is verified again, and a changed worktree overrides any outcome.
PostSeal ==
    /\ exec.pc = "postseal"
    /\ IF SealHolds(exec.commit) THEN Goto("capture")
                                 ELSE Terminates("capture", "contract_error")
    /\ UNCHANGED <<wvars, pod, runs>>

Keep(outcome) == IF exec.term = "none" THEN outcome ELSE exec.term

CaptureOutputs ==
    /\ exec.pc = "capture"
    /\ \/ Goto("seal") /\ NoFault
       \/ Fault /\ exec' = [exec EXCEPT !.pc = "seal", !.copied = "none",
                                        !.term = Keep("infrastructure_error")]
    /\ UNCHANGED <<tree, commits, lock, pod, runs>>

\* The files that the registry expects are there; their content is not read.
OutputsPresent == exec.copied \in {"whole", "part"}

WriteSeal ==
    /\ exec.pc = "seal"
    /\ LET seals == exec.term = "none" /\ exec.exit = "zero" /\ OutputsPresent IN
       \/ exec' = [exec EXCEPT !.pc = "outcome", !.sealed = seals] /\ NoFault
       \/ seals /\ Fault /\ Terminates("outcome", "infrastructure_error")
    /\ UNCHANGED <<tree, commits, lock, pod, runs>>

\* The state of the container may tell of an OOM kill behind a zero exit.
ExitOutcome ==
    IF exec.exit = "zero"
    THEN IF OutputsPresent THEN {"success"} ELSE {"code_error"}
    ELSE {"code_error", "infrastructure_error", "oom"}

DecideOutcome ==
    /\ exec.pc = "outcome"
    /\ ReleaseLease
    /\ \/ exec.term # "none" /\ Returns(exec.term) /\ NoFault
       \/ exec.term = "none" /\ (\E o \in ExitOutcome : Returns(o)) /\ NoFault
       \/ exec.term = "none" /\ Returns("oom") /\ Fault
    /\ UNCHANGED <<tree, commits, pod>>

RunnerStep ==
    \/ RunnerLocksThread \/ RunnerLocksFile \/ PreSeal \/ PrepareRun \/ Launch
    \/ Watch \/ Probe \/ Extract \/ Release \/ Stop \/ Finish \/ PostSeal
    \/ CaptureOutputs \/ WriteSeal \/ DecideOutcome

ContainerStep == CandidateEnds \/ ContainerExits \/ ContainerDies \/ CandidateWrites
=============================================================================
