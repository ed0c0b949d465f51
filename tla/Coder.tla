------------------------------- MODULE Coder -------------------------------
(***************************************************************************)
(* The coding worker (coding/trae_adapter.py): initial attempts, repairs   *)
(* and restarts of one experiment.  Each call takes the lease, lets Trae   *)
(* edit in a container, removes it, captures and reviews the patch, asks   *)
(* for a revision while the review rejects, commits and keeps evidence.    *)
(***************************************************************************)
EXTENDS Worktree

CONSTANTS MaxReviews,  \* solution_verification_max_attempts (bound)
          MaxRepairs   \* repairs and restarts the run contract allows (bound)

ASSUME CoderAssumption == MaxReviews \in Nat \ {0} /\ MaxRepairs \in Nat

VARIABLES
    code,    \* the call in progress
    box,     \* the container of the pass: "none", "created" or "running"
    kept,    \* names of the evidence files of the experiment
    story    \* what the ledger tells the next call

cvars == <<code, box, kept, story>>

Idle == [pc |-> "idle", attempt |-> 0, base |-> 0, round |-> 1, seen |-> NoDiff,
         reviewed |-> NoDiff, err |-> "none"]

CoderInit ==
    /\ code = Idle /\ box = "none" /\ kept = {}
    /\ story = [kind |-> "none", answer |-> "none", latest |-> 0, retries |-> 0,
                repairs |-> 0]

-----------------------------------------------------------------------------
(***************************************************************************)
(* The controller's calls.  Evidence of an attempt is kept in a directory  *)
(* of its number, which the ledger's decisions determine.                  *)
(***************************************************************************)
InitialAttempt(retries) == 1 + retries
RepairAttempt(repairsBefore) == repairsBefore + 2

Begin(kind, attempt, base) ==
    code' = [Idle EXCEPT !.pc = "prepare", !.attempt = attempt, !.base = base]

StartInitial ==
    /\ code.pc = "idle" /\ story.answer = "none"
    /\ story' = [story EXCEPT !.kind = "initial", !.answer = "pending"]
    /\ Begin("initial", InitialAttempt(0), 0)

\* Only failures that come before a commit are owner-retryable, and only once.
RetryCoding ==
    /\ code.pc = "idle" /\ story.answer = "transient" /\ story.retries = 0
    /\ story' = [story EXCEPT !.answer = "pending", !.retries = 1]
    /\ Begin(story.kind,
             IF story.kind = "initial" THEN InitialAttempt(1)
                                       ELSE RepairAttempt(story.repairs),
             IF story.kind = "repair" THEN story.latest ELSE 0)

\* A gate or a run rejects the candidate: it is repaired on top of its commit, or
\* discarded and coded anew from the trusted parent.
Replace(kind) ==
    /\ code.pc = "idle" /\ story.answer = "rejected" /\ story.repairs < MaxRepairs
    /\ story' = [story EXCEPT !.kind = kind, !.answer = "pending",
                              !.repairs = @ + 1]
    /\ Begin(kind, RepairAttempt(story.repairs),
             IF kind = "repair" THEN story.latest ELSE 0)

StartCall ==
    /\ StartInitial \/ RetryCoding \/ \E k \in {"repair", "restart"} : Replace(k)
    /\ UNCHANGED <<wvars, box, kept>>

-----------------------------------------------------------------------------
(***************************************************************************)
(* Preparing: the worktree is created or attached before the lease.        *)
(***************************************************************************)
To(pc) == code' = [code EXCEPT !.pc = pc]

\* A call that ends without the lease has nothing to undo.
Ends(answer) ==
    /\ code' = Idle
    /\ story' = [story EXCEPT !.answer = answer]

\* The commit the caller's context names: what attach verifies.
Expected == IF story.kind = "initial" THEN 0 ELSE story.latest

Prepare ==
    /\ code.pc = "prepare"
    /\ LET reuse == story.kind # "initial" \/ code.attempt > 1
           creates == IF reuse THEN ~tree.there /\ story.kind # "restart" ELSE TRUE
       IN
       \/ /\ ~creates /\ Attaches(Expected)
          /\ To("thread") /\ NoFault /\ UNCHANGED <<tree, story>>
       \/ /\ creates /\ CanCreate(reuse)
          /\ \/ tree' = Created /\ To("thread") /\ NoFault /\ UNCHANGED story
             \/ Fault /\ Ends("fatal") /\ tree' \in RolledBack
       \/ /\ IF creates THEN ~CanCreate(reuse) ELSE ~Attaches(Expected)
          /\ Ends("fatal") /\ NoFault /\ UNCHANGED tree
    /\ UNCHANGED <<commits, lock, box, kept>>

CoderLocksThread ==
    /\ code.pc = "thread"
    /\ \/ TakeThread("coder") /\ To("file") /\ UNCHANGED story
       \/ lock.thread # "free" /\ Ends("fatal") /\ UNCHANGED lock
    /\ UNCHANGED <<tree, commits, faults, box, kept>>

\* Mutant of CoderLocksFile: the second lock is waited for without a deadline.
CoderWaitsForFile ==
    /\ code.pc = "file" /\ TakeFile("coder")
    /\ To(IF story.kind = "restart" THEN "restore" ELSE "verify")
    /\ UNCHANGED <<tree, commits, faults, story, box, kept>>

CoderLocksFile ==
    /\ code.pc = "file"
    /\ \/ /\ TakeFile("coder") /\ NoFault /\ UNCHANGED story
          /\ To(IF story.kind = "restart" THEN "restore" ELSE "verify")
       \/ lock.file # "free" /\ ReleaseThread /\ Ends("fatal") /\ NoFault
       \/ Fault /\ ReleaseThread /\ Ends("fatal")
    /\ UNCHANGED <<tree, commits, box, kept>>

\* restore_trusted_parent; its failures are outside the block that cleans up.
Restore ==
    /\ code.pc = "restore"
    /\ \/ /\ AtHead(story.latest) /\ tree' = ResetTo(0) /\ To("verify")
          /\ NoFault /\ UNCHANGED <<story, lock>>
       \/ /\ AtHead(story.latest) /\ tree' \in ResetStops(0) /\ Fault
          /\ ReleaseLease /\ Ends("fatal")
       \/ /\ ~AtHead(story.latest) /\ UNCHANGED tree /\ NoFault
          /\ ReleaseLease /\ Ends("fatal")
    /\ UNCHANGED <<commits, box, kept>>

-----------------------------------------------------------------------------
(***************************************************************************)
(* A pass of Trae, _run_trae_pass.  Whatever happens in it, the container  *)
(* is closed before the pass returns or raises.                            *)
(***************************************************************************)
\* An error inside the lease: the worktree is restored before the call raises.
Raises(err) == code' = [code EXCEPT !.pc = "discard", !.err = err]
\* An error while there is a container.
ClosesAndRaises(err) == code' = [code EXCEPT !.pc = "close", !.err = err]

Verify ==
    /\ code.pc = "verify"
    /\ IF Attaches(code.base) THEN To("isolate") ELSE Raises("fatal")
    /\ UNCHANGED <<wvars, box, kept, story>>

Isolate ==
    /\ code.pc = "isolate"
    /\ \/ box' = "running" /\ To("edit") /\ NoFault
       \/ /\ Fault
          /\ \/ UNCHANGED box /\ Raises("fatal")         \* nothing was created
             \/ box' = "created" /\ ClosesAndRaises("fatal")  \* known, not started
             \/ box' = "created" /\ Raises("fatal")      \* created, never named
    /\ UNCHANGED <<tree, commits, lock, kept, story>>

\* Trae and whatever it started in the container write to the files until the
\* container is gone.
Edit ==
    /\ box = "running"
    /\ \E d \in Diffs \cup {NoDiff} : d # tree.files /\ tree' = [tree EXCEPT !.files = d]
    /\ UNCHANGED <<commits, lock, faults, cvars>>

PassEvidence == <<code.attempt, "pass", code.round>>
FailureEvidence == <<code.attempt, "failure", code.round>>
VerdictEvidence == <<code.attempt, "verdict", code.round>>
SealEvidence == <<code.attempt, "seal", 0>>

\* write_artifact: evidence is immutable, and its bytes never repeat.
Keeps(name) == name \notin kept /\ kept' = kept \cup {name}
CannotKeep(name) ==
    /\ UNCHANGED kept
    /\ IF name \in kept THEN NoFault ELSE Fault

\* The process ends by itself, in time or not; its log and trajectory are kept.
PassEnds ==
    /\ code.pc = "edit"
    /\ \/ Keeps(PassEvidence) /\ To("close") /\ NoFault
       \/ Keeps(FailureEvidence) /\ Fault
          /\ \E e \in {"transient", "fatal"} : ClosesAndRaises(e)
       \/ \E n \in {PassEvidence, FailureEvidence} :
             CannotKeep(n) /\ ClosesAndRaises("fatal")
    /\ UNCHANGED <<tree, commits, lock, box, story>>

\* Mutant of Close: a container that cannot be removed is taken for gone.
CloseIsAssumed ==
    /\ code.pc = "close"
    /\ \/ box' = "none" /\ NoFault
       \/ Fault /\ box' \in {box, "none"}
    /\ IF code.err = "none" THEN To("capture") ELSE Raises(code.err)
    /\ UNCHANGED <<tree, commits, lock, kept, story>>

\* stop, rm and inspect: only proven absence closes the container.
Close ==
    /\ code.pc = "close"
    /\ \/ /\ box' = "none" /\ NoFault
          /\ IF code.err = "none" THEN To("capture") ELSE Raises(code.err)
       \/ /\ Fault /\ box' \in {box, "none"} /\ Raises("fatal")
    /\ UNCHANGED <<tree, commits, lock, kept, story>>

-----------------------------------------------------------------------------
(***************************************************************************)
(* Capture, review, revision, commit and evidence.                         *)
(***************************************************************************)
Capture ==
    /\ code.pc = "capture"
    /\ \/ /\ AtHead(code.base) /\ tree' = Staged /\ NoFault
          /\ IF tree.files \in {NoDiff, code.seen}
             THEN Raises("transient")
             ELSE code' = [code EXCEPT !.pc = "review", !.seen = tree.files]
       \/ Fault /\ tree' \in {tree, Staged} /\ Raises("fatal")
    /\ UNCHANGED <<commits, lock, box, kept, story>>

\* Mutant of ReviewRejects: the last review is taken for an acceptance.
LastReviewCommits ==
    IF code.round = MaxReviews THEN To("commit")
    ELSE code' = [code EXCEPT !.pc = "isolate", !.round = @ + 1]

\* A rejected patch is revised in place, while reviews are left.
ReviewRejects ==
    IF code.round = MaxReviews THEN Raises("fatal")
    ELSE code' = [code EXCEPT !.pc = "isolate", !.round = @ + 1]

\* The wall budget may be spent before the review; a verifier retries on its own.
Review ==
    /\ code.pc = "review"
    /\ \/ /\ Keeps(VerdictEvidence) /\ NoFault
          /\ \/ code' = [code EXCEPT !.pc = "commit", !.reviewed = tree.index]
             \/ ReviewRejects
       \/ Keeps(VerdictEvidence) /\ Fault /\ Raises("fatal")
       \/ CannotKeep(VerdictEvidence) /\ Raises("fatal")
       \/ UNCHANGED kept /\ Fault /\ Raises("transient")
    /\ UNCHANGED <<tree, commits, lock, box, story>>

\* commit_staged_patch: only the bytes captured for the review are committed, and
\* what is left unclean afterwards fails the call with the commit made.
Commit ==
    /\ code.pc = "commit"
    /\ \/ /\ AtHead(code.base) /\ tree.index = code.seen
          /\ tree' = Committed
          /\ commits' = Append(commits, [base |-> code.base, diff |-> tree.index])
          /\ \/ /\ NoFault
                /\ IF tree.files = tree.index THEN To("seal") ELSE Raises("fatal")
             \/ Fault /\ Raises("fatal")
       \/ /\ Fault \/ (NoFault /\ ~(AtHead(code.base) /\ tree.index = code.seen))
          /\ Raises("fatal") /\ UNCHANGED <<tree, commits>>
    /\ UNCHANGED <<lock, box, kept, story>>

\* The candidate is returned once its evidence is kept.
Seal ==
    /\ code.pc = "seal"
    /\ \/ /\ Keeps(SealEvidence) /\ NoFault
          /\ ReleaseLease /\ code' = Idle
          /\ story' = [story EXCEPT !.answer = "sealed", !.latest = tree.head,
                                    !.retries = 0]
       \/ /\ CannotKeep(SealEvidence) /\ Raises("fatal") /\ UNCHANGED <<lock, story>>
    /\ UNCHANGED <<tree, commits, box>>

\* A call that raises restores the commit it started from; that the branch has
\* moved on is not an error of an initial attempt or a repair.
Discard ==
    /\ code.pc = "discard"
    /\ ReleaseLease
    /\ \/ /\ AtHead(code.base) /\ tree' = ResetTo(code.base) /\ NoFault
          /\ Ends(code.err)
       \/ /\ AtHead(code.base) /\ Fault /\ tree' \in ResetStops(code.base)
          /\ Ends("fatal")
       \/ /\ ~AtHead(code.base) /\ UNCHANGED tree /\ NoFault
          /\ Ends(IF story.kind = "restart" THEN "fatal" ELSE code.err)
    /\ UNCHANGED <<commits, box, kept>>

CoderStep ==
    \/ Prepare \/ CoderLocksThread \/ CoderLocksFile \/ Restore \/ Verify
    \/ Isolate \/ PassEnds \/ Close \/ Capture \/ Review \/ Commit \/ Seal \/ Discard
=============================================================================
