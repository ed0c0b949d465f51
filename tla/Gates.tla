------------------------------- MODULE Gates -------------------------------
(***************************************************************************)
(* The chain of custody of one experiment (safety/patch_gate.py, Gate A;   *)
(* safety/receipts.py; execution/seals.py; safety/output_gate.py, Gate B;  *)
(* the evaluation bridge of orchestrator/live.py).  A candidate commit is  *)
(* inspected and receives a receipt, its execution is sealed, its output   *)
(* is checked against the seal and scored.  Each of them reads files that  *)
(* somebody else may have changed since the one before read them.          *)
(***************************************************************************)
EXTENDS Integers, Sequences

CONSTANTS
    MaxAttempts,  \* bound: coding attempts of the experiment
    MaxRuns,      \* bound: executions of the experiment
    MaxMeddling   \* bound: changes made by something that is none of the above

ASSUME GatesAssumption ==
    MaxAttempts \in Nat \ {0} /\ MaxRuns \in Nat \ {0} /\ MaxMeddling \in Nat

VARIABLES
    commits,   \* the commits of the experiment; commit 0 is the approved parent
    world,     \* HEAD and cleanness of the worktree, and the files others can reach
    cand,      \* the candidate: its attempt, its commit and the base it claims
    gate,      \* where the candidate is; Gate A's findings and verified changes
    receipts,  \* the receipts of accepted candidates
    exec,      \* the execution, its output and what was decided about it
    meddled,
    used       \* observed: the worktree last used, and what moved around its use

gvars == <<commits, world, cand, gate, receipts, exec, meddled, used>>

-----------------------------------------------------------------------------
(***************************************************************************)
(* Trees.  A commit gives each path a content: that of the parent, another *)
(* sound one, or one that an inspection of the source rejects: unparsable, *)
(* without the required interface, with a forbidden capability, or with    *)
(* what looks like a credential.                                           *)
(***************************************************************************)
Paths == {"solution", "helper"}
Authorized == {"solution"}
Contents == {"parent", "sound", "unparsable", "misfit", "forbidden", "secret"}
Trees == {t \in [Paths -> Contents] : t["helper"] \in {"parent", "sound"}}

TreeAt(c) == IF c = 0 THEN [p \in Paths |-> "parent"] ELSE commits[c].tree
BaseOf(c) == commits[c].base
Changed(a, b) == {p \in Paths : TreeAt(a)[p] # TreeAt(b)[p]}
Diff(a, b) == [p \in Changed(a, b) |-> TreeAt(b)[p]]

\* Ancestry by the one parent of each commit: c is in every set that holds the root
\* and, with a commit, its children.
RootedAt(root, c) ==
    \A line \in SUBSET (0..Len(commits)) :
        root \in line /\ (\A n \in 1..Len(commits) : BaseOf(n) \in line => n \in line)
            => c \in line

-----------------------------------------------------------------------------
(***************************************************************************)
(* Initial state.                                                          *)
(***************************************************************************)
NoOutput == [run |-> 0, commit |-> 0, is |-> "none"]
NoSeal == [run |-> 0, commit |-> 0, attempt |-> 0, bytes |-> NoOutput]

\* The worktree as the smoke test or a run finds it; before, the parts changed since
\* the verification ahead of that use; after, those changed since the use.
Parts == {"head", "clean", "frozen"}
Worktree == [p \in Parts |-> world[p]]
Untouched == [tree |-> [head |-> 0, clean |-> TRUE, frozen |-> TRUE],
              before |-> {}, after |-> {}]

Init ==
    /\ commits = <<>>
    /\ world = [head |-> 0, clean |-> TRUE, frozen |-> TRUE, patch |-> "none",
                receipt |-> "intact", output |-> NoOutput, seal |-> NoSeal]
    /\ cand = [attempt |-> 0, commit |-> 0, base |-> 0]
    /\ gate = [pc |-> "code", found |-> {}, changes |-> {}]
    /\ receipts = {}
    /\ exec = [runs |-> 0, ref |-> NoOutput, scored |-> NoOutput]
    /\ meddled = 0 /\ used = Untouched

At(pc) == gate.pc = pc
Go(pc) == gate' = [gate EXCEPT !.pc = pc]
Find(codes, pc) == gate' = [gate EXCEPT !.pc = pc, !.found = @ \cup codes]
Finding(code, ok) == IF ok THEN {} ELSE {code}

-----------------------------------------------------------------------------
(***************************************************************************)
(* The coding worker: a first candidate, a repair of the last one, or,     *)
(* after an integrity finding, a restart from the approved parent.         *)
(***************************************************************************)
Propose(base, tree) ==
    LET c == Len(commits) + 1 IN
    /\ At("code") \/ At("restart")
    /\ cand.attempt < MaxAttempts /\ tree # TreeAt(base)
    /\ base = (IF At("restart") THEN 0 ELSE cand.commit)
    /\ commits' = Append(commits, [base |-> base, tree |-> tree])
    /\ cand' = [attempt |-> cand.attempt + 1, commit |-> c, base |-> base]
    /\ world' = [world EXCEPT !.head = c, !.clean = TRUE, !.patch = "intact"]
    /\ gate' = [pc |-> "state", found |-> {}, changes |-> {}]
    /\ used' = Untouched
    /\ UNCHANGED <<receipts, exec, meddled>>

-----------------------------------------------------------------------------
(***************************************************************************)
(* Gate A.                                                                 *)
(***************************************************************************)

\* Mutant of RootIsLegal: every attempt must start from the root.
RootIsBase == cand.base = 0
\* The worktree is clean and at the candidate, whose one parent is the claimed
\* base; the experiment's root is the base of its first attempt and an ancestor
\* of every later one.
RootIsLegal ==
    IF cand.attempt = 1 THEN cand.base = 0 ELSE RootedAt(0, cand.base)

StateHolds ==
    /\ world.clean /\ world.head = cand.commit
    /\ BaseOf(cand.commit) = cand.base
    /\ RootIsLegal

\* Mutant of Inspected: only what this attempt changed.
InspectedOfAttempt == Changed(cand.base, cand.commit)
\* What is inspected is everything the experiment changed so far.
Inspected == Changed(0, cand.commit)

\* Nothing is known of a candidate whose git state does not verify.
VerifyState ==
    /\ At("state")
    /\ \/ StateHolds /\ gate' = [gate EXCEPT !.pc = "diff", !.changes = Inspected]
       \/ ~StateHolds /\ Find({"DIFF_MISMATCH"}, "diff")
    /\ UNCHANGED <<commits, world, cand, receipts, exec, meddled, used>>

\* The patch artifact has the bytes of its reference and of git's own diff.
PatchIsIntact == world.patch = "intact"

\* A diff shows what it removes as well as what it adds.
DiffShows(content) ==
    \E p \in Changed(cand.base, cand.commit) :
        content \in {TreeAt(cand.base)[p], TreeAt(cand.commit)[p]}

CheckDiff ==
    /\ At("diff")
    /\ Find(Finding("DIFF_MISMATCH", PatchIsIntact)
              \cup Finding("SECRET_DETECTED", PatchIsIntact => ~DiffShows("secret")), "policy")
    /\ UNCHANGED <<commits, world, cand, receipts, exec, meddled, used>>

\* The protected files are those of the frozen manifest.
ProtectedHolds == world.frozen

CheckPolicy ==
    /\ At("policy")
    /\ Find(Finding("UNAPPROVED_TARGET_FILE", gate.changes \subseteq Authorized)
              \cup Finding("PROTECTED_PATH_MODIFIED", ProtectedHolds), "sources")
    /\ used' = [used EXCEPT !.before = @ \ {"frozen"}]
    /\ UNCHANGED <<commits, world, cand, receipts, exec, meddled>>

\* Sources come from the commit, whatever the files of the worktree say.
SourcesAre(content) ==
    \E p \in gate.changes : TreeAt(cand.commit)[p] = content

SyntaxFindings == Finding("SYNTAX_IMPORT_FAILURE", ~SourcesAre("unparsable"))
InterfaceFindings == Finding("INTERFACE_MISMATCH", ~SourcesAre("misfit"))
CapabilityFindings == Finding("UNAPPROVED_NETWORK", ~SourcesAre("forbidden"))
                        \cup Finding("SECRET_DETECTED", ~SourcesAre("secret"))

CheckSources ==
    /\ At("sources")
    /\ Find(SyntaxFindings \cup InterfaceFindings \cup CapabilityFindings, "smoke")
    /\ UNCHANGED <<commits, world, cand, receipts, exec, meddled, used>>

\* The entrypoint is imported in a container: it is, or it is not, or the time or
\* the output of it runs out.
SmokeFindings == {{}, {"SMOKE_FAILURE"}}

\* The worktree is used as it is now, whatever was verified of it.
Use == used' = [used EXCEPT !.tree = Worktree, !.after = {}]

\* Only a candidate without findings is started; its container sees the worktree.
Smoke ==
    /\ At("smoke")
    /\ \/ gate.found = {} /\ Use /\ \E codes \in SmokeFindings : Find(codes, "recheck")
       \/ gate.found # {} /\ Go("recheck") /\ UNCHANGED used
    /\ UNCHANGED <<commits, world, cand, receipts, exec, meddled>>

\* The git state and the protected content are verified again before acceptance.
Rechecked == StateHolds /\ ProtectedHolds

Recheck ==
    /\ At("recheck") /\ gate.found = {} /\ Rechecked
    /\ Go("issue")
    /\ UNCHANGED <<commits, world, cand, receipts, exec, meddled, used>>

\* The receipt is made of what was verified; the worktree is not read again.
Receipt ==
    [attempt |-> cand.attempt, commit |-> cand.commit,
     diff |-> Diff(cand.base, cand.commit), cumulative |-> Diff(0, cand.commit)]

Issue ==
    /\ At("issue")
    /\ receipts' = receipts \cup {Receipt}
    /\ world' = [world EXCEPT !.receipt = "intact"]
    /\ Go("accepted") /\ used' = Untouched
    /\ UNCHANGED <<commits, cand, exec, meddled>>

\* An integrity finding of this one candidate discards it, else one about a credential
\* or about identities ends the experiment, and everything else is repaired.
Integrity == {"PROTECTED_PATH_MODIFIED", "UNAPPROVED_NETWORK"}
ControlPlane == {"DIFF_MISMATCH", "OUTPUT_IDENTITY_MISMATCH",
                 "OUTPUT_ARTIFACT_MISMATCH", "OUTPUT_PRODUCER_MISMATCH"}
Abandoned == ControlPlane \cup {"SECRET_DETECTED"}

RouteOf(codes) == CASE codes \cap Integrity # {} -> "restart"
                    [] codes \cap Integrity = {} /\ codes \cap Abandoned # {} -> "stopped"
                    [] OTHER -> "code"

Reject ==
    /\ At("recheck") /\ (gate.found = {} => ~Rechecked)
    /\ LET all == IF gate.found = {} THEN {"DIFF_MISMATCH"} ELSE gate.found IN
       Find(all, RouteOf(all))
    /\ used' = Untouched
    /\ UNCHANGED <<commits, world, cand, receipts, exec, meddled>>

-----------------------------------------------------------------------------
(***************************************************************************)
(* The execution, which holds the worktree's lease.                        *)
(***************************************************************************)

\* The receipt's file names this attempt and commit and these changes.
ReceiptHolds == world.receipt = "intact" /\ Receipt \in receipts

\* Mutant of SealHolds: the receipt and the frozen content, wherever HEAD is.
SealHoldsAnywhere ==
    world.clean /\ ProtectedHolds /\ ReceiptHolds
\* The worktree is the candidate's, the protected content is the frozen one, and
\* the receipt, read again, holds.
SealHolds ==
    /\ world.clean /\ world.head = cand.commit
    /\ ProtectedHolds /\ ReceiptHolds

Then(pc) == /\ Go(pc) /\ UNCHANGED <<commits, cand, receipts, meddled>>

\* A request is refused unless its seal holds.
VerifySeal ==
    /\ At("accepted") /\ exec.runs < MaxRuns
    /\ exec' = [exec EXCEPT !.runs = @ + 1]
    /\ UNCHANGED <<world, used>>
    /\ \/ SealHolds /\ Then("sealed")
       \/ ~SealHolds /\ Then("code")

\* The command is resolved and its sandbox prepared in between.
Launch ==
    /\ At("sealed") /\ Use
    /\ Then("running")
    /\ UNCHANGED <<world, exec>>

\* The run is over, and the seal is verified again.
VerifySealAgain ==
    /\ At("running") /\ SealHolds
    /\ Then("ended")
    /\ UNCHANGED <<world, exec, used>>

\* It is not launched, or fails, or its worktree is no longer the sealed one: rerun or
\* repaired.
Fail ==
    /\ \/ At("sealed") /\ (Then("accepted") \/ Then("code"))
       \/ At("running") /\ SealHolds /\ Then("accepted")
       \/ At("running") /\ Then("code")
    /\ used' = Untouched
    /\ UNCHANGED <<world, exec>>

Outputs == {"sound", "malformed", "misaligned", "degenerate"}

\* What the candidate wrote is referred to by its bytes.
Capture(is) ==
    LET out == [run |-> exec.runs, commit |-> cand.commit, is |-> is] IN
    /\ At("ended")
    /\ exec' = [exec EXCEPT !.ref = out]
    /\ world' = [world EXCEPT !.output = out]
    /\ Then("captured") /\ UNCHANGED used

\* The execution seal binds the bytes of the reference to run and commit.
WriteSeal ==
    /\ At("captured")
    /\ world' = [world EXCEPT !.seal = [run |-> exec.runs, commit |-> cand.commit,
                                       attempt |-> cand.attempt, bytes |-> exec.ref]]
    /\ Then("resolve") /\ UNCHANGED <<exec, used>>

-----------------------------------------------------------------------------
(***************************************************************************)
(* Gate B and the evaluation.                                              *)
(***************************************************************************)

\* The file has the bytes of its reference.
Resolve ==
    /\ At("resolve") /\ UNCHANGED <<world, exec, used>>
    /\ Then(IF world.output = exec.ref THEN "unseal"
            ELSE RouteOf({"OUTPUT_ARTIFACT_MISMATCH"}))

\* The seal names the expected run, commit and attempt, and the bytes of the file.
SealNames ==
    /\ world.seal.run = exec.runs /\ world.seal.commit = cand.commit
    /\ world.seal.attempt = cand.attempt
    /\ world.seal.bytes = world.output

TypeFindings == Finding("OUTPUT_TYPE_MISMATCH", exec.ref.is # "malformed")
IdentityFindings == Finding("OUTPUT_IDENTITY_MISMATCH", exec.ref.is # "misaligned")
ScoreFindings == Finding("OUTPUT_DEGENERATE_SCORES", exec.ref.is # "degenerate")

\* What was read is judged whatever the seal says.
Unseal ==
    LET all == Finding("OUTPUT_PRODUCER_MISMATCH", SealNames)
                 \cup TypeFindings \cup IdentityFindings \cup ScoreFindings
    IN  /\ At("unseal") /\ UNCHANGED <<world, exec, used>>
        /\ Then(IF all = {} THEN "checked" ELSE RouteOf(all))

\* Mutant of SameAsChecked: what was checked is taken to be what is there.
BelievedSame == TRUE
\* The evaluator reads the file once more; what it parsed must be what Gate B did.
SameAsChecked == world.output = exec.ref

Score ==
    /\ At("checked")
    /\ \/ /\ SameAsChecked
          /\ exec' = [exec EXCEPT !.scored = world.output]
          /\ Then("scored")
       \/ ~SameAsChecked /\ Then("stopped") /\ UNCHANGED exec
    /\ used' = Untouched
    /\ UNCHANGED world

\* Another seed, on the same commit and receipt, or the end of the experiment.
Again == At("scored") /\ Then("accepted") /\ UNCHANGED <<world, exec, used>>

-----------------------------------------------------------------------------
(***************************************************************************)
(* Whatever else reaches the files: a leftover process, a person, or the   *)
(* candidate while it runs.                                                *)
(***************************************************************************)
Other == [run |-> -1, commit |-> 0, is |-> "sound"]

\* What moves between a verification and the use it allows, or between the use and
\* the verification after it.
Moves(part) ==
    used' = [used EXCEPT
               !.before = IF gate.pc \in {"diff", "policy", "sources", "smoke", "sealed"}
                          THEN @ \cup {part} ELSE @,
               !.after = IF gate.pc \in {"recheck", "running"} THEN @ \cup {part} ELSE @]

Meddle ==
    /\ meddled < MaxMeddling /\ meddled' = meddled + 1
    /\ \/ /\ \E c \in (0..Len(commits)) \ {world.head} : world' = [world EXCEPT !.head = c]
          /\ Moves("head")
       \/ world' = [world EXCEPT !.clean = ~@] /\ Moves("clean")
       \/ world' = [world EXCEPT !.frozen = ~@] /\ Moves("frozen")
       \/ /\ \/ world' = [world EXCEPT !.patch = "changed"]
             \/ world' = [world EXCEPT !.receipt = "changed"]
             \/ world' = [world EXCEPT !.output = Other]
             \/ world' = [world EXCEPT !.seal.bytes = Other]
          /\ UNCHANGED used
    /\ UNCHANGED <<commits, cand, gate, receipts, exec>>

GateA == VerifyState \/ CheckDiff \/ CheckPolicy \/ CheckSources \/ Smoke
         \/ Recheck \/ Issue \/ Reject
Execution == VerifySeal \/ Launch \/ VerifySealAgain \/ Fail
             \/ (\E is \in Outputs : Capture(is)) \/ WriteSeal
GateB == Resolve \/ Unseal \/ Score \/ Again

Next ==
    \/ \E b \in 0..Len(commits), t \in Trees : Propose(b, t)
    \/ GateA \/ Execution \/ GateB \/ Meddle

Spec == Init /\ [][Next]_gvars

-----------------------------------------------------------------------------
(***************************************************************************)
(* Properties.                                                             *)
(***************************************************************************)
IsLegal(c) ==
    /\ Changed(0, c) \subseteq Authorized
    /\ \A p \in Paths : TreeAt(c)[p] \in {"parent", "sound"}

\* A receipt stands for everything its experiment changed since the approved
\* parent: no chain of attempts, each harmless against the one before, gets a
\* receipt for an unauthorized path or a rejected source (patch_gate.py inspects
\* the cumulative changes, not those of the attempt).
ReceiptsAreClean ==
    \A r \in receipts :
        IsLegal(r.commit) /\ r.cumulative = Diff(0, r.commit)

\* The worktree is verified, used (mounted into the container of the smoke test, run
\* as the candidate) and verified again; a receipt or a score is made of it only later.
\* A change that is still there at the second verification is found, whenever it was
\* made: what was used differs from the candidate's clean commit over frozen content
\* only in a part that was changed after the first verification and changed again
\* before the second (patch_gate.py:262-525, runner.py:238-564).
CleanCandidate == [head |-> cand.commit, clean |-> TRUE, frozen |-> TRUE]
UsedTreesAreVerified ==
    [][receipts' # receipts \/ exec'.scored # exec.scored =>
          \A p \in Parts :
              used.tree[p] # CleanCandidate[p] => p \in used.before \cap used.after]_gvars

\* What is scored was produced by the latest run of a receipted commit and was
\* found sound by Gate B; a file replaced after its check is never scored.
ScoredIsSealed ==
    [][exec'.scored # exec.scored =>
          /\ exec'.scored.is = "sound" /\ exec'.scored.run = exec.runs
          /\ \E r \in receipts : /\ r.commit = exec'.scored.commit
                                 /\ r.attempt = cand.attempt]_gvars

\* The gate rejects no legal candidate: unless something meddles or the smoke
\* test fails, a rejection finds a path or a source at fault, on first attempts,
\* repairs of rejected candidates and restarts alike.
LegalCandidatesPass ==
    [][Reject /\ meddled = 0 /\ "SMOKE_FAILURE" \notin gate.found
          => ~IsLegal(cand.commit)]_gvars
=============================================================================
