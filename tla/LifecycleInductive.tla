------------------------ MODULE LifecycleInductive ------------------------
(***************************************************************************)
(* The inductive strengthening of the safety invariants of Lifecycle: what *)
(* is true of every reachable projection and, unlike OnlyGatedCommitsRun   *)
(* or BestIsVerified alone, is kept by every event.                        *)
(***************************************************************************)
EXTENDS Lifecycle

\* Failures recorded of a commit that Gate A had accepted, so that an answer may
\* run the commit again or resume the stage that failed on it.
GatedFailures == {"execution", "run_failed", "output_rejected", "no_op",
                  "output_gate", "evaluation", "decision"}

Recoverable(x) ==
    node[x].status = "recovering" /\ evid[x].failure \in GatedFailures

\* Where a verdict may be turned into a decision, now or after a retry.
AtVerdict(x) ==
    \/ node[x].status = "evaluated"
    \/ node[x].status = "recovering" /\ evid[x].failure = "decision"

\* The commit in hand is the gated one, and the one last requested.
HoldsGatedCommit(x) ==
    /\ \/ node[x].status \in {"ready_to_run", "accepted"} \cup PastStart
       \/ Recoverable(x)
       => Gated(x)
    /\ node[x].status \in PastStart \/ Recoverable(x)
       => evid[x].request.commit = node[x].commit

\* A confirmed verdict in force, and the eligibility won by it, rest on two
\* seeds of the commit they are about.
ConfirmedByTwoSeeds(x) ==
    /\ AtVerdict(x) /\ node[x].trust = "confirmed" => TwoSeeds(x, node[x].commit)
    /\ node[x].status = "accepted" /\ node[x].eligible
       => TwoSeeds(x, node[x].commit)

\* Finalization commands are requested of the stopped run's incumbent alone.
FinalCommandsAreSealed(x) ==
    evid[x].request.command # "candidate" =>
        ~Researching /\ x = best.exp /\ evid[x].request.commit = best.commit

SoundAt(x) ==
    HoldsGatedCommit(x) /\ ConfirmedByTwoSeeds(x) /\ FinalCommandsAreSealed(x)

\* Before the baseline is verified nothing has been proposed.
NothingBeforeBaseline ==
    run.status = "initializing" =>
        best.exp = NoExp /\ \A x \in Exps : node[x].status = "absent"

\* The incumbent is never an experiment the ledger could still repair.
BestIsSettled ==
    best.exp \in Exps =>
        node[best.exp].status \in {"accepted", "recovering"} \cup PastStart

\* Every experiment is sound wherever it stands, and so are the incumbent and
\* the selection: the conjunction every event of the ledger preserves.
IInv ==
    /\ NothingBeforeBaseline
    /\ \A x \in Exps : SoundAt(x)
    /\ BestIsVerified /\ BestIsSettled
    /\ FinalIsReproduced
=============================================================================
