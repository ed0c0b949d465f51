----------------------------- MODULE Lifecycle -----------------------------
(***************************************************************************)
(* The event-sourced lifecycle of one TacoRank run: what the ledger admits *)
(* (orchestrator/state_machine.py, validate_transition) and what each      *)
(* admitted event does to the projected state (memory/projections.py,      *)
(* project).  One action per event type; its guard is the validator's      *)
(* branch for that type, its primed variables are the reducer's branch.    *)
(*                                                                         *)
(* The ledger itself is not a variable.  node holds the ExperimentNode     *)
(* fields of orchestrator/state.py, and evid holds the facts the validator *)
(* looks up in the event prefix (the last receipt, request, failure, ...). *)
(***************************************************************************)
EXTENDS Integers, FiniteSets

CONSTANTS
    Exps,           \* experiment identities the planner may propose
    Keys,           \* duplicate keys (method/parent identities)
    Seeds,          \* the frozen seed schedule of full-fidelity runs
    Scores,         \* primary scores an evaluation may report
    BaselineScore,  \* the primary score of the verified baseline
    MaxRepairs,     \* max_repairs_per_experiment
    MaxConfirm,     \* max_confirmation_attempts
    MaxPatches,     \* bound: patch commits one experiment may produce
    MaxQueries,     \* bound: evaluations one run may record
    Policy          \* the recovery actions the policy may choose per failure

Baseline == "baseline"
NoExp == "none"

\* MAX_SAME_COMMIT_RETRIES of recovery/policy.py.
MaxSameCommitRetries == 2

\* A duplicate key is proposed at most this often (state_machine.py:108).
MaxAttemptsPerKey == 3

RunStatuses == {"initializing", "ready", "running", "stopped",
                "finalizing", "finalized", "failed"}

Live == {"proposed", "patch_ready", "ready_to_run", "running", "output_ready",
         "output_verified", "evaluated", "recovering"}
Closed == {"no_op", "accepted", "rejected", "pruned", "invalid"}
ExperimentStatuses == {"absent"} \cup Live \cup Closed

Fidelities == {"smoke", "proxy", "full"}
FidelityOrder == [smoke |-> 0, proxy |-> 1, full |-> 2]

\* "candidate" stands for the command ids research runs use.
FinalCommands == {"clean_reproduce", "candidate_final_infer", "submission_check"}
Commands == {"candidate"} \cup FinalCommands

(***************************************************************************)
(* The trust assessments the validator tells apart: "confirmed" and        *)
(* "accepted" are clean accepted verdicts with and without CONFIRMED       *)
(* stability, "doubtful" an accepted verdict of inconclusive integrity,    *)
(* "untrusted" the negative, inconclusive, redundant and suspicious ones.  *)
(***************************************************************************)
Trusts == {"confirmed", "accepted", "doubtful", "untrusted", "no_op"}
AcceptedVerdicts == {"confirmed", "accepted", "doubtful"}
CleanVerdicts == {"confirmed", "accepted"}

\* Stages of AdapterFailureResult; "decision" is an evaluation-stage failure
\* whose cause is the experiment's own EVALUATION_COMPLETED, which a retry sends
\* back to the decider (the harness cites the experiment's latest event).
AdapterStages == {"coding", "patch_gate", "execution", "output_gate",
                  "evaluation", "decision", "recovery"}
Failures == AdapterStages \cup
            {"patch_rejected", "run_failed", "output_rejected", "no_op"}
CodeActions == {"trae_repair", "restart_from_trusted_parent"}
RecoveryActions == CodeActions \cup
    {"retry_same_commit", "adjust_approved_runtime_setting",
     "return_to_planner", "rollback", "abandon"}
DecisionKinds == {"promote", "accept", "reject", "prune", "invalid"}
\* A "worker" context is one written for the coder or for a recovery.
Roles == {"planner", "worker"}

ASSUME BoundsAssumption ==
    /\ MaxRepairs \in Nat /\ MaxConfirm \in Nat
    /\ MaxPatches \in Nat /\ MaxQueries \in Nat
ASSUME DomainAssumption ==
    /\ Scores \subseteq Int /\ BaselineScore \in Int
    /\ Baseline \notin Exps /\ NoExp \notin Exps
    /\ IsFiniteSet(Exps) /\ Keys # {}
(***************************************************************************)
(* What recovery/policy.py guarantees of the actions it chooses: a runtime *)
(* adjustment answers only a failed run, and a failure that leaves no      *)
(* gated commit is never answered by running the same commit again.        *)
(***************************************************************************)
ASSUME PolicyAssumption ==
    /\ Policy \in [Failures -> SUBSET RecoveryActions]
    /\ \A f \in Failures :
         "adjust_approved_runtime_setting" \in Policy[f] => f = "run_failed"
    /\ \A f \in {"patch_rejected", "recovery"} :
         "retry_same_commit" \notin Policy[f]

VARIABLES
    run,    \* run-level projection: status, phase, active experiment, ...; fresh
            \* holds while no event that leaves the phase alone follows a context
    node,   \* node[x]: the ExperimentNode of x
    evid,   \* evid[x]: what the event prefix records about x
    best    \* the verified incumbent: experiment, commit, score

vars == <<run, node, evid, best>>

NoReceipt == [commit |-> 0, accepted |-> FALSE]
NoRequest == [commit |-> 0, fidelity |-> "smoke", command |-> "candidate",
              seed |-> 0]

NewNode(status, key, parent) ==
    [status |-> status, key |-> key, parent |-> parent, commit |-> 0,
     repairs |-> 0, retries |-> 0, confirms |-> 0, eligible |-> FALSE,
     score |-> BaselineScore, trust |-> "untrusted", fidelity |-> "smoke"]

NewEvidence ==
    [receipt |-> NoReceipt, request |-> NoRequest, finished |-> "none",
     output |-> "none", outputOf |-> "none", failure |-> "none",
     recovery |-> "none", evals |-> {}, reproductions |-> {}]

\* The phase the reducer records with each experiment status.
PhaseOf == [proposed |-> "coding", patch_ready |-> "patch_gate",
            ready_to_run |-> "execution", running |-> "running",
            output_ready |-> "output_gate", output_verified |-> "evaluation",
            evaluated |-> "decision", recovering |-> "recovery",
            no_op |-> "planning", accepted |-> "planning",
            rejected |-> "planning", pruned |-> "planning",
            invalid |-> "planning"]

ContextPhase == [planner |-> "planner_context", worker |-> "worker_context"]

Proposed == {x \in Exps : node[x].status # "absent"}

-----------------------------------------------------------------------------
(***************************************************************************)
(* Events of the run.  Before run.stopped every event is admitted by its   *)
(* own rule; afterwards only sealed finalization evidence is.              *)
(***************************************************************************)
Researching == run.status \in {"initializing", "ready", "running"}
Accepting == run.status \in {"ready", "running"}
Sealed == run.status = "stopped"

Init ==
    /\ run = [status |-> "initializing", phase |-> "not_started",
              active |-> NoExp, context |-> "none", briefed |-> FALSE,
              fresh |-> FALSE, queries |-> 0]
    /\ node = [x \in Exps |-> NewNode("absent", CHOOSE k \in Keys : TRUE, Baseline)]
    /\ evid = [x \in Exps |-> NewEvidence]
    /\ best = [exp |-> NoExp, commit |-> 0, score |-> BaselineScore]

RunStarted ==
    /\ run.phase = "not_started"
    /\ run' = [run EXCEPT !.phase = "contract_verification"]
    /\ UNCHANGED <<node, evid, best>>

ContractVerified ==
    /\ run.phase = "contract_verification"
    /\ run' = [run EXCEPT !.phase = "baseline"]
    /\ UNCHANGED <<node, evid, best>>

\* baseline.verified may occur only once, after the contract.
BaselineVerified ==
    /\ run.status = "initializing" /\ run.phase = "baseline"
    /\ run' = [run EXCEPT !.status = "ready", !.phase = "planning"]
    /\ best' = [exp |-> Baseline, commit |-> 0, score |-> BaselineScore]
    /\ UNCHANGED <<node, evid>>

CanContextCreated == Accepting

ContextCreated(role) ==
    /\ CanContextCreated
    /\ run' = [run EXCEPT !.phase = ContextPhase[role], !.context = role,
                          !.briefed = @ \/ role # "planner", !.fresh = TRUE]
    /\ UNCHANGED <<node, evid, best>>

PlannerRecommended ==
    /\ Accepting /\ run.context = "planner"
    /\ run' = [run EXCEPT !.fresh = FALSE]
    /\ UNCHANGED <<node, evid, best>>

\* A planning failure follows its planner context at once and owns no experiment.
CanPlanningFailed ==
    /\ Accepting
    /\ run.phase = "planner_context" /\ run.context = "planner"
    /\ run.fresh
    /\ run.active = NoExp

PlanningFailed ==
    /\ CanPlanningFailed
    /\ run' = [run EXCEPT !.active = NoExp, !.phase = "planning_failure"]
    /\ UNCHANGED <<node, evid, best>>

FinalizableStops == {"experiment_budget", "wall_time_budget", "token_budget",
                     "gpu_budget", "converged", "no_legal_proposal"}

CanRunStopped == Accepting

RunStopped(reason) ==
    /\ CanRunStopped
    /\ run' = [run EXCEPT
         !.status = IF reason \in FinalizableStops THEN "stopped" ELSE "failed",
         !.phase = IF reason \in FinalizableStops THEN "stopped" ELSE "failed",
         !.active = NoExp]
    /\ UNCHANGED <<node, evid, best>>

-----------------------------------------------------------------------------
(***************************************************************************)
(* Events of one experiment.                                               *)
(***************************************************************************)
SameKey(k) == {x \in Proposed : node[x].key = k}

\* One planner-selected duplicate after a bounded no-op recovery.
AuthorizedNoOpReimplementation(k, parent) ==
    \E x \in Exps :
        /\ SameKey(k) = {x}
        /\ node[x].status = "no_op" /\ node[x].trust = "no_op"
        /\ evid[x].recovery = "return_to_planner"
        /\ parent = node[x].parent

\* Mutant of AuthorizedReexploration: a fourth attempt is let through.
ReexploredTooOften(k) ==
    /\ SameKey(k) # {} /\ Cardinality(SameKey(k)) <= MaxAttemptsPerKey
    /\ \A x \in SameKey(k) : node[x].status \in {"invalid", "no_op"}

\* A method whose earlier attempts never tested it may be proposed again.
AuthorizedReexploration(k) ==
    /\ SameKey(k) # {} /\ Cardinality(SameKey(k)) < MaxAttemptsPerKey
    /\ \A x \in SameKey(k) : node[x].status \in {"invalid", "no_op"}

CanPropose(x, k, parent) ==
    /\ Accepting /\ run.context = "planner"
    /\ node[x].status = "absent"
    /\ \/ SameKey(k) = {}
       \/ AuthorizedNoOpReimplementation(k, parent)
       \/ AuthorizedReexploration(k)
    /\ parent # Baseline => /\ parent \in Proposed
                            /\ node[parent].commit > 0

ExperimentProposed(x, k, parent) ==
    /\ CanPropose(x, k, parent)
    /\ node' = [node EXCEPT ![x] = NewNode("proposed", k, parent)]
    /\ run' = [run EXCEPT !.status = "running", !.active = x, !.phase = "coding"]
    /\ UNCHANGED <<evid, best>>

\* An experiment-level event moves x to status s and the run to its phase.
MoveTo(x, s, upd) ==
    /\ node' = [node EXCEPT ![x] = upd]
    /\ run' = [run EXCEPT !.phase = PhaseOf[s]]

\* The event prefix now records upd about x.
Recorded(x, upd) == evid' = [evid EXCEPT ![x] = upd]

\* The initial coder was granted a retry and has not failed again since.
RetryingInitialCoder(x) ==
    evid[x].recovery = "retry_same_commit" /\ evid[x].failure = "coding"

\* Mutant of CanPatchCreated: a patch is taken in any status.
PatchedInAnyStatus(x) ==
    /\ Researching /\ run.briefed
    /\ node[x].status # "absent"

CanPatchCreated(x) ==
    /\ Researching /\ run.briefed
    /\ \/ node[x].status \in {"proposed", "recovering"}
       \/ node[x].status = "ready_to_run" /\ RetryingInitialCoder(x)

PatchCreated(x) ==
    /\ CanPatchCreated(x)
    /\ node[x].commit < MaxPatches
    /\ MoveTo(x, "patch_ready",
              [node[x] EXCEPT !.status = "patch_ready", !.commit = @ + 1,
                              !.retries = 0])
    /\ UNCHANGED <<evid, best>>

CanPatchChecked(x) == Researching /\ node[x].status = "patch_ready"

PatchChecked(x, accepted) ==
    /\ CanPatchChecked(x)
    /\ LET s == IF accepted THEN "ready_to_run" ELSE "recovering"
       IN  MoveTo(x, s, [node[x] EXCEPT !.status = s])
    /\ Recorded(x, [evid[x] EXCEPT
         !.receipt = [commit |-> node[x].commit, accepted |-> accepted],
         !.failure = IF accepted THEN @ ELSE "patch_rejected"])
    /\ UNCHANGED best

(***************************************************************************)
(* A stopped run executes only the sealed best: its clean reproduction,    *)
(* then inference, then the submission check, each on the previous one's   *)
(* evidence.  Every execution needs the receipt of the commit it runs.     *)
(***************************************************************************)
CanExecutionStarted(x, rq) ==
    /\ \/ Researching /\ node[x].status = "ready_to_run"
       \/ /\ Sealed
          /\ x = best.exp /\ rq.commit = best.commit
          /\ rq.fidelity = "full" /\ rq.command \in FinalCommands
          /\ rq.command = "candidate_final_infer" => evid[x].reproductions # {}
          /\ rq.command = "submission_check" =>
                 evid[x].outputOf = "candidate_final_infer"
    /\ evid[x].receipt = [commit |-> rq.commit, accepted |-> TRUE]

ExecutionStarted(x, rq) ==
    /\ CanExecutionStarted(x, rq)
    /\ MoveTo(x, "running", [node[x] EXCEPT !.status = "running"])
    /\ Recorded(x, [evid[x] EXCEPT !.request = rq, !.finished = "none",
                                   !.output = "none"])
    /\ UNCHANGED best

CanExecutionFinished(x) ==
    (Researching \/ Sealed) /\ node[x].status = "running"

ExecutionFinished(x, success) ==
    /\ CanExecutionFinished(x)
    /\ LET s == IF success THEN "output_ready" ELSE "recovering"
       IN  MoveTo(x, s, [node[x] EXCEPT !.status = s])
    /\ Recorded(x, [evid[x] EXCEPT
         !.finished = IF success THEN "success" ELSE "failed",
         !.failure = IF success THEN @ ELSE "run_failed"])
    /\ UNCHANGED best

CanOutputChecked(x) ==
    /\ Researching \/ Sealed
    /\ node[x].status = "output_ready" /\ evid[x].finished = "success"

OutputChecked(x, accepted) ==
    /\ CanOutputChecked(x)
    /\ LET s == IF accepted THEN "output_verified" ELSE "recovering"
       IN  MoveTo(x, s, [node[x] EXCEPT !.status = s])
    /\ Recorded(x, [evid[x] EXCEPT
         !.output = IF accepted THEN "accepted" ELSE "rejected",
         !.outputOf = IF accepted THEN evid[x].request.command ELSE @,
         !.failure = IF accepted THEN @ ELSE "output_rejected"])
    /\ UNCHANGED best

\* Seed evidence: an earlier full public evaluation of the same commit under
\* another seed.  CONFIRMED trust needs at least one (schemas.py:1160).
HasSeedEvidence(x, rq) ==
    \E e \in evid[x].evals : e.commit = rq.commit /\ e.seed # rq.seed

\* Mutant of CanEvaluationCompleted: lanes in flight are judged after the stop.
JudgedAfterStop(x, trust, index) ==
    LET rq == evid[x].request IN
    /\ Researching \/ Sealed
    /\ node[x].status = "output_verified"
    /\ evid[x].finished = "success" /\ evid[x].output = "accepted"
    /\ rq.fidelity # "smoke"
    /\ index = IF rq.fidelity = "full" THEN run.queries + 1 ELSE 0
    /\ trust = "confirmed" => rq.fidelity = "full" /\ HasSeedEvidence(x, rq)

(***************************************************************************)
(* An evaluation answers the latest request of x, whose execution and      *)
(* output succeeded; a public one carries the next query index.  A         *)
(* verified no-op is a failure to recover from, not a result to decide.    *)
(***************************************************************************)
CanEvaluationCompleted(x, trust, index) ==
    LET rq == evid[x].request IN
    /\ Researching \/ Sealed
    /\ node[x].status = "output_verified"
    /\ evid[x].finished = "success" /\ evid[x].output = "accepted"
    /\ rq.fidelity # "smoke"
    /\ Sealed => rq.command = "clean_reproduce" /\ rq.fidelity = "full"
    /\ index = IF rq.fidelity = "full" THEN run.queries + 1 ELSE 0
    /\ trust = "confirmed" => rq.fidelity = "full" /\ HasSeedEvidence(x, rq)

EvaluationCompleted(x, trust, score, index) ==
    LET rq == evid[x].request
        s == IF trust = "no_op" THEN "recovering" ELSE "evaluated"
        full == rq.fidelity = "full"
        reproduced == /\ full /\ trust \in CleanVerdicts
                      /\ rq.command = "clean_reproduce"
    IN
    /\ CanEvaluationCompleted(x, trust, index)
    /\ run.queries < MaxQueries
    /\ node' = [node EXCEPT ![x] = [node[x] EXCEPT
         !.status = s, !.score = score, !.trust = trust,
         !.fidelity = rq.fidelity]]
    /\ run' = [run EXCEPT !.phase = PhaseOf[s],
                          !.queries = IF full THEN @ + 1 ELSE @]
    /\ Recorded(x, [evid[x] EXCEPT
         !.failure = IF trust = "no_op" THEN "no_op" ELSE @,
         !.evals = IF full
             THEN @ \cup {[commit |-> rq.commit, seed |-> rq.seed]} ELSE @,
         !.reproductions = IF reproduced
             THEN @ \cup {[commit |-> rq.commit, score |-> score]} ELSE @])
    /\ UNCHANGED best

\* The statuses at which an adapter of each stage may be running.
AdapterAt == [coding |-> {"proposed", "recovering"}, patch_gate |-> {"patch_ready"},
              execution |-> {"running"}, output_gate |-> {"output_ready"},
              evaluation |-> {"output_verified", "evaluated"},
              decision |-> {"evaluated"},
              recovery |-> {"recovering"}]

CanAdapterFailed(x, stage) ==
    /\ Researching
    /\ \/ node[x].status \in AdapterAt[stage]
       \/ /\ stage = "coding" /\ node[x].status = "ready_to_run"
          /\ RetryingInitialCoder(x)

AdapterFailed(x, stage) ==
    /\ CanAdapterFailed(x, stage)
    /\ MoveTo(x, "recovering", [node[x] EXCEPT !.status = "recovering"])
    /\ Recorded(x, [evid[x] EXCEPT !.failure = stage])
    /\ UNCHANGED best

\* Mutant of RetryStatus: a retried Gate A is taken to have passed.
GateSkippedOnRetry(f) ==
    CASE f = "coding"      -> "proposed"
      [] f = "output_gate" -> "output_ready"
      [] f = "evaluation"  -> "output_verified"
      [] f = "decision"    -> "evaluated"
      [] OTHER             -> "ready_to_run"

\* Where a granted same-commit retry resumes, by the failure it answers.
RetryStatus(f) ==
    CASE f = "coding"      -> "proposed"
      [] f = "patch_gate"  -> "patch_ready"
      [] f = "output_gate" -> "output_ready"
      [] f = "evaluation"  -> "output_verified"
      [] f = "decision"    -> "evaluated"
      [] OTHER             -> "ready_to_run"

RecoveredStatus(f, action) ==
    CASE action \in {"abandon", "rollback"}              -> "invalid"
      [] action = "return_to_planner"                    -> "no_op"
      [] action = "adjust_approved_runtime_setting"      -> "ready_to_run"
      [] action = "retry_same_commit"                    -> RetryStatus(f)
      [] OTHER                                           -> "recovering"

Lower(a, b) == IF a < b THEN a ELSE b
Higher(a, b) == IF a < b THEN b ELSE a

\* The repair slot a decision must name: the next one, capped at the budget.
RepairAttempt(x) ==
    Lower(Higher(1, node[x].repairs + 1), Higher(1, MaxRepairs))

\* Mutant of CanRecoveryDecided: same-commit retries are not counted.
RetriedWithoutLimit(x, action) ==
    /\ Researching
    /\ node[x].status = "recovering" /\ evid[x].failure # "none"
    /\ MaxRepairs - node[x].repairs
         - (IF action \in CodeActions THEN 1 ELSE 0) >= 0

\* A decision answers the latest failure and fits the remaining budgets
\* (remaining_repair_budget is a natural number, schemas.py:911).
CanRecoveryDecided(x, action) ==
    /\ Researching
    /\ node[x].status = "recovering" /\ evid[x].failure # "none"
    /\ MaxRepairs - node[x].repairs
         - (IF action \in CodeActions THEN 1 ELSE 0) >= 0
    /\ action = "retry_same_commit" => node[x].retries < MaxSameCommitRetries

\* Abandoning clears the active experiment; returning to the planner does not.
RecoveryDecided(x, action) ==
    LET s == RecoveredStatus(evid[x].failure, action) IN
    /\ CanRecoveryDecided(x, action)
    /\ action \in Policy[evid[x].failure]
    /\ node' = [node EXCEPT ![x] = [node[x] EXCEPT
         !.status = s,
         !.repairs = IF action \in CodeActions
                     THEN Higher(@, RepairAttempt(x)) ELSE @,
         !.retries = IF action = "retry_same_commit" THEN @ + 1 ELSE @]]
    /\ run' = [run EXCEPT
         !.phase = PhaseOf[s],
         !.active = IF s = "invalid" THEN NoExp ELSE @]
    /\ Recorded(x, [evid[x] EXCEPT !.recovery = action])
    /\ UNCHANGED best

\* Mutant of CanExperimentDecided: one clean seed makes a candidate eligible.
EligibleOnOneSeed(x, kind, fidelity, eligible, next) ==
    /\ Researching
    /\ IF fidelity = "smoke"
       THEN node[x].status = "output_verified" /\ ~eligible
       ELSE /\ node[x].status = "evaluated" /\ fidelity = node[x].fidelity
            /\ eligible => /\ fidelity = "full" /\ kind = "accept"
                           /\ node[x].trust \in CleanVerdicts
    /\ kind = "promote" =>
         IF fidelity = "full"
         THEN next = "full" /\ node[x].confirms < MaxConfirm
         ELSE FidelityOrder[next] > FidelityOrder[fidelity]

(***************************************************************************)
(* The evaluator's decision.  A smoke decision follows Gate B, any other   *)
(* one the evaluation it cites; eligibility for best needs confirmed clean *)
(* trust at full fidelity; a promotion climbs, or buys a confirmation.     *)
(***************************************************************************)
CanExperimentDecided(x, kind, fidelity, eligible, next) ==
    /\ Researching
    /\ IF fidelity = "smoke"
       THEN node[x].status = "output_verified" /\ ~eligible
       ELSE /\ node[x].status = "evaluated" /\ fidelity = node[x].fidelity
            /\ eligible => /\ fidelity = "full" /\ node[x].trust = "confirmed"
                           /\ kind = "accept"
    /\ kind = "promote" =>
         IF fidelity = "full"
         THEN next = "full" /\ node[x].confirms < MaxConfirm
         ELSE FidelityOrder[next] > FidelityOrder[fidelity]

DecidedStatus == [promote |-> "ready_to_run", accept |-> "accepted",
                  reject |-> "rejected", prune |-> "pruned",
                  invalid |-> "invalid"]

ExperimentDecided(x, kind, fidelity, eligible, next) ==
    LET s == DecidedStatus[kind]
        confirming == kind = "promote" /\ fidelity = "full" /\ next = "full"
    IN
    /\ CanExperimentDecided(x, kind, fidelity, eligible, next)
    /\ node' = [node EXCEPT ![x] = [node[x] EXCEPT
         !.status = s, !.eligible = eligible,
         !.confirms = IF confirming THEN @ + 1 ELSE @]]
    /\ run' = [run EXCEPT
         !.phase = PhaseOf[s],
         !.active = IF kind = "promote" THEN @ ELSE NoExp]
    /\ UNCHANGED <<evid, best>>

CanBestUpdated(x) ==
    /\ Researching
    /\ node[x].status = "accepted" /\ node[x].eligible
    /\ node[x].score > best.score

BestUpdated(x) ==
    /\ CanBestUpdated(x)
    /\ best' = [exp |-> x, commit |-> node[x].commit, score |-> node[x].score]
    /\ run' = [run EXCEPT !.fresh = FALSE]
    /\ UNCHANGED <<node, evid>>

\* Mutant of CanFinalSelected: any reproduction of the commit will do.
SelectedOnAnyScore ==
    /\ Sealed
    /\ \/ best.exp = Baseline
       \/ /\ best.exp \in Exps
          /\ \E r \in evid[best.exp].reproductions : r.commit = best.commit

(***************************************************************************)
(* Final selection names the best and a trusted reproduction of its exact  *)
(* commit and score; the baseline is its own reproduction.                 *)
(***************************************************************************)
CanFinalSelected ==
    /\ Sealed
    /\ \/ best.exp = Baseline
       \/ /\ best.exp \in Exps
          /\ [commit |-> best.commit, score |-> best.score]
                 \in evid[best.exp].reproductions

FinalSelected ==
    /\ CanFinalSelected
    /\ run' = [run EXCEPT !.status = "finalizing", !.phase = "submission"]
    /\ UNCHANGED <<node, evid, best>>

SubmissionChecked(accepted) ==
    /\ run.status = "finalizing"
    /\ run' = [run EXCEPT
         !.status = IF accepted THEN "finalized" ELSE "failed",
         !.phase = IF accepted THEN "finalized" ELSE "failed"]
    /\ UNCHANGED <<node, evid, best>>

-----------------------------------------------------------------------------
\* Research runs use one command per fidelity, and a seed of the schedule
\* where the fidelity is full; finalization runs are always full.
Requests ==
    {rq \in [commit : 1..MaxPatches, fidelity : Fidelities,
             command : Commands, seed : Seeds \cup {0}] :
        /\ rq.seed = 0 <=> rq.fidelity # "full"
        /\ rq.command \in FinalCommands => rq.fidelity = "full"}

RunEvent ==
    \/ RunStarted \/ ContractVerified \/ BaselineVerified
    \/ \E role \in Roles : ContextCreated(role)
    \/ PlannerRecommended \/ PlanningFailed
    \/ \E reason \in {"experiment_budget", "fatal_integrity"} : RunStopped(reason)
    \/ FinalSelected
    \/ \E accepted \in BOOLEAN : SubmissionChecked(accepted)

WorkEvent(x) ==
    \/ \E k \in Keys, parent \in Exps \cup {Baseline} :
          x # parent /\ ExperimentProposed(x, k, parent)
    \/ PatchCreated(x)
    \/ \E accepted \in BOOLEAN : PatchChecked(x, accepted)
    \/ \E rq \in Requests :
          /\ rq.command = "candidate" <=> ~Sealed
          /\ ExecutionStarted(x, rq)
    \/ \E success \in BOOLEAN : ExecutionFinished(x, success)
    \/ \E accepted \in BOOLEAN : OutputChecked(x, accepted)

JudgeEvent(x) ==
    \/ \E trust \in Trusts, score \in Scores, index \in 0..MaxQueries :
          EvaluationCompleted(x, trust, score, index)
    \/ \E stage \in AdapterStages : AdapterFailed(x, stage)
    \/ \E action \in RecoveryActions : RecoveryDecided(x, action)
    \/ \E kind \in DecisionKinds, fidelity, next \in Fidelities,
          eligible \in BOOLEAN :
          ExperimentDecided(x, kind, fidelity, eligible, next)
    \/ BestUpdated(x)

Next == RunEvent \/ \E x \in Exps : WorkEvent(x) \/ JudgeEvent(x)

Spec == Init /\ [][Next]_vars

-----------------------------------------------------------------------------
(***************************************************************************)
(* Properties.                                                             *)
(***************************************************************************)
Commits == 0..MaxPatches
Phases == {"not_started", "contract_verification", "baseline", "planning",
           "planner_context", "worker_context", "planning_failure", "coding",
           "patch_gate", "execution", "running", "output_gate", "evaluation",
           "decision", "recovery", "stopped", "failed", "submission", "finalized"}
RunType ==
    [status : RunStatuses, phase : Phases, active : Exps \cup {NoExp},
     context : Roles \cup {"none"}, briefed : BOOLEAN, fresh : BOOLEAN,
     queries : 0..MaxQueries]
BestType ==
    [exp : Exps \cup {Baseline, NoExp}, commit : Commits,
     score : Scores \cup {BaselineScore}]
Receipts == [commit : Commits, accepted : BOOLEAN]
NodeType ==
    [status : ExperimentStatuses, key : Keys, parent : Exps \cup {Baseline},
     commit : Commits, repairs : 0..MaxRepairs,
     retries : 0..MaxSameCommitRetries, confirms : 0..MaxConfirm,
     eligible : BOOLEAN, score : Scores \cup {BaselineScore}, trust : Trusts,
     fidelity : Fidelities]
EvidenceType ==
    [receipt : Receipts,
     request : [commit : Commits, fidelity : Fidelities, command : Commands,
                seed : Seeds \cup {0}],
     finished : {"none", "success", "failed"},
     output : {"none", "accepted", "rejected"},
     outputOf : Commands \cup {"none"},
     failure : Failures \cup {"none"},
     recovery : RecoveryActions \cup {"none"},
     evals : SUBSET [commit : Commits, seed : Seeds \cup {0}],
     reproductions : SUBSET [commit : Commits, score : Scores]]

\* The projection's fields keep their ranges: in particular an experiment never
\* holds more repairs, same-commit retries or confirmations than its budgets.
TypeOK ==
    /\ run \in RunType
    /\ node \in [Exps -> NodeType]
    /\ evid \in [Exps -> EvidenceType]
    /\ best \in BestType

\* Only the exact commit Gate A accepted is ever run, judged or held: while an
\* experiment is past Gate A its latest commit, the commit of its last request
\* and the commit of its accepted receipt are one.
Gated(x) == evid[x].receipt = [commit |-> node[x].commit, accepted |-> TRUE]
PastStart == {"running", "output_ready", "output_verified", "evaluated"}
OnlyGatedCommitsRun ==
    \A x \in Exps :
        /\ node[x].status \in {"ready_to_run", "accepted"} \cup PastStart => Gated(x)
        /\ node[x].status \in PastStart =>
               evid[x].request.commit = node[x].commit

\* Two evaluations of commit c of x used distinct seeds.
TwoSeeds(x, c) ==
    \E e, f \in evid[x].evals : e.commit = c /\ f.commit = c /\ e.seed # f.seed

\* The incumbent was verified and stays what was verified: its commit is its
\* experiment's only current commit, holds the accepted receipt and two
\* evaluations under distinct seeds, and until the run stops the experiment
\* keeps the verdict and the score that made it the incumbent.
BestIsVerified ==
    best.exp \in Exps =>
        /\ Gated(best.exp) /\ best.commit = node[best.exp].commit
        /\ TwoSeeds(best.exp, best.commit)
        /\ Accepting => /\ node[best.exp].status = "accepted"
                        /\ node[best.exp].score = best.score

\* Nothing is selected but the baseline or a commit that was gated and whose
\* recorded best score a clean run reproduced exactly.
FinalIsReproduced ==
    run.status \in {"finalizing", "finalized"} =>
        \/ best.exp = Baseline
        \/ /\ Gated(best.exp) /\ best.commit = node[best.exp].commit
           /\ [commit |-> best.commit, score |-> best.score]
                  \in evid[best.exp].reproductions

\* A duplicate key is spent on at most three experiments, and never on a second
\* one while another is under way or has produced evidence.
KeysAreSpentOnce ==
    \A k \in Keys :
        /\ Cardinality(SameKey(k)) <= MaxAttemptsPerKey
        /\ \A x, y \in SameKey(k) :
              x = y \/ node[x].status \in {"invalid", "no_op"}
                    \/ node[y].status \in {"invalid", "no_op"}

\* A closed experiment is never reopened: only finalization, and only for the
\* incumbent, moves an experiment that research has closed.
ClosedStaysClosed ==
    [][\A x \in Exps :
          node[x].status \in Closed /\ (Researching \/ x # best.exp)
              => node'[x] = node[x]]_vars

\* Once the run has stopped the incumbent is final, and the evaluator is asked
\* only about its commit: a lane that was still running when the run stopped may
\* finish, but never spends another public query.
SealedQueries ==
    [][Sealed =>
          /\ best' = best
          /\ run'.queries # run.queries =>
                /\ best.exp \in Exps
                /\ evid[best.exp].request.commit = best.commit
                /\ \A x \in Exps \ {best.exp} : evid'[x] = evid[x]]_vars
=============================================================================
