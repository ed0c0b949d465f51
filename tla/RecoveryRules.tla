--------------------------- MODULE RecoveryRules ---------------------------
(***************************************************************************)
(* The deterministic recovery policy: how a failure is classified          *)
(* (recovery/classifier.py) and which one action answers it                *)
(* (recovery/policy.py), as operators over abstract failures.              *)
(*                                                                         *)
(* A failure is described by what the classifier recognises in it: where   *)
(* it was raised, its outcome, the class of its error code, the class of   *)
(* its text and, for a gate rejection, the kinds of violations it lists.   *)
(***************************************************************************)
EXTENDS Integers

CONSTANT Allowed    \* the runtime adjustments the run configuration approves

ApprovedAdjustments ==
    {"batch_size", "num_workers", "mixed_precision", "timeout_profile"}

ASSUME AllowedAssumption == Allowed \subseteq ApprovedAdjustments

\* MAX_SAME_COMMIT_RETRIES of recovery/policy.py; the ledger's validator has its
\* own copy (Lifecycle's MaxSameCommitRetries).
MaxTransientRetries == 2

Stages == {"coding", "patch_gate", "execution", "output_gate", "evaluation",
           "recovery"}
Outcomes == {"code_error", "interface_error", "contract_error",
             "numerical_error", "oom", "timeout", "hang", "infrastructure_error"}

\* Error codes by the set of the classifier they belong to; "worker" stands for
\* the transient and the correctable codes of the coding agent.
Codes == {"plain", "provider", "verifier", "worker", "disk", "candidate"}
\* What the text of the evidence gives away.
Texts == {"plain", "progress", "sensitive", "disk", "verifier"}
\* Violation codes of a gate rejection; with none it is a plain defect.
Findings == {"candidate", "secret", "invariant"}

-----------------------------------------------------------------------------
(***************************************************************************)
(* Failures.                                                               *)
(***************************************************************************)
\* The outcome _record_adapter_failure gives an exception raised at each stage.
AdapterOutcome ==
    [coding |-> "code_error", patch_gate |-> "code_error",
     execution |-> "infrastructure_error", output_gate |-> "interface_error",
     evaluation |-> "infrastructure_error", recovery |-> "infrastructure_error"]

AdapterFailures(stage) ==
    [origin : {"adapter"}, stage : {stage}, outcome : {AdapterOutcome[stage]},
     code : Codes, text : Texts, findings : {{}}]

RunFailures ==
    [origin : {"run"}, stage : {"none"}, outcome : Outcomes,
     code : {"plain", "disk"}, text : Texts \ {"verifier"}, findings : {{}}]

GateRejections(origin) ==
    [origin : {origin}, stage : {"none"}, outcome : {"none"}, code : {"plain"},
     text : {"plain", "sensitive"}, findings : SUBSET Findings]

NoOpEvaluations ==
    [origin : {"evaluation"}, stage : {"none"}, outcome : {"none"},
     code : {"plain"}, text : {"plain"}, findings : {{}}]

\* The failures the ledger records under each of Lifecycle's failure names; an
\* evaluation-stage failure of the decider is one of the evaluator.
FailuresOf(name) ==
    CASE name = "patch_rejected"  -> GateRejections("patch_check")
      [] name = "output_rejected" -> GateRejections("output_check")
      [] name = "run_failed"      -> RunFailures
      [] name = "no_op"           -> NoOpEvaluations
      [] name = "decision"        -> AdapterFailures("evaluation")
      [] name \in Stages          -> AdapterFailures(name)

LedgerNames == Stages \cup
    {"decision", "patch_rejected", "run_failed", "output_rejected", "no_op"}

AllFailures == UNION {FailuresOf(name) : name \in LedgerNames}

-----------------------------------------------------------------------------
(***************************************************************************)
(* Classification.                                                         *)
(***************************************************************************)
CandidateIntegrity(f) == f.code = "candidate" \/ "candidate" \in f.findings

\* Candidate-scoped codes count as deliberate too; the routes try them first.
Deliberate(f) ==
    f.text = "sensitive" \/ "secret" \in f.findings \/ CandidateIntegrity(f)

DiskExhausted(f) == f.code = "disk" \/ f.text = "disk"

\* The verifier's own protocol failed, or its provider did: it has already
\* spent its retries.
VerifierExhausted(f) ==
    f.code = "verifier" \/ (f.code = "provider" /\ f.text = "verifier")

FailureClass(f) ==
    IF f.origin = "evaluation" THEN "no_op"
    ELSE IF VerifierExhausted(f) THEN "infrastructure_error"
    ELSE IF f.stage # "coding" /\ DiskExhausted(f) THEN "infrastructure_error"
    ELSE IF f.outcome = "none" THEN "gate_rejection"
    ELSE f.outcome

\* The failing component may be asked once more for the same thing.
OwnerRetryable(f) ==
    /\ ~CandidateIntegrity(f) /\ ~Deliberate(f) /\ ~DiskExhausted(f)
    /\ "invariant" \notin f.findings
    /\ \/ f.code = "provider" /\ f.text # "verifier"
       \/ f.code = "worker" /\ f.stage = "coding"
       \/ /\ f.stage = "execution"
          /\ FailureClass(f) \in {"infrastructure_error", "hang", "timeout"}

\* Not evidence about the candidate but about the controller or its gates.
ControlPlane(f) ==
    \/ f.stage = "recovery" \/ "invariant" \in f.findings
    \/ f.stage \in {"patch_gate", "output_gate", "evaluation"} /\ ~OwnerRetryable(f)

\* A typed result shows a defect of the candidate's code.
CodeDefect(f) ==
    /\ ~Deliberate(f) /\ ~DiskExhausted(f) /\ "invariant" \notin f.findings
    /\ \/ f.origin \in {"patch_check", "output_check", "evaluation"}
       \/ /\ f.origin = "run"
          /\ f.outcome \in {"code_error", "interface_error", "contract_error",
                            "numerical_error"}

\* What _route reads of a failure: the classification and context.failure_stage.
Classify(f) ==
    [class |-> FailureClass(f),
     coding |-> f.stage = "coding",
     candidate |-> CandidateIntegrity(f),
     deliberate |-> Deliberate(f),
     disk |-> DiskExhausted(f),
     control |-> ControlPlane(f),
     verifier |-> VerifierExhausted(f) /\ ~Deliberate(f) /\ ~DiskExhausted(f)
                  /\ ~(f.stage = "execution"),
     retryable |-> OwnerRetryable(f),
     defect |-> CodeDefect(f),
     progress |-> f.text = "progress"]

-----------------------------------------------------------------------------
(***************************************************************************)
(* Routing.  A context holds what the experiment has spent: repairs used,  *)
(* the repairs left, same-commit retries since the last patch, whether the *)
(* failure repeats an earlier fingerprint (again), whether a wiring repair *)
(* was already ordered, the settings in force, and the run budgets that    *)
(* are exhausted.                                                          *)
(***************************************************************************)
Dimensions == {"experiments", "resources"}

Contexts(maxRepairs) ==
    {c \in [used : 0..maxRepairs, left : 0..maxRepairs,
            retries : 0..MaxTransientRetries, again : BOOLEAN,
            wiring : BOOLEAN, settings : SUBSET Allowed,
            spent : SUBSET Dimensions] : c.left = maxRepairs - c.used}

Abandon == "abandon"

\* The approved settings that may still answer a failure of this class; the
\* first in the policy's order of preference is applied.
AdjustmentFor(class, settings) ==
    (CASE class = "oom" -> {"batch_size", "num_workers", "mixed_precision"}
       [] class = "numerical_error" -> {"mixed_precision"}
       [] class = "timeout" -> {"timeout_profile"}
       [] OTHER -> {}) \cap (Allowed \ settings)

Preference == <<"batch_size", "num_workers", "mixed_precision", "timeout_profile">>

SelectedAdjustment(class, settings) ==
    LET open == {i \in 1..4 : Preference[i] \in AdjustmentFor(class, settings)}
    IN  Preference[CHOOSE i \in open : \A j \in open : i <= j]

\* A candidate that crossed a boundary is thrown away and coded afresh.
CandidateRoute(c) ==
    IF c.again \/ c.left <= 0 THEN Abandon ELSE "restart_from_trusted_parent"

NoOpRoute(c) ==
    IF c.again \/ c.left <= 0 THEN "return_to_planner" ELSE "trae_repair"

OwnerRoute(c) ==
    IF c.again \/ c.retries >= 1 THEN Abandon ELSE "retry_same_commit"

TransientRoute(c) ==
    IF c.retries < MaxTransientRetries THEN "retry_same_commit" ELSE Abandon

\* Failures of a sealed run: adjust, retry on progress, or have the code repaired.
RunRoute(k, c) ==
    IF AdjustmentFor(k.class, c.settings) # {} THEN "adjust_approved_runtime_setting"
    ELSE IF k.class = "oom" THEN "rollback"
    ELSE IF k.class = "timeout" THEN
             IF k.progress THEN TransientRoute(c) ELSE Abandon
    ELSE IF c.left > 0 /\ k.defect THEN "trae_repair"
    ELSE Abandon

\* The routes in the order _route tries them.
Route(k, c) ==
    IF k.candidate THEN CandidateRoute(c)
    ELSE IF k.deliberate \/ k.disk \/ c.spent # {} \/ k.control \/ k.verifier
         THEN Abandon
    ELSE IF k.class = "no_op" THEN NoOpRoute(c)
    ELSE IF k.coding /\ c.wiring THEN "return_to_planner"
    ELSE IF k.retryable THEN OwnerRoute(c)
    ELSE IF k.class \in {"infrastructure_error", "hang"} THEN TransientRoute(c)
    ELSE IF c.again \/ k.coding THEN Abandon
    ELSE RunRoute(k, c)

\* The actions the policy may answer a ledger failure with.
RoutedTo(name, maxRepairs) ==
    {Route(k, c) : k \in {Classify(f) : f \in FailuresOf(name)},
                   c \in Contexts(maxRepairs)}
=============================================================================
