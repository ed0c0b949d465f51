----------------------------- MODULE MCHarness -----------------------------
(***************************************************************************)
(* Model-checking instances of Harness.                                    *)
(***************************************************************************)
EXTENDS Harness, TLC

\* What recovery/policy.py routes each failure to (HarnessAssumption compares it
\* with RoutedTo).
RoutedPolicy ==
    [f \in Failures |->
        CASE f = "run_failed" ->
                 {"adjust_approved_runtime_setting", "rollback", "trae_repair",
                  "retry_same_commit", "abandon"}
          [] f \in {"patch_rejected", "output_rejected"} ->
                 {"restart_from_trusted_parent", "trae_repair", "abandon"}
          [] f = "no_op"    -> {"trae_repair", "return_to_planner", "abandon"}
          [] f = "recovery" -> {"restart_from_trusted_parent", "abandon"}
          [] f = "coding"   -> {"restart_from_trusted_parent", "retry_same_commit",
                                "return_to_planner", "abandon"}
          [] OTHER          -> {"restart_from_trusted_parent", "retry_same_commit",
                                "abandon"}]

\* The classifications of the failures of a name that satisfy the description.
Select(names, Fits(_)) ==
    [n \in LedgerNames |->
        IF n \in names THEN {Classify(f) : f \in {g \in FailuresOf(n) : Fits(g)}}
        ELSE {}]

Plain(f) == f.code = "plain" /\ f.text = "plain" /\ f.findings = {}
Transient(f) == f.code = "provider" /\ f.text = "plain"

\* One failure of every kind the policy tells apart.
Telling(f) ==
    \/ f.text = "plain" /\ f.code \in {"plain", "provider", "disk"} /\ f.findings = {}
    \/ f.text = "plain" /\ f.code = "candidate"
    \/ f.text = "plain" /\ f.findings \in {{"candidate"}, {"invariant"}}
    \/ f.text = "sensitive" /\ f.code = "plain" /\ f.findings = {}
    \/ f.text = "progress" /\ f.code = "plain" /\ f.outcome = "timeout"

\* What the adapters in the repository report: only gate results, never an
\* exception, carry a candidate-scoped code.
ReportedFaults ==
    Select(LedgerNames, LAMBDA f : Telling(f) /\ f.code # "candidate")

\* Failures of every owner a parallel lane may meet, one of each answer, and a
\* breach at Gate A that stops the run.
LaneFaults ==
    Select({"coding", "patch_gate", "patch_rejected", "evaluation"},
        LAMBDA f :
            \/ Transient(f)
            \/ Plain(f) /\ f.stage # "evaluation"
            \/ f.text = "sensitive" /\ f.findings = {} /\ f.stage = "none")

HSymmetry == Permutations(Exps) \cup Permutations(Keys)
=============================================================================
