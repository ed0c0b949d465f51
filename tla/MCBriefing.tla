----------------------------- MODULE MCBriefing -----------------------------
(* Instances of Briefing.                                                    *)
EXTENDS Briefing

\* What recovery/policy.py answers to the failures the adapters report: only
\* gate results, never an exception, are the candidate's own fault.
ReportedPolicy ==
    [f \in Failures |->
        CASE f = "run_failed" ->
                 {"adjust_approved_runtime_setting", "rollback", "trae_repair",
                  "retry_same_commit", "abandon"}
          [] f \in {"patch_rejected", "output_rejected"} ->
                 {"restart_from_trusted_parent", "trae_repair", "abandon"}
          [] f = "no_op"    -> {"trae_repair", "return_to_planner", "abandon"}
          [] f = "recovery" -> {"abandon"}
          [] f = "coding"   -> {"retry_same_commit", "return_to_planner", "abandon"}
          [] OTHER          -> {"retry_same_commit", "abandon"}]
=============================================================================
