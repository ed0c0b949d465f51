------------------------------ MODULE Briefing ------------------------------
(***************************************************************************)
(* What the controller tells its workers: the recovery context a repair    *)
(* prompt is built from, and the planner's summary of closed experiments   *)
(* with the portfolio it offers for refinement and synthesis.  Both read   *)
(* the newest event of each type, over the ledger of Lifecycle and in the  *)
(* order in which the lane repairs (router._recover, _execute_code_repair):*)
(* a failure, the context, the decision, and at most one repeated order.   *)
(***************************************************************************)
EXTENDS Lifecycle

(***************************************************************************)
(* The configuration allows two repairs at most (config.py, le=2).  Of the *)
(* failures the adapters report, the policy answers by a code repair only  *)
(* results of the candidate's own, and by a return to the planner only a   *)
(* no-op and the failure of its repair (recovery/policy.py, _route).       *)
(***************************************************************************)
ASSUME BriefingAssumption ==
    /\ MaxRepairs <= 2
    /\ \A f \in Failures :
         /\ Policy[f] \cap CodeActions # {} =>
                f \in {"run_failed", "patch_rejected", "output_rejected", "no_op"}
         /\ "return_to_planner" \in Policy[f] => f \in {"no_op", "coding"}

VARIABLES told,   \* told[x]: the newest event of each type about x, and its order
          brief   \* brief[x]: the last recovery context of x

briefingVars == <<run, node, evid, best, told, brief>>

(***************************************************************************)
(* The order of a repair: "new" once decided, "failed" when its worker has *)
(* failed, "again" when the one retry is granted, "over" when no worker is *)
(* to be called any more.                                                  *)
(***************************************************************************)
Orders == {"new", "again"}
NewTold ==
    [receipt |-> 0, checked |-> "none", judged |-> 0, decided |-> "none",
     wired |-> FALSE, order |-> "none"]
NoBrief == [commit |-> 0, left |-> 0, gateA |-> FALSE, receipt |-> 0]

BriefingInit ==
    /\ Init
    /\ told = [x \in Exps |-> NewTold]
    /\ brief = [x \in Exps |-> NoBrief]

----------------------------------------------------------------------------
(* Contexts and prompts.                                                   *)

\* Mutant of ReceiptFor: a Gate A rejection is shown the older receipt
NewestReceipt(x) == told[x].receipt

\* The newest accepted receipt, unless Gate A itself rejected or failed.
ReceiptFor(x) ==
    IF evid[x].failure \in {"patch_rejected", "patch_gate"} THEN 0 ELSE told[x].receipt

\* Only a PATCH_CHECKED result carries Gate A's checks; an adapter failure none.
RecoveryContext(x) ==
    [commit |-> node[x].commit, left |-> MaxRepairs - node[x].repairs,
     gateA |-> evid[x].failure = "patch_rejected", receipt |-> ReceiptFor(x)]

\* build_repair_prompt: a budget, and a receipt exactly past Gate A.
PromptAccepts(c) == c.left >= 1 /\ (c.gateA <=> c.receipt = 0)

----------------------------------------------------------------------------
(* The planner's summary of an experiment and its search eligibility.      *)

Judged(x) == told[x].judged # 0

\* Mutant of Barred: an invalid experiment keeps its place
BarredWhileValid(x) ==
    \/ told[x].checked = "rejected"
    \/ Judged(x) /\ node[x].trust = "no_op"
    \/ told[x].decided = "invalid"

\* Rejected outputs, no-ops and invalid experiments leave the search.
Barred(x) ==
    \/ told[x].checked = "rejected"
    \/ Judged(x) /\ node[x].trust = "no_op"
    \/ node[x].status = "invalid" \/ told[x].decided = "invalid"

\* The last decision is the research outcome: a smoke promotion is none.
Branches(x) == told[x].decided = "accept"

\* What may be refined or combined, the deltas left open.
Soft(x) == told[x].checked = "accepted" /\ Judged(x) /\ node[x].trust # "doubtful"

Offered(x) == ~Barred(x) /\ (Branches(x) \/ Soft(x))

\* build_coder: a component's last patch has an accepted receipt.
ComponentFound(x) == told[x].receipt = node[x].commit

----------------------------------------------------------------------------
(* The lane's events.                                                      *)

Tells(x, r) == told' = [told EXCEPT ![x] = r]
Silent == UNCHANGED <<told, brief>>

\* A repair needs an order whose prompt can be built.
Patched(x) ==
    /\ told[x].order \notin {"failed", "over"}
    /\ node[x].status = "recovering" => told[x].order \in Orders
    /\ told[x].order \in Orders => PromptAccepts(brief[x])
    /\ PatchCreated(x)
    /\ Tells(x, [told[x] EXCEPT !.order = "none"])
    /\ UNCHANGED brief

\* The worker fails, or refuses a prompt that cannot be built.
CoderFails(x) ==
    /\ told[x].order \in Orders \cup {"none"}
    /\ node[x].status = "recovering" => told[x].order \in Orders
    /\ AdapterFailed(x, "coding")
    /\ Tells(x, [told[x] EXCEPT !.order =
           CASE @ = "new" -> "failed" [] @ = "again" -> "over" [] OTHER -> @])
    /\ UNCHANGED brief

OtherFails(x, stage) ==
    /\ stage # "coding" /\ told[x].order \notin Orders
    /\ AdapterFailed(x, stage)
    /\ Tells(x, [told[x] EXCEPT !.order = IF stage = "recovery" THEN "over" ELSE @])
    /\ UNCHANGED brief

OrderAfter(x, action) ==
    CASE told[x].order = "over" -> "over"
      [] told[x].order = "failed" ->
             IF action = "retry_same_commit" THEN "again" ELSE "over"
      [] OTHER -> IF action \in CodeActions THEN "new" ELSE "none"

\* Only the coder of a wiring repair is answered by a return to the planner.
Recovered(x, action) ==
    /\ told[x].order \notin Orders
    /\ evid[x].failure = "coding" =>
           /\ action = "return_to_planner" => told[x].wired
           /\ action = "retry_same_commit" => ~told[x].wired
    /\ RecoveryDecided(x, action)
    /\ brief' = [brief EXCEPT ![x] = RecoveryContext(x)]
    /\ Tells(x, [told[x] EXCEPT
           !.order = OrderAfter(x, action),
           !.wired = @ \/ (evid[x].failure = "no_op" /\ action = "trae_repair")])

Checked(x, accepted) ==
    /\ PatchChecked(x, accepted)
    /\ Tells(x, [told[x] EXCEPT !.receipt = IF accepted THEN node[x].commit ELSE @])
    /\ UNCHANGED brief

Verified(x, accepted) ==
    /\ OutputChecked(x, accepted)
    /\ Tells(x, [told[x] EXCEPT !.checked = IF accepted THEN "accepted" ELSE "rejected"])
    /\ UNCHANGED brief

Scored(x, trust, score, index) ==
    /\ EvaluationCompleted(x, trust, score, index)
    /\ Tells(x, [told[x] EXCEPT !.judged = evid[x].request.commit])
    /\ UNCHANGED brief

\* A smoke run is promoted, or abandoned without an evaluation.
Decided(x, kind, fidelity, eligible, next) ==
    /\ fidelity = "smoke" =>
           /\ kind \in {"promote", "invalid"} /\ evid[x].request.fidelity = "smoke"
    /\ ExperimentDecided(x, kind, fidelity, eligible, next)
    /\ Tells(x, [told[x] EXCEPT !.decided = IF fidelity = "smoke" THEN @ ELSE kind])
    /\ UNCHANGED brief

BriefedWork(x) ==
    \/ \E k \in Keys, parent \in Exps \cup {Baseline} :
          x # parent /\ ExperimentProposed(x, k, parent) /\ Silent
    \/ Patched(x) \/ CoderFails(x)
    \/ \E accepted \in BOOLEAN : Checked(x, accepted) \/ Verified(x, accepted)
    \/ \E rq \in Requests :
          /\ rq.command = "candidate" <=> ~Sealed
          /\ ExecutionStarted(x, rq) /\ Silent
    \/ \E success \in BOOLEAN : ExecutionFinished(x, success) /\ Silent
\* best.updated is left out: no recovery context and no eligibility reads the best.
BriefedJudging(x) ==
    \/ \E trust \in Trusts, score \in Scores, index \in 0..MaxQueries :
          Scored(x, trust, score, index)
    \/ \E stage \in AdapterStages : OtherFails(x, stage)
    \/ \E action \in RecoveryActions : Recovered(x, action)
    \/ \E kind \in DecisionKinds, fidelity, next \in Fidelities, eligible \in BOOLEAN :
          Decided(x, kind, fidelity, eligible, next)

\* The planner is asked between rounds; while an experiment is under way the
\* run's own events are the workers' contexts and a stop.
BetweenRounds == \A x \in Exps : node[x].status \notin Live
RunGoesOn ==
    /\ RunEvent /\ Silent
    /\ BetweenRounds \/ run'.context = "worker" \/ ~(run'.status \in {"ready", "running"})

BriefingNext ==
    \/ RunGoesOn
    \/ \E x \in Exps : BriefedWork(x) \/ BriefedJudging(x)
BriefingSpec == BriefingInit /\ [][BriefingNext]_briefingVars

----------------------------------------------------------------------------
(* Properties.                                                             *)

\* Every code repair the policy orders can be briefed: its budget is there,
\* and it shows the receipt of the very commit it is to repair, or none when
\* Gate A refused that commit (build_recovery, build_repair_prompt).
OrdersCanBeBriefed ==
    \A x \in Exps : told[x].order = "new" =>
        /\ PromptAccepts(brief[x])
        /\ brief[x].receipt \in {0, node[x].commit}

\* What the planner may branch from, refine or combine is one commit: the
\* last one created is the last one gated and the one its evidence is about,
\* so the coder of a synthesis always finds a component's patch and receipt
\* (classify_search_eligibility, build_coder).
PortfolioRestsOnItsCommit ==
    \A x \in Exps :
        Researching /\ node[x].status \in Closed /\ Offered(x) =>
            told[x].judged = node[x].commit /\ ComponentFound(x)

\* router._execute_code_repair: "honor exactly one policy-granted same-commit
\* retry of the same repair": the retry's context, too, makes a prompt.
GrantedRetriesCanBeBriefed ==
    \A x \in Exps : told[x].order = "again" => PromptAccepts(brief[x])
=============================================================================
