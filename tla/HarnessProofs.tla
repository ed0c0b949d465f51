--------------------------- MODULE HarnessProofs ---------------------------
(***************************************************************************)
(* The research loop of Harness implements the ledger of Lifecycle, and    *)
(* keeps its promises for any number of experiments and parallel lanes,    *)
(* any policy, plan of failures, budget and number of crashes.             *)
(*                                                                         *)
(* The invariant HInv says, of every lane, what _run_one_experiment relies *)
(* on without checking it: that its experiment is where its next call      *)
(* belongs (AgreesAt), that the failure the policy is asked about is the   *)
(* one the ledger would let it answer (FailureIsAtHand), that the plan     *)
(* left to it is the plan after its last request (StagesFollowPlan), and   *)
(* that the repair worker's own failure is not taken for an earlier one    *)
(* (CodingUnrecorded).  StepSound is what one step of a lane must          *)
(* establish; there is one lemma per action that it does, and StepKeeps    *)
(* carries it to the lanes beside it.                                      *)
(*                                                                         *)
(* Of rounds of one lane, RoundInv adds that the lane at work holds the    *)
(* only open experiment, and that whatever ends it has closed that         *)
(* experiment or stopped the run (StepCloses).                             *)
(***************************************************************************)
EXTENDS Harness, LifecycleProofs, SequenceTheorems, FiniteSetTheorems

-----------------------------------------------------------------------------
(***************************************************************************)
(* The recovery policy, for every failure, context and budget: the ledger  *)
(* admits whatever it answers, and it satisfies what Lifecycle and         *)
(* Briefing assume of a policy.                                            *)
(***************************************************************************)
\* The routes of a run failure: code is repaired only while a repair is left,
\* and a commit is rerun only while the ledger's retry limit allows it.
LEMMA RunRouteFits ==
    ASSUME NEW k, NEW c
    PROVE  /\ RunRoute(k, c) \in CodeActions => c.left > 0
           /\ RunRoute(k, c) = "retry_same_commit" => c.retries < MaxTransientRetries
  BY DEF RunRoute, TransientRoute, CodeActions, Abandon

\* Every route of _route keeps to the two budgets the ledger checks.
LEMMA RouteFits ==
    ASSUME NEW k, NEW c, c.left \in Int, c.retries \in Int
    PROVE  /\ Route(k, c) \in CodeActions => c.left > 0
           /\ Route(k, c) = "retry_same_commit" => c.retries < MaxTransientRetries
<1>1. CASE k.candidate
  BY <1>1 DEF Route, CandidateRoute, CodeActions, Abandon
<1>2. CASE ~k.candidate /\ (k.deliberate \/ k.disk \/ c.spent # {} \/ k.control \/ k.verifier)
  BY <1>2 DEF Route, CodeActions, Abandon
<1>3. CASE /\ ~k.candidate
           /\ ~(k.deliberate \/ k.disk \/ c.spent # {} \/ k.control \/ k.verifier)
  <2>1. CASE k.class = "no_op"
    BY <1>3, <2>1 DEF Route, NoOpRoute, CodeActions
  <2>2. CASE k.class # "no_op" /\ (k.coding /\ c.wiring)
    BY <1>3, <2>2 DEF Route, CodeActions
  <2>3. CASE k.class # "no_op" /\ ~(k.coding /\ c.wiring) /\ k.retryable
    BY <1>3, <2>3 DEF Route, OwnerRoute, CodeActions, Abandon, MaxTransientRetries
  <2>4. CASE k.class # "no_op" /\ ~(k.coding /\ c.wiring) /\ ~k.retryable
    <3>1. CASE k.class \in {"infrastructure_error", "hang"}
      BY <1>3, <2>4, <3>1 DEF Route, TransientRoute, CodeActions, Abandon
    <3>2. CASE k.class \notin {"infrastructure_error", "hang"} /\ (c.again \/ k.coding)
      BY <1>3, <2>4, <3>2 DEF Route, CodeActions, Abandon
    <3>3. CASE k.class \notin {"infrastructure_error", "hang"} /\ ~(c.again \/ k.coding)
      <4>1. Route(k, c) = RunRoute(k, c)
        BY <1>3, <2>4, <3>3 DEF Route
      <4> QED BY <4>1, RunRouteFits
    <3> QED BY <3>1, <3>2, <3>3
  <2> QED BY <2>1, <2>2, <2>3, <2>4
<1> QED BY <1>1, <1>2, <1>3

\* The ledger never refuses the policy's answer: whatever the failure, the repairs
\* and retries the projection has left admit the action routed to, so the policy's
\* own counters and the validator's (state_machine.py:456) cannot drift apart.
THEOREM AnswersAreAdmitted ==
    ASSUME TypeOK, NEW x \in Exps, NEW k, Researching,
           node[x].status = "recovering", evid[x].failure # "none"
    PROVE  CanRecoveryDecided(x, Route(k, Context(x)))
<1> DEFINE c == Context(x)
           action == Route(k, c)
<1>1. /\ node[x].repairs \in 0..MaxRepairs
      /\ node[x].retries \in 0..MaxSameCommitRetries
      /\ MaxRepairs \in Nat
  BY BoundsAssumption DEF TypeOK, NodeType
<1>2. c.left = MaxRepairs - node[x].repairs /\ c.retries = node[x].retries
  BY DEF Context
<1>3. c.left \in Int /\ c.retries \in Int
  BY <1>1, <1>2 DEF MaxSameCommitRetries
<1> HIDE DEF c
<1>4. /\ action \in CodeActions => c.left > 0
      /\ action = "retry_same_commit" => c.retries < MaxTransientRetries
  BY <1>3, RouteFits
<1> HIDE DEF action
<1>5. MaxRepairs - node[x].repairs - (IF action \in CodeActions THEN 1 ELSE 0) >= 0
  BY <1>1, <1>2, <1>4
<1>6. action = "retry_same_commit" => node[x].retries < MaxSameCommitRetries
  BY <1>2, <1>4 DEF MaxTransientRetries, MaxSameCommitRetries
<1>7. CanRecoveryDecided(x, action)
  BY <1>5, <1>6 DEF CanRecoveryDecided
<1> QED BY <1>7 DEF action, c

\* The first assumption Lifecycle makes of a policy: only a failed run is answered
\* by adjusting a setting.
LEMMA AdjustmentsAnswerRuns ==
    ASSUME NEW f \in Failures, NEW g \in FailuresOf(f), NEW c,
           Route(Classify(g), c) = "adjust_approved_runtime_setting"
    PROVE  f = "run_failed"
<1>1. AdjustmentFor(FailureClass(g), c.settings) # {} /\ g.stage # "coding"
  BY DEF Route, RunRoute, CandidateRoute, NoOpRoute, OwnerRoute, TransientRoute,
         Abandon, Classify
<1>2. FailureClass(g) \in {"oom", "numerical_error", "timeout"}
  BY <1>1 DEF AdjustmentFor
<1>3. g.outcome \in {"oom", "numerical_error", "timeout"}
  BY <1>2 DEF FailureClass
<1> QED
  BY <1>3 DEF Failures, FailuresOf, AdapterFailures, AdapterOutcome, Stages,
              GateRejections, NoOpEvaluations, AdapterStages

\* The second: a failure that left no gated commit is never answered by running the
\* same commit again.  A rejected patch is never its gate's to retry, and a failed
\* recovery belongs to the control plane.
LEMMA RejectionsAreNotRerun ==
    ASSUME NEW f \in {"patch_rejected", "recovery"}, NEW g \in FailuresOf(f), NEW c
    PROVE  Route(Classify(g), c) # "retry_same_commit"
<1>1. CASE f = "recovery"
  <2>1. ControlPlane(g)
    BY <1>1 DEF FailuresOf, AdapterFailures, ControlPlane, Stages
  <2> QED
    BY <2>1 DEF Route, CandidateRoute, Abandon, Classify
<1>2. CASE f = "patch_rejected"
  <2>1. /\ g.origin = "patch_check" /\ g.outcome = "none"
        /\ g.stage = "none" /\ g.code = "plain" /\ g.text \in {"plain", "sensitive"}
    <3>1. g \in GateRejections("patch_check")
      BY <1>2 DEF FailuresOf, Stages
    <3> QED BY <3>1 DEF GateRejections
  <2>2. FailureClass(g) = "gate_rejection" /\ ~OwnerRetryable(g)
    BY <2>1 DEF FailureClass, VerifierExhausted, DiskExhausted, OwnerRetryable
  <2> QED
    BY <2>2 DEF Route, RunRoute, CandidateRoute, NoOpRoute, Abandon, Classify
<1> QED BY <1>1, <1>2

\* The policy table made of what the routes can answer satisfies PolicyAssumption for
\* every set of approved settings and every repair budget: what Lifecycle assumes of
\* recovery/policy.py is what its routes do.
THEOREM RoutesMeetPolicyAssumption ==
    LET routed == [f \in Failures |-> RoutedTo(f, MaxRepairs)] IN
    /\ routed \in [Failures -> SUBSET RecoveryActions]
    /\ \A f \in Failures :
         "adjust_approved_runtime_setting" \in routed[f] => f = "run_failed"
    /\ \A f \in {"patch_rejected", "recovery"} :
         "retry_same_commit" \notin routed[f]
<1> DEFINE routed == [f \in Failures |-> RoutedTo(f, MaxRepairs)]
<1>1. ASSUME NEW k, NEW c PROVE Route(k, c) \in RecoveryActions
  BY DEF Route, RunRoute, CandidateRoute, NoOpRoute, OwnerRoute, TransientRoute,
         Abandon, RecoveryActions, CodeActions
<1>2. \A f \in Failures : RoutedTo(f, MaxRepairs) \subseteq RecoveryActions
  BY <1>1 DEF RoutedTo
<1>3. routed \in [Failures -> SUBSET RecoveryActions]
  BY <1>2
<1>4. ASSUME NEW f \in Failures, "adjust_approved_runtime_setting" \in routed[f]
      PROVE  f = "run_failed"
  BY <1>4, AdjustmentsAnswerRuns DEF RoutedTo
<1>5. ASSUME NEW f \in {"patch_rejected", "recovery"}
      PROVE  "retry_same_commit" \notin routed[f]
  BY RejectionsAreNotRerun DEF RoutedTo, Failures, AdapterStages
<1> QED BY <1>3, <1>4, <1>5

\* Adapters report no candidate-scoped exceptions.
Reported(f) == {g \in FailuresOf(f) : g.code # "candidate"}

\* An exception of an adapter is never a defect of the candidate.
LEMMA RepairsAnswerResults ==
    ASSUME NEW f \in Failures, NEW g \in Reported(f), NEW c,
           Route(Classify(g), c) \in CodeActions
    PROVE  f \in {"run_failed", "patch_rejected", "output_rejected", "no_op"}
<1>1. SUFFICES ASSUME f \notin {"run_failed", "patch_rejected", "output_rejected", "no_op"}
               PROVE  FALSE
  OBVIOUS
<1>2. g.origin = "adapter" /\ g.findings = {} /\ g.code # "candidate"
  BY <1>1 DEF Reported, FailuresOf, AdapterFailures, Failures, AdapterStages, Stages
<1>3. ~CandidateIntegrity(g) /\ ~CodeDefect(g) /\ FailureClass(g) # "no_op"
  <2>1. ~CandidateIntegrity(g) /\ ~CodeDefect(g)
    BY <1>2 DEF CandidateIntegrity, CodeDefect
  <2>2. g.outcome # "no_op"
    BY <1>1 DEF Reported, FailuresOf, AdapterFailures, AdapterOutcome, Failures,
                AdapterStages, Stages
  <2> QED
    BY <1>2, <2>1, <2>2 DEF FailureClass
<1> QED
  BY <1>3 DEF Route, RunRoute, OwnerRoute, TransientRoute, Abandon, Classify, CodeActions

\* Only a no-op, or the coder of its repair, is returned to the planner.
LEMMA ReturnsAnswerNoOps ==
    ASSUME NEW f \in Failures, NEW g \in Reported(f), NEW c,
           Route(Classify(g), c) = "return_to_planner"
    PROVE  f \in {"no_op", "coding"}
<1>1. FailureClass(g) = "no_op" \/ g.stage = "coding"
  BY DEF Route, RunRoute, CandidateRoute, OwnerRoute, TransientRoute, Abandon, Classify
<1> QED
  BY <1>1 DEF Reported, FailuresOf, FailureClass, AdapterFailures, AdapterOutcome,
              GateRejections, NoOpEvaluations, RunFailures, Outcomes, Failures,
              AdapterStages, Stages

\* What Briefing assumes of recovery/policy.py is what its routes do with the failures
\* the adapters report, for every set of approved settings and every repair budget.
THEOREM RoutesMeetBriefingAssumption ==
    LET routed == [f \in Failures |->
            {Route(Classify(g), c) : g \in Reported(f), c \in Contexts(MaxRepairs)}]
    IN  \A f \in Failures :
          /\ routed[f] \cap CodeActions # {} =>
                f \in {"run_failed", "patch_rejected", "output_rejected", "no_op"}
          /\ "return_to_planner" \in routed[f] => f \in {"no_op", "coding"}
BY RepairsAnswerResults, ReturnsAnswerNoOps

-----------------------------------------------------------------------------
(***************************************************************************)
(* The inductive invariant.                                                *)
(***************************************************************************)
\* A lane has the fields of _run_one_experiment's locals and no other.
IsLane(l) ==
    l = [pc |-> l.pc, try |-> l.try, stages |-> l.stages, template |-> l.template,
         settings |-> l.settings, site |-> l.site, owner |-> l.owner,
         fault |-> l.fault, again |-> l.again, failed |-> l.failed,
         wiring |-> l.wiring, recorded |-> l.recorded, via |-> l.via,
         index |-> l.index]

Answering == {"recover", "answer"}
Repaired == {"repair", "regate"}
AfterRuns == Repairing \ BeforeRuns

\* What a lane is about: the call it stands at, or the site whose failure is being
\* answered or repaired; a repair worker's failure belongs to the repair's owner.
Duty(l) ==
    IF l.pc \in Repaired THEN l.owner
    ELSE IF l.pc \notin Answering THEN l.pc
    ELSE IF l.site = "work" THEN l.owner ELSE l.site

\* The fidelities still planned from, and after, a run of each fidelity.
PlanFrom == [smoke |-> FidelityPlan, proxy |-> <<"proxy", "full">>, full |-> <<"full">>]
PlanAfter == [smoke |-> <<"proxy", "full">>, proxy |-> <<"full">>, full |-> <<>>]

BeforeFirstRun == {"proposed", "coder", "gate", "code0", "code1"} \cup BeforeRuns
AfterRequest == {"run", "outgate", "smoke", "lock", "judge", "decide"} \cup AfterRuns
Scoring == {"lock", "judge", "decide", "eval0", "dec0"}

\* The plan left to a lane is a function of the last request alone.
StagesFit(duty, stages, template, fidelity) ==
    /\ duty \in BeforeFirstRun => stages = FidelityPlan /\ ~template
    /\ duty \in AfterRequest => stages = PlanAfter[fidelity] /\ ~template
    /\ duty = "launch" =>
         IF template THEN stages = PlanFrom[fidelity]
         ELSE \E f \in Fidelities : stages = PlanFrom[f]
    /\ duty = "smoke" => fidelity = "smoke"
    /\ duty \in Scoring => fidelity # "smoke"

StagesFollowPlan(l, e) ==
    StagesFit(Duty(l), l.stages, l.template, e.request.fidelity)

\* The ledger's failure a site's retry answers.
FailureOf == [code0 |-> "coding", gate0 |-> "patch_gate", out0 |-> "output_gate",
              eval0 |-> "evaluation", dec0 |-> "decision", work |-> "coding"]

RerunFailures == {"execution", "run_failed", "patch_rejected"}
Rerunning == {"run", "finished"}

\* A site that may run something again answers a failure of that kind.
FailureFits(site, f) ==
    /\ site \in DOMAIN RetryAt => f = FailureOf[site]
    /\ site \in Rerunning => f \in RerunFailures

FailureIsAtHand(l, n, e) ==
    l.pc \in Answering /\ n.status = "recovering" => FailureFits(l.site, e.failure)

\* Sites and owners are the ones _recover knows.
Placed(l) ==
    /\ l.pc \in Answering \cup {"fatal"} => l.site \in DOMAIN GivesUpAt
    /\ l.pc \in Answering /\ l.site = "work" => l.owner \in Repairing
    /\ l.pc \in Repaired => l.owner \in Repairing

\* A first failure of the repair worker is never mistaken for an earlier one.
CodingUnrecorded(l) ==
    \/ l.pc \in Answering /\ l.site \notin {"code1", "work", "lane"}
    \/ l.pc \in DOMAIN StatusFor /\ ~(l.pc = "repair" /\ l.try = 1)
    => "coding" \notin l.recorded

AgreesAt(l, n) ==
    /\ l.pc \in DOMAIN StatusFor => n.status \in StatusFor[l.pc]
    /\ l.pc = "repair" /\ l.try = 0 => n.status = "recovering"
    /\ l.pc = "proposed" => n.status = "proposed" /\ l = [NewLane EXCEPT !.pc = "proposed"]
    /\ l.pc = "idle" => l = NewLane
    /\ n.status = "absent" => l.pc = "idle"

\* A lane agrees with the ledger on where its experiment stands.
LaneSound(l, n, e) ==
    /\ IsLane(l) /\ Placed(l)
    /\ AgreesAt(l, n) /\ FailureIsAtHand(l, n, e)
    /\ CodingUnrecorded(l) /\ StagesFollowPlan(l, e)

\* Whatever Gate A saw is a commit, and only full runs draw a seed.
Founded(n, e) ==
    /\ \/ n.status = "patch_ready"
       \/ n.status = "recovering" /\ e.failure = "patch_gate"
       => n.commit > 0
    /\ e.receipt.accepted => e.receipt.commit > 0
    /\ e.request.seed = 0 <=> e.request.fidelity # "full"

\* An eligible acceptance is the incumbent's to meet until its lane ends.
GainKept(l, n) ==
    n.status = "accepted" /\ n.eligible =>
       \/ l.pc \in {"idle", "best"}
       \/ l.pc = "returned" /\ best.score >= n.score
       \/ l.pc \in {"refused", "raised", "crashed"}
          /\ (best.score >= n.score \/ ~Researching)

AllFounded == \A x \in Exps : Founded(node[x], evid[x])
\* Every lane is sound, and the evaluation lock admits one of them at a time.
LanesSound ==
    /\ lane = [x \in Exps |-> lane[x]]
    /\ \A x \in Exps : LaneSound(lane[x], node[x], evid[x])
OneJudge ==
    \A x, y \in Exps : lane[x].pc = "judge" /\ lane[y].pc = "judge" => x = y
GainsKept == \A x \in Exps : GainKept(lane[x], node[x])

HInv ==
    /\ TypeOK /\ IInv /\ AllFounded
    /\ LanesSound /\ OneJudge /\ QueryIndexIsFresh /\ GainsKept

-----------------------------------------------------------------------------
(***************************************************************************)
(* What the events of the ledger do to the experiment they are about.      *)
(***************************************************************************)
\* Nothing but x's own entries changes.
Touches(x) ==
    /\ node' = [node EXCEPT ![x] = node'[x]]
    /\ evid' = [evid EXCEPT ![x] = evid'[x]]

\* x comes to status s with failure f on record, on the request it had.
Reaches(x, s, f) ==
    /\ Touches(x)
    /\ node'[x].status = s /\ evid'[x].failure = f
    /\ evid'[x].request = evid[x].request
    /\ run'.queries = run.queries

\* The run projection is a record of its seven fields.
LEMMA RunFields ==
  ASSUME TypeOK
  PROVE  run = [status |-> run.status, phase |-> run.phase, active |-> run.active,
                context |-> run.context, briefed |-> run.briefed, fresh |-> run.fresh,
                queries |-> run.queries]
  BY DEF TypeOK, RunType

\* A patch brings its experiment to Gate A.
LEMMA PatchCreatedMoves ==
  ASSUME TypeOK, NEW x \in Exps, PatchCreated(x)
  PROVE  Reaches(x, "patch_ready", evid[x].failure)
  BY RunFields DEF PatchCreated, MoveTo, Reaches, Touches, TypeOK, NodeType

\* Gate A lets its experiment run or has it recover from patch_rejected.
LEMMA PatchCheckedMoves ==
  ASSUME TypeOK, NEW x \in Exps, NEW a \in BOOLEAN, PatchChecked(x, a)
  PROVE  Reaches(x, IF a THEN "ready_to_run" ELSE "recovering",
                 IF a THEN evid[x].failure ELSE "patch_rejected")
  BY RunFields DEF PatchChecked, MoveTo, Recorded, Reaches, Touches, TypeOK, NodeType,
     EvidenceType

\* An execution yields an output or has its experiment recover from run_failed.
LEMMA ExecutionFinishedMoves ==
  ASSUME TypeOK, NEW x \in Exps, NEW a \in BOOLEAN, ExecutionFinished(x, a)
  PROVE  Reaches(x, IF a THEN "output_ready" ELSE "recovering",
                 IF a THEN evid[x].failure ELSE "run_failed")
  BY RunFields DEF ExecutionFinished, MoveTo, Recorded, Reaches, Touches, TypeOK, NodeType,
     EvidenceType

\* Gate B verifies the output or has the experiment recover from output_rejected.
LEMMA OutputCheckedMoves ==
  ASSUME TypeOK, NEW x \in Exps, NEW a \in BOOLEAN, OutputChecked(x, a)
  PROVE  Reaches(x, IF a THEN "output_verified" ELSE "recovering",
                 IF a THEN evid[x].failure ELSE "output_rejected")
  BY RunFields DEF OutputChecked, MoveTo, Recorded, Reaches, Touches, TypeOK, NodeType,
     EvidenceType

\* A recorded adapter failure has its experiment recover from that stage.
LEMMA AdapterFailedMoves ==
  ASSUME TypeOK, NEW x \in Exps, NEW stage, AdapterFailed(x, stage)
  PROVE  Reaches(x, "recovering", stage)
  BY RunFields DEF AdapterFailed, MoveTo, Recorded, Reaches, Touches, TypeOK, NodeType,
     EvidenceType

\* A recovery decision takes a recovering experiment where its action says.
LEMMA RecoveryDecidedMoves ==
  ASSUME TypeOK, NEW x \in Exps, NEW action, RecoveryDecided(x, action)
  PROVE  /\ Reaches(x, RecoveredStatus(evid[x].failure, action), evid[x].failure)
         /\ node[x].status = "recovering"
  BY RunFields DEF RecoveryDecided, CanRecoveryDecided, Recorded, Reaches, Touches, TypeOK,
     NodeType, EvidenceType

\* A decision takes its experiment to the status of its kind.
LEMMA ExperimentDecidedMoves ==
  ASSUME TypeOK, NEW x \in Exps, NEW kind, NEW fidelity, NEW eligible, NEW next,
         ExperimentDecided(x, kind, fidelity, eligible, next)
  PROVE  /\ Reaches(x, DecidedStatus[kind], evid[x].failure)
         /\ node'[x].eligible = eligible
  BY RunFields DEF ExperimentDecided, Reaches, Touches, TypeOK, NodeType

\* An evaluation is to be decided on, or shows a no-op to recover from.
LEMMA EvaluationCompletedMoves ==
  ASSUME TypeOK, NEW x \in Exps, NEW trust, NEW score, NEW index,
         EvaluationCompleted(x, trust, score, index)
  PROVE  /\ Touches(x)
         /\ node'[x].status = IF trust = "no_op" THEN "recovering" ELSE "evaluated"
         /\ evid'[x].failure = IF trust = "no_op" THEN "no_op" ELSE evid[x].failure
         /\ evid'[x].request = evid[x].request
  BY DEF EvaluationCompleted, Recorded, Touches, TypeOK, NodeType, EvidenceType

\* A started execution is of the request it was started with.
LEMMA ExecutionStartedMoves ==
  ASSUME TypeOK, NEW x \in Exps, NEW rq, ExecutionStarted(x, rq)
  PROVE  /\ Touches(x)
         /\ node'[x].status = "running"
         /\ evid'[x].failure = evid[x].failure
         /\ evid'[x].request = rq
         /\ run'.queries = run.queries
  BY RunFields DEF ExecutionStarted, MoveTo, Recorded, Touches, TypeOK, NodeType, EvidenceType

-----------------------------------------------------------------------------
(***************************************************************************)
(* What a step of a lane must establish, and the steps many lanes share.   *)
(***************************************************************************)
\* A step of x's lane moves the ledger by its rules or not at all, leaves every
\* other lane alone, and ends where lane and ledger agree about x again.
StepSound(x) ==
    /\ [Next]_vars
    /\ Touches(x) /\ lane' = [lane EXCEPT ![x] = lane'[x]]
    /\ LaneSound(lane'[x], node'[x], evid'[x])
    /\ \/ node'[x].status # "accepted" \/ ~node'[x].eligible
       \/ node'[x] = node[x] \/ lane'[x].pc = "best"
    /\ run'.queries = run.queries \/ lane[x].pc = "judge"
    /\ lane'[x].pc = "judge" => Judging(x)

\* What is known of the lane that steps.
Ready(x) ==
    /\ TypeOK /\ Founded(node[x], evid[x])
    /\ lane = [y \in Exps |-> lane[y]]
    /\ LaneSound(lane[x], node[x], evid[x])

\* Where a lane is past its calls, and only stops, returns or ends are left to it.
Ends == {"returned", "refused", "raised", "crashed", "halt", "abandon", "closing",
         "unavailable", "escaped", "expire"}

\* Of a lane that has ended, ledger and lane have nothing left to agree about.
LEMMA EndsAreSound ==
  ASSUME NEW l, IsLane(l), l.pc \in Ends, NEW n, n.status # "absent", NEW e
  PROVE  LaneSound(l, n, e)
  BY DEF LaneSound, Ends, Placed, AgreesAt, FailureIsAtHand, CodingUnrecorded, StagesFollowPlan,
     StagesFit, Duty, Answering, Repaired, StatusFor, BeforeFirstRun, AfterRequest, AfterRuns,
     Repairing, BeforeRuns, GivesUpAt, Scoring

\* A refused append leaves the ledger as it was, and so does any other step to an
\* end of the lane that appends nothing about the experiment.
LEMMA EndingSound ==
  ASSUME NEW x \in Exps, Ready(x), lane[x].pc # "idle",
         [Next]_vars, node' = node, evid' = evid, run'.queries = run.queries,
         NEW m, IsLane(m), m.pc \in Ends, lane' = [lane EXCEPT ![x] = m]
  PROVE  StepSound(x)
  <1>1. lane'[x] = m /\ node[x].status # "absent"
    BY DEF Ready, LaneSound, AgreesAt
  <1>2. Touches(x)
    BY DEF Touches, Ready, TypeOK
  <1>3. LaneSound(lane'[x], node'[x], evid'[x])
    BY <1>1, EndsAreSound
  <1> QED BY <1>1, <1>2, <1>3 DEF StepSound, Ends

\* The same of a step that only moves the lane's counter to an end.
LEMMA ToEndSound ==
  ASSUME NEW x \in Exps, Ready(x), lane[x].pc # "idle",
         [Next]_vars, node' = node, evid' = evid, run'.queries = run.queries,
         NEW p \in Ends, To(x, p)
  PROVE  StepSound(x)
  <1> DEFINE m == [lane[x] EXCEPT !.pc = p]
  <1>1. IsLane(m) /\ m.pc = p
    BY DEF Ready, LaneSound, IsLane
  <1>2. lane' = [lane EXCEPT ![x] = m]
    BY DEF To, Lane
  <1> HIDE DEF m
  <1> QED BY <1>1, <1>2, EndingSound

\* A parallel lane that leaves its stop to the round ends soundly.
LEMMA DeferSound ==
  ASSUME NEW x \in Exps, Ready(x), lane[x].pc # "idle",
         NEW p \in Ends, NEW pending, Defer(x, p, pending)
  PROVE  StepSound(x)
  <1> DEFINE m == [lane[x] EXCEPT !.pc = p]
  <1>1. IsLane(m) /\ m.pc = p
    BY DEF Ready, LaneSound, IsLane
  <1>2. lane' = [lane EXCEPT ![x] = m] /\ UNCHANGED vars
    BY DEF Defer
  <1> HIDE DEF m
  <1> QED BY <1>1, <1>2, EndingSound DEF vars

\* A TransitionError ends the lane and leaves the ledger as it was.
LEMMA RefusedSound ==
  ASSUME NEW x \in Exps, Ready(x), lane[x].pc # "idle", NEW admitted, Refused(x, admitted)
  PROVE  StepSound(x)
  BY ToEndSound DEF Refused, vars, Ends

\* The run events a lane appends: they leave the experiments alone.
LEMMA StopMoves ==
  ASSUME TypeOK, NEW reason \in {"experiment_budget", "fatal_integrity"}, RunStopped(reason)
  PROVE  [Next]_vars /\ node' = node /\ evid' = evid /\ run'.queries = run.queries
  BY RunFields DEF RunStopped, Next, RunEvent

\* A context written for the planner or a worker leaves every experiment alone.
LEMMA ContextMoves ==
  ASSUME TypeOK, NEW role \in Roles, ContextCreated(role)
  PROVE  [Next]_vars /\ node' = node /\ evid' = evid /\ run'.queries = run.queries
  BY RunFields DEF ContextCreated, Next, RunEvent

\* The lane's failure may be taken to a site: the owner of a repair is known, and
\* the plan left to the lane is the one the site goes on from.
SiteFits(l, site, e) ==
    /\ site \in DOMAIN GivesUpAt
    /\ site = "work" => l.owner \in Repairing
    /\ StagesFit(IF site = "work" THEN l.owner ELSE site, l.stages, l.template,
                 e.request.fidelity)

\* m is the lane l with a failure to recover from at a site.
FailedAt(m, l, site) ==
    /\ IsLane(m) /\ m.pc = "recover" /\ m.site = site /\ m.owner = l.owner
    /\ m.stages = l.stages /\ m.template = l.template

\* _record_adapter_failure leaves the lane its plan and its repair's owner.
LEMMA FailingFields ==
  ASSUME NEW l, IsLane(l), NEW site, NEW k, NEW again, NEW m, m = Failing(l, site, k, again)
  PROVE  FailedAt(m, l, site) /\ m.recorded = l.recorded
  BY DEF IsLane, Failing, FailedAt

\* So does remembering the key of the failure it recorded.
LEMMA RecordingFields ==
  ASSUME NEW l, NEW b, NEW site, FailedAt(b, l, site), NEW r, NEW m,
         m = [b EXCEPT !.recorded = r]
  PROVE  FailedAt(m, l, site) /\ m.recorded = r
  BY DEF IsLane, FailedAt

\* A failure taken for recovery: the ledger has it on record, or the lane's own
\* fingerprint shows that it had it before.
LEMMA FailingSound ==
  ASSUME NEW x \in Exps, Ready(x), [Next]_vars, Touches(x),
         node'[x].status # "absent",
         node'[x].status # "accepted" \/ node'[x] = node[x],
         evid'[x].request = evid[x].request,
         run'.queries = run.queries \/ lane[x].pc = "judge",
         NEW site, SiteFits(lane[x], site, evid[x]),
         node'[x].status = "recovering" => FailureFits(site, evid'[x].failure),
         NEW m, FailedAt(m, lane[x], site),
         site \notin {"code1", "work", "lane"} => "coding" \notin m.recorded,
         lane' = [lane EXCEPT ![x] = m]
  PROVE  StepSound(x)
  <1>1. lane'[x] = m
    BY DEF Ready
  <1>2. StagesFollowPlan(m, evid'[x])
    BY DEF StagesFollowPlan, Duty, Repaired, Answering, FailedAt, SiteFits
  <1>3. FailureIsAtHand(m, node'[x], evid'[x])
    BY DEF FailureIsAtHand, FailedAt
  <1>4. Placed(m) /\ CodingUnrecorded(m) /\ AgreesAt(m, node'[x])
    BY DEF Placed, CodingUnrecorded, AgreesAt, Answering, Repaired, StatusFor,
       FailedAt, SiteFits
  <1> QED BY <1>1, <1>2, <1>3, <1>4 DEF StepSound, LaneSound, FailedAt

\* An adapter that raises at the stage its site is about.
LEMMA RaisesSound ==
  ASSUME NEW x \in Exps, Ready(x), lane[x].pc # "idle",
         NEW stage \in AdapterStages, NEW site, NEW kinds,
         RaisesOneOf(x, stage, site, kinds),
         SiteFits(lane[x], site, evid[x]),
         site \notin {"code1", "work", "lane"} =>
            "coding" \notin lane[x].recorded /\ (stage = "coding" => site = "code0"),
         FailureFits(site, stage),
         site \in DOMAIN RetryAt \cup Rerunning =>
            \/ node[x].status # "recovering"
            \/ RecordedStage(stage) \notin lane[x].recorded
  PROVE  StepSound(x)
  <1>0. IsLane(lane[x]) /\ TypeOK /\ node[x].status # "absent"
    BY DEF Ready, LaneSound, AgreesAt
  <1>1. ASSUME NEW k, NEW again, AdapterFailed(x, stage),
               Lane(x, [Failing(lane[x], site, k, again) EXCEPT
                        !.recorded = IF site = "code0" THEN @
                                     ELSE @ \cup {RecordedStage(stage)}])
        PROVE  StepSound(x)
    <2> DEFINE b == Failing(lane[x], site, k, again)
               m == [b EXCEPT !.recorded = IF site = "code0" THEN @
                                           ELSE @ \cup {RecordedStage(stage)}]
    <2>1. lane' = [lane EXCEPT ![x] = m]
      BY <1>1 DEF Lane
    <2> HIDE DEF m
    <2>2. FailedAt(b, lane[x], site) /\ b.recorded = lane[x].recorded
      <3>1. b = Failing(lane[x], site, k, again)
        OBVIOUS
      <3> HIDE DEF b
      <3> QED BY <1>0, <3>1, FailingFields
    <2>3. /\ FailedAt(m, lane[x], site)
          /\ m.recorded = IF site = "code0" THEN lane[x].recorded
                          ELSE lane[x].recorded \cup {RecordedStage(stage)}
      <3> DEFINE r == IF site = "code0" THEN b.recorded
                      ELSE b.recorded \cup {RecordedStage(stage)}
      <3>1. m = [b EXCEPT !.recorded = r]
        BY DEF m
      <3>2. r = IF site = "code0" THEN lane[x].recorded
                ELSE lane[x].recorded \cup {RecordedStage(stage)}
        BY <2>2
      <3> HIDE DEF b, r
      <3> QED BY <2>2, <3>1, <3>2, RecordingFields
    <2>4. [Next]_vars
      BY <1>1 DEF Next, JudgeEvent
    <2>6. /\ Touches(x) /\ node'[x].status = "recovering" /\ evid'[x].failure = stage
          /\ evid'[x].request = evid[x].request /\ run'.queries = run.queries
      BY <1>0, <1>1, AdapterFailedMoves DEF Reaches
    <2>7. FailureFits(site, evid'[x].failure)
      BY <2>6
    <2>5. ASSUME site \notin {"code1", "work", "lane"} PROVE "coding" \notin m.recorded
      <3>1. "coding" \notin lane[x].recorded /\ (stage = "coding" => site = "code0")
        BY <2>5
      <3>2. RecordedStage(stage) = "coding" => stage = "coding"
        BY DEF RecordedStage
      <3>3. CASE site = "code0"
        BY <2>3, <3>1, <3>3
      <3>4. CASE site # "code0"
        <4>1. m.recorded = lane[x].recorded \cup {RecordedStage(stage)}
          BY <2>3, <3>4
        <4> QED BY <4>1, <3>1, <3>2, <3>4
      <3> QED BY <3>3, <3>4
    <2> QED BY <2>1, <2>3, <2>4, <2>5, <2>6, <2>7, FailingSound
  <1>2. ASSUME NEW k, RecordedStage(stage) \in lane[x].recorded,
               Lane(x, Failing(lane[x], site, k, FALSE)), UNCHANGED vars
        PROVE  StepSound(x)
    <2> DEFINE m == Failing(lane[x], site, k, FALSE)
    <2>1. lane' = [lane EXCEPT ![x] = m] /\ m = Failing(lane[x], site, k, FALSE)
      BY <1>2 DEF Lane
    <2> HIDE DEF m
    <2>2. FailedAt(m, lane[x], site) /\ m.recorded = lane[x].recorded
      BY <1>0, <2>1 DEF IsLane, Failing, FailedAt
    <2>3. node[x].status = "recovering" => FailureFits(site, evid[x].failure)
      BY <1>2 DEF FailureFits
    <2>4. [Next]_vars
      BY <1>2
    <2>5. /\ Touches(x) /\ node'[x] = node[x] /\ evid'[x] = evid[x]
          /\ run'.queries = run.queries
      BY <1>0, <1>2 DEF vars, Touches, TypeOK
    <2> QED BY <1>0, <2>1, <2>2, <2>3, <2>4, <2>5, FailingSound
  <1>3. CASE Refused(x, CanAdapterFailed(x, stage))
    BY <1>3, RefusedSound
  <1> QED BY <1>1, <1>2, <1>3 DEF RaisesOneOf

\* A typed result that is a failure: the ledger has it under its own name.
LEMMA ResultFailsSound ==
  ASSUME NEW x \in Exps, Ready(x), lane[x].pc # "idle",
         [Next]_vars, NEW f, Reaches(x, "recovering", f),
         NEW site, SiteFits(lane[x], site, evid[x]),
         "coding" \notin lane[x].recorded,
         NEW k, NEW again, NEW p \in {"recover"} \cup Ends,
         p = "recover" => FailureFits(site, f),
         Lane(x, [Failing(lane[x], site, k, again) EXCEPT !.pc = p])
  PROVE  StepSound(x)
  <1> DEFINE b == Failing(lane[x], site, k, again)
             m == [b EXCEPT !.pc = p]
  <1>1. lane' = [lane EXCEPT ![x] = m] /\ m = [b EXCEPT !.pc = p]
    BY DEF Lane
  <1> HIDE DEF m
  <1>2. FailedAt(b, lane[x], site) /\ b.recorded = lane[x].recorded
    <2>1. b = Failing(lane[x], site, k, again) /\ IsLane(lane[x])
      BY DEF Ready, LaneSound
    <2> HIDE DEF b
    <2> QED BY <2>1, FailingFields
  <1> HIDE DEF b
  <1>3. CASE p = "recover"
    <2>1. FailedAt(m, lane[x], site) /\ m.recorded = lane[x].recorded
      BY <1>1, <1>2, <1>3 DEF FailedAt, IsLane
    <2>2. FailureFits(site, evid'[x].failure)
      BY <1>3 DEF Reaches
    <2>3. /\ Touches(x) /\ node'[x].status = "recovering"
          /\ evid'[x].request = evid[x].request /\ run'.queries = run.queries
      BY DEF Reaches
    <2> QED BY <1>1, <2>1, <2>2, <2>3, FailingSound
  <1>4. CASE p \in Ends
    <2>1. lane'[x] = m
      BY <1>1 DEF Ready
    <2>2. Touches(x) /\ node'[x].status = "recovering" /\ run'.queries = run.queries
      BY DEF Reaches
    <2>3. IsLane(m) /\ m.pc = p
      BY <1>1, <1>2 DEF FailedAt, IsLane
    <2>4. LaneSound(m, node'[x], evid'[x])
      BY <1>4, <2>2, <2>3, EndsAreSound
    <2> QED BY <1>1, <1>4, <2>1, <2>2, <2>3, <2>4 DEF StepSound, Ends
  <1> QED BY <1>3, <1>4

\* The calls a lane goes on to, and may be found at with nothing else to say.
Calls == {"coder", "gate", "launch", "run", "outgate", "smoke", "lock", "decide", "best"}

\* A call, an end, a repair and a failure being answered are four different things.
LEMMA SetFacts ==
  /\ Calls \cap Ends = {} /\ Calls \cap Repaired = {} /\ Calls \cap Answering = {}
  /\ \A p \in Calls : p \in DOMAIN StatusFor /\ p \notin {"judge", "idle", "proposed", "fatal"}
  /\ \A p \in Ends : p \notin DOMAIN StatusFor /\ p # "judge"
  /\ \A p \in Calls : /\ "absent" \notin StatusFor[p]
                      /\ p # "best" => "accepted" \notin StatusFor[p]
  BY DEF Calls, Ends, Repaired, Answering, StatusFor

\* A lane that goes on to its next call, with the ledger at that call.
LEMMA CallSound ==
  ASSUME NEW x \in Exps, Ready(x), [Next]_vars, Touches(x),
         run'.queries = run.queries \/ lane[x].pc = "judge",
         NEW m, IsLane(m), lane' = [lane EXCEPT ![x] = m],
         m.pc \in Calls, "coding" \notin m.recorded,
         node'[x].status \in StatusFor[m.pc],
         StagesFit(m.pc, m.stages, m.template, evid'[x].request.fidelity)
  PROVE  StepSound(x)
  <1>1. lane'[x] = m
    BY DEF Ready
  <1>2. m.pc \notin Repaired /\ m.pc \notin Answering
    BY SetFacts
  <1>3. StagesFollowPlan(m, evid'[x])
    BY <1>2 DEF StagesFollowPlan, Duty
  <1>4. LaneSound(m, node'[x], evid'[x])
    BY <1>2, <1>3, SetFacts DEF LaneSound, Placed, AgreesAt, FailureIsAtHand, CodingUnrecorded,
       Repaired, Answering
  <1> QED BY <1>1, <1>4, SetFacts DEF StepSound

\* A lane that ends with the event it appends.
LEMMA EndSound ==
  ASSUME NEW x \in Exps, Ready(x), [Next]_vars, Touches(x),
         run'.queries = run.queries \/ lane[x].pc = "judge",
         NEW m, IsLane(m), lane' = [lane EXCEPT ![x] = m],
         m.pc \in Ends, node'[x].status # "absent",
         node'[x].status # "accepted" \/ ~node'[x].eligible
  PROVE  StepSound(x)
  <1>1. lane'[x] = m
    BY DEF Ready
  <1>2. LaneSound(m, node'[x], evid'[x])
    BY EndsAreSound
  <1> QED BY <1>1, <1>2, SetFacts DEF StepSound

\* What a lane that awaits one of the ledger's calls knows.
LEMMA AtCall ==
  ASSUME NEW x \in Exps, Ready(x), NEW p \in Calls \cup {"judge"}, At(x, p)
  PROVE  /\ TypeOK /\ IsLane(lane[x]) /\ lane[x].pc = p /\ lane[x].pc # "idle"
         /\ node[x].status \in StatusFor[p] /\ "coding" \notin lane[x].recorded
         /\ StagesFit(p, lane[x].stages, lane[x].template, evid[x].request.fidelity)
  <1>1. /\ p \notin Repaired /\ p \notin Answering /\ p # "idle" /\ p # "repair"
        /\ p \in DOMAIN StatusFor
    BY SetFacts DEF StatusFor, Answering, Repaired
  <1> QED
    BY <1>1 DEF Ready, At, LaneSound, AgreesAt, CodingUnrecorded, StagesFollowPlan, Duty

\* The same for an event that brings the experiment to the call's status.
LEMMA ReachingCallSound ==
  ASSUME NEW x \in Exps, Ready(x), [Next]_vars, NEW s, NEW f, Reaches(x, s, f),
         NEW p \in Calls, s \in StatusFor[p],
         NEW m, IsLane(m), m.pc = p, Lane(x, m), "coding" \notin m.recorded,
         StagesFit(p, m.stages, m.template, evid[x].request.fidelity)
  PROVE  StepSound(x)
  <1>1. Touches(x) /\ node'[x].status = s /\ run'.queries = run.queries
    BY DEF Reaches
  <1>2. StagesFit(m.pc, m.stages, m.template, evid'[x].request.fidelity)
    BY DEF Reaches
  <1>3. lane' = [lane EXCEPT ![x] = m]
    BY DEF Lane
  <1> QED BY <1>1, <1>2, <1>3, CallSound

\* The same for an event that brings the experiment to its last status.
LEMMA ReachingEndSound ==
  ASSUME NEW x \in Exps, Ready(x), [Next]_vars, NEW s, NEW f, Reaches(x, s, f),
         s # "absent", s # "accepted" \/ ~node'[x].eligible,
         NEW m, IsLane(m), m.pc \in Ends, Lane(x, m)
  PROVE  StepSound(x)
  <1>1. Touches(x) /\ node'[x].status = s /\ run'.queries = run.queries
    BY DEF Reaches
  <1>3. lane' = [lane EXCEPT ![x] = m]
    BY DEF Lane
  <1> QED BY <1>1, <1>3, EndSound

\* The plan left to a lane is the same at every place of one stretch of its way.
LEMMA PlansCarryOver ==
  ASSUME NEW stages, NEW template, NEW f, NEW from, NEW to,
         StagesFit(from, stages, template, f),
         \/ from \in BeforeFirstRun /\ to \in BeforeFirstRun
         \/ /\ from \in AfterRequest /\ to \in AfterRequest
            /\ to = "smoke" => f = "smoke"
            /\ to \in Scoring => from \in Scoring \/ f # "smoke"
         \/ from \in BeforeFirstRun /\ to = "launch"
         \/ to \notin BeforeFirstRun \cup AfterRequest \cup {"launch"}
  PROVE  StagesFit(to, stages, template, f)
  <1> USE DEF StagesFit, BeforeFirstRun, AfterRequest, AfterRuns, Repairing, BeforeRuns,
          GivesUpAt, Scoring
  <1>1. CASE from \in BeforeFirstRun /\ to \in BeforeFirstRun
    BY <1>1
  <1>2. CASE from \in AfterRequest /\ to \in AfterRequest
    BY <1>2
  <1>3. CASE from \in BeforeFirstRun /\ to = "launch"
    <2>1. stages = PlanFrom["smoke"] /\ ~template
      BY <1>3 DEF PlanFrom
    <2> QED BY <1>3, <2>1 DEF Fidelities
  <1>4. CASE to \notin BeforeFirstRun \cup AfterRequest \cup {"launch"}
    BY <1>4
  <1> QED BY <1>1, <1>2, <1>3, <1>4

\* The context of the coder comes before its first call.
LEMMA BriefCoderSound ==
  ASSUME NEW x \in Exps, Ready(x), BriefCoder(x)
  PROVE  StepSound(x)
  <1>0. /\ TypeOK /\ IsLane(lane[x]) /\ lane[x].pc = "proposed"
        /\ node[x].status = "proposed" /\ lane[x].recorded = {}
        /\ StagesFit("proposed", lane[x].stages, lane[x].template, evid[x].request.fidelity)
    BY DEF BriefCoder, At, Ready, LaneSound, AgreesAt, NewLane, StagesFollowPlan, Duty,
       Repaired,
       Answering
  <1>1. CASE ContextCreated("worker") /\ To(x, "coder")
    <2> DEFINE m == [lane[x] EXCEPT !.pc = "coder"]
    <2>1. lane' = [lane EXCEPT ![x] = m]
      BY <1>1 DEF To, Lane
    <2>2. /\ IsLane(m) /\ m.pc = "coder" /\ m.recorded = {}
          /\ m.stages = lane[x].stages /\ m.template = lane[x].template
      BY <1>0 DEF IsLane
    <2> HIDE DEF m
    <2>3. [Next]_vars /\ node' = node /\ evid' = evid /\ run'.queries = run.queries
      BY <1>0, <1>1, ContextMoves DEF Roles
    <2>4. Touches(x)
      BY <1>0, <2>3 DEF Touches, TypeOK
    <2>5. StagesFit("coder", m.stages, m.template, evid'[x].request.fidelity)
      BY <1>0, <2>2, <2>3, PlansCarryOver DEF BeforeFirstRun
    <2>6. m.pc \in Calls /\ node'[x].status \in StatusFor[m.pc] /\ "coding" \notin m.recorded
      BY <1>0, <2>2, <2>3 DEF StatusFor, Calls
    <2> QED BY <2>1, <2>2, <2>3, <2>4, <2>5, <2>6, CallSound
  <1>2. CASE Refused(x, CanContextCreated)
    BY <1>0, <1>2, RefusedSound
  <1> QED BY <1>1, <1>2 DEF BriefCoder

\* The coder's patch goes to Gate A, or its failure to recovery.
LEMMA CreatePatchSound ==
  ASSUME NEW x \in Exps, Ready(x), CreatePatch(x)
  PROVE  StepSound(x)
  <1>0. /\ TypeOK /\ IsLane(lane[x]) /\ lane[x].pc # "idle"
        /\ node[x].status = "proposed" /\ "coding" \notin lane[x].recorded
        /\ StagesFit("coder", lane[x].stages, lane[x].template, evid[x].request.fidelity)
    BY AtCall DEF CreatePatch, StatusFor, Calls
  <1>1. ASSUME NEW p \in {"gate", "expire"}, PatchCreated(x),
               NEW m, m = [lane[x] EXCEPT !.pc = p, !.try = 0, !.recorded = {}], Lane(x, m)
        PROVE  StepSound(x)
    <2>1. lane' = [lane EXCEPT ![x] = m]
      BY <1>1 DEF Lane
    <2>2. /\ IsLane(m) /\ m.pc = p /\ m.recorded = {}
          /\ m.stages = lane[x].stages /\ m.template = lane[x].template
      BY <1>0, <1>1 DEF IsLane
    <2>3. Reaches(x, "patch_ready", evid[x].failure) /\ [Next]_vars
      BY <1>0, <1>1, PatchCreatedMoves DEF Next, WorkEvent
    <2>4. CASE p = "gate"
      <3>1. StagesFit("gate", m.stages, m.template, evid'[x].request.fidelity)
        BY <1>0, <2>2, <2>3, PlansCarryOver DEF BeforeFirstRun, Reaches
      <3>2. m.pc \in Calls /\ node'[x].status \in StatusFor[m.pc] /\ "coding" \notin m.recorded
        BY <2>2, <2>3, <2>4 DEF StatusFor, Calls, Reaches
      <3> QED BY <2>1, <2>2, <2>3, <2>4, <3>1, <3>2, CallSound DEF Reaches
    <2>5. CASE p = "expire"
      BY <2>1, <2>2, <2>3, <2>5, EndSound DEF Ends, Reaches
    <2> QED BY <2>4, <2>5
  <1>2. CASE Refused(x, CanPatchCreated(x))
    BY <1>0, <1>2, RefusedSound
  <1>3. ASSUME NEW site \in {"code0", "code1"}, Raises(x, "coding", site)
        PROVE  StepSound(x)
    <2>1. SiteFits(lane[x], site, evid[x])
      BY <1>0, PlansCarryOver DEF SiteFits, GivesUpAt, BeforeFirstRun
    <2> QED
      BY <1>0, <1>3, <2>1, RaisesSound DEF Raises, AdapterStages, FailureFits, RetryAt,
         FailureOf, Rerunning
  <1>4. Unexpired("gate") \in {"gate", "expire"}
    BY DEF Unexpired
  <1> QED BY <1>1, <1>2, <1>3, <1>4 DEF CreatePatch

\* An accepted patch is run, a rejected one answered at site "patch".
LEMMA GateASound ==
  ASSUME NEW x \in Exps, Ready(x), GateA(x)
  PROVE  StepSound(x)
  <1>0. /\ TypeOK /\ IsLane(lane[x]) /\ lane[x].pc # "idle"
        /\ node[x].status = "patch_ready" /\ "coding" \notin lane[x].recorded
        /\ StagesFit("gate", lane[x].stages, lane[x].template, evid[x].request.fidelity)
    BY AtCall DEF GateA, StatusFor, Calls
  <1>1. ASSUME PatchChecked(x, TRUE), To(x, "launch")
        PROVE  StepSound(x)
    <2>1. PICK m : m = [lane[x] EXCEPT !.pc = "launch"] /\ Lane(x, m)
      BY <1>1 DEF To
    <2>2. /\ IsLane(m) /\ m.pc = "launch" /\ m.recorded = lane[x].recorded
          /\ m.stages = lane[x].stages /\ m.template = lane[x].template
      BY <1>0, <2>1 DEF IsLane
    <2>3. Reaches(x, "ready_to_run", evid[x].failure) /\ [Next]_vars
      BY <1>0, <1>1, PatchCheckedMoves DEF Next, WorkEvent
    <2>4. StagesFit("launch", m.stages, m.template, evid[x].request.fidelity)
      BY <1>0, <2>2, PlansCarryOver DEF BeforeFirstRun
    <2>5. "ready_to_run" \in StatusFor["launch"] /\ "launch" \in Calls
      BY DEF StatusFor, Calls
    <2> QED BY <1>0, <2>1, <2>2, <2>3, <2>4, <2>5, ReachingCallSound
  <1>2. ASSUME NEW k, NEW again, PatchChecked(x, FALSE),
               Lane(x, Failing(lane[x], "patch", k, again))
        PROVE  StepSound(x)
    <2>1. Failing(lane[x], "patch", k, again)
            = [Failing(lane[x], "patch", k, again) EXCEPT !.pc = "recover"]
      BY <1>0 DEF Failing, IsLane
    <2>2. Reaches(x, "recovering", "patch_rejected") /\ [Next]_vars
      BY <1>0, <1>2, PatchCheckedMoves DEF Next, WorkEvent
    <2>3. SiteFits(lane[x], "patch", evid[x]) /\ FailureFits("patch", "patch_rejected")
      BY <1>0, PlansCarryOver DEF SiteFits, GivesUpAt, BeforeFirstRun, BeforeRuns, RetryAt,
         FailureFits, RerunFailures
    <2>4. Lane(x, [Failing(lane[x], "patch", k, again) EXCEPT !.pc = "recover"])
      BY <1>2, <2>1
    <2>5. "recover" \in {"recover"} \cup Ends
      OBVIOUS
    <2> QED BY ONLY <1>0, <2>2, <2>3, <2>4, <2>5, Ready(x), x \in Exps, ResultFailsSound
  <1>3. CASE Refused(x, CanPatchChecked(x))
    BY <1>0, <1>3, RefusedSound
  <1>4. ASSUME NEW site \in {"gate0", "gate1"}, Raises(x, "patch_gate", site)
        PROVE  StepSound(x)
    <2>1. SiteFits(lane[x], site, evid[x])
      BY <1>0, PlansCarryOver DEF SiteFits, GivesUpAt, BeforeFirstRun, BeforeRuns
    <2> QED
      BY <1>0, <1>4, <2>1, RaisesSound DEF Raises, AdapterStages, FailureFits, RetryAt,
         FailureOf, Rerunning
  <1> QED BY <1>1, <1>2, <1>3, <1>4 DEF GateA

\* The stop after a Gate A failure that nothing answers.
LEMMA HaltAtGateSound ==
  ASSUME NEW x \in Exps, Ready(x), HaltAtGate(x)
  PROVE  StepSound(x)
  <1>0. TypeOK /\ lane[x].pc # "idle"
    BY DEF HaltAtGate, At, Ready
  <1>1. CASE FatalStop /\ To(x, "returned")
    BY <1>0, <1>1, StopMoves, ToEndSound DEF FatalStop, Ends
  <1> QED BY <1>0, <1>1, RefusedSound DEF HaltAtGate

\* What a lane that has code repaired knows.
LEMMA AtRepair ==
  ASSUME NEW x \in Exps, Ready(x), NEW p \in Repaired, At(x, p)
  PROVE  /\ TypeOK /\ IsLane(lane[x]) /\ lane[x].pc = p /\ lane[x].pc # "idle"
         /\ lane[x].owner \in Repairing
         /\ StagesFit(lane[x].owner, lane[x].stages, lane[x].template, evid[x].request.fidelity)
         /\ node[x].status \notin {"absent", "accepted"}
  BY DEF Ready, At, LaneSound, AgreesAt, StagesFollowPlan, Duty, Placed, Repaired, StatusFor

\* A repaired patch is gated again; the repair worker may itself fail once.
LEMMA RepairPatchSound ==
  ASSUME NEW x \in Exps, Ready(x), RepairPatch(x)
  PROVE  StepSound(x)
  <1>0. /\ TypeOK /\ IsLane(lane[x]) /\ lane[x].pc = "repair"
        /\ lane[x].owner \in Repairing
        /\ StagesFit(lane[x].owner, lane[x].stages, lane[x].template, evid[x].request.fidelity)
        /\ node[x].status \notin {"absent", "accepted"}
    BY AtRepair DEF RepairPatch, Repaired
  <1>1. ASSUME PatchCreated(x),
               Lane(x, [lane[x] EXCEPT !.pc = "regate", !.try = 0, !.recorded = {}])
        PROVE  StepSound(x)
    <2>1. PICK m : /\ m = [lane[x] EXCEPT !.pc = "regate", !.try = 0, !.recorded = {}]
                   /\ Lane(x, m)
      BY <1>1
    <2>2. /\ IsLane(m) /\ m.pc = "regate" /\ m.recorded = {} /\ m.owner = lane[x].owner
          /\ m.stages = lane[x].stages /\ m.template = lane[x].template
      BY <1>0, <2>1 DEF IsLane
    <2>3. Reaches(x, "patch_ready", evid[x].failure) /\ [Next]_vars
      BY <1>0, <1>1, PatchCreatedMoves DEF Next, WorkEvent
    <2>4. lane' = [lane EXCEPT ![x] = m] /\ lane'[x] = m
      BY <2>1 DEF Lane, Ready
    <2>5. StagesFollowPlan(m, evid'[x])
      BY <1>0, <2>2, <2>3 DEF StagesFollowPlan, Duty, Repaired, Reaches
    <2>6. LaneSound(m, node'[x], evid'[x])
      BY <1>0, <2>2, <2>3, <2>5 DEF LaneSound, Placed, AgreesAt, FailureIsAtHand,
         CodingUnrecorded,
         Answering, Repaired, StatusFor, Reaches
    <2> QED BY <2>2, <2>3, <2>4, <2>6 DEF StepSound, Reaches
  <1>2. CASE Refused(x, CanPatchCreated(x))
    BY <1>0, <1>2, RefusedSound
  <1>3. ASSUME lane[x].try = 0, Raises(x, "coding", "work")
        PROVE  StepSound(x)
    <2>1. SiteFits(lane[x], "work", evid[x])
      BY <1>0 DEF SiteFits, GivesUpAt
    <2>2. "coding" \notin lane[x].recorded
      BY <1>0, <1>3 DEF Ready, LaneSound, CodingUnrecorded, StatusFor
    <2>3. RecordedStage("coding") = "coding"
      BY DEF RecordedStage
    <2> QED
      BY <1>0, <1>3, <2>1, <2>2, <2>3, RaisesSound DEF Raises, AdapterStages, FailureFits,
         RetryAt, FailureOf, Rerunning
  <1>4. CASE To(x, "escaped") /\ UNCHANGED vars
    BY <1>0, <1>4, ToEndSound DEF Ends, vars
  <1> QED BY <1>1, <1>2, <1>3, <1>4 DEF RepairPatch

\* A sequence that is not empty is its head before its tail.
LEMMA HeadThenTail ==
  ASSUME NEW S, NEW s \in Seq(S), s # <<>>
  PROVE  <<Head(s)>> \o Tail(s) = s
  <1>1. /\ Head(s) \in S /\ Tail(s) \in Seq(S) /\ Len(Tail(s)) = Len(s) - 1
        /\ \A i \in 1..Len(Tail(s)) : Tail(s)[i] = s[i + 1]
    BY HeadTailProperties
  <1>2. <<Head(s)>> \in Seq(S) /\ Len(<<Head(s)>>) = 1 /\ <<Head(s)>>[1] = Head(s)
    BY <1>1
  <1>3. Head(s) = s[1] /\ Len(s) \in Nat
    BY LenProperties
  <1> DEFINE h == <<Head(s)>>
             u == Tail(s)
             c == h \o u
  <1> HIDE DEF h, u
  <1>4. /\ c \in Seq(S) /\ Len(c) = Len(h) + Len(u)
        /\ \A i \in 1..Len(h) + Len(u) : c[i] = IF i <= Len(h) THEN h[i] ELSE u[i - Len(h)]
    BY <1>1, <1>2, ConcatProperties DEF h, u
  <1> HIDE DEF c
  <1>5. Len(c) = Len(s)
    BY <1>1, <1>2, <1>3, <1>4 DEF h, u
  <1>6. ASSUME NEW i \in 1..Len(s) PROVE c[i] = s[i]
    <2>1. CASE i = 1
      BY <1>1, <1>2, <1>3, <1>4, <2>1 DEF h, u
    <2>2. CASE i # 1
      <3>1. i - 1 \in 1..Len(Tail(s))
        BY <1>1, <1>3, <2>2
      <3>2. c[i] = u[i - 1]
        BY <1>1, <1>2, <1>3, <1>4, <2>2 DEF h, u
      <3>3. Tail(s)[i - 1] = s[(i - 1) + 1]
        BY <1>1, <3>1
      <3>4. (i - 1) + 1 = i
        BY <1>3
      <3> QED BY <3>2, <3>3, <3>4 DEF u
    <2> QED BY <2>1, <2>2
  <1>7. c = s
    BY <1>4, <1>5, <1>6, SeqEqual
  <1> QED BY <1>7 DEF c, h, u

\* The plans before, and after, a run of each fidelity.
LEMMA PlanFacts ==
  \A f \in Fidelities :
     /\ <<f>> \o PlanAfter[f] = PlanFrom[f]
     /\ PlanFrom[f] # <<>> /\ Head(PlanFrom[f]) = f /\ Tail(PlanFrom[f]) = PlanAfter[f]
  <1> USE DEF PlanFrom, PlanAfter, FidelityPlan
  <1>1. /\ PlanFrom["smoke"] # <<>> /\ Head(PlanFrom["smoke"]) = "smoke"
        /\ PlanFrom["proxy"] # <<>> /\ Head(PlanFrom["proxy"]) = "proxy"
        /\ PlanFrom["full"] # <<>> /\ Head(PlanFrom["full"]) = "full"
    OBVIOUS
  <1>2. Tail(PlanFrom["smoke"]) = PlanAfter["smoke"]
    OBVIOUS
  <1>3. Tail(PlanFrom["proxy"]) = PlanAfter["proxy"]
    OBVIOUS
  <1>4. Tail(PlanFrom["full"]) = PlanAfter["full"]
    OBVIOUS
  <1>5. /\ PlanFrom["smoke"] \in Seq(Fidelities)
        /\ PlanFrom["proxy"] \in Seq(Fidelities) /\ PlanFrom["full"] \in Seq(Fidelities)
    BY DEF Fidelities
  <1> HIDE DEF PlanFrom, PlanAfter, FidelityPlan
  <1>6. ASSUME NEW f \in Fidelities
        PROVE  /\ PlanFrom[f] # <<>> /\ Head(PlanFrom[f]) = f
               /\ Tail(PlanFrom[f]) = PlanAfter[f]
    BY <1>1, <1>2, <1>3, <1>4 DEF Fidelities
  <1>7. ASSUME NEW f \in Fidelities PROVE <<f>> \o PlanAfter[f] = PlanFrom[f]
    <2>1. PlanFrom[f] \in Seq(Fidelities)
      BY <1>5 DEF Fidelities
    <2> QED BY <1>6, <2>1, HeadThenTail
  <1> QED BY <1>6, <1>7

\* A rerun of the last request's fidelity stands before the plan it came from.
LEMMA RequeuedFields ==
  ASSUME NEW x \in Exps, TypeOK, NEW l, IsLane(l), NEW m, m = Requeued(x, l),
         l.stages = PlanAfter[evid[x].request.fidelity]
  PROVE  /\ IsLane(m) /\ m.pc = "launch" /\ m.recorded = l.recorded
         /\ StagesFit("launch", m.stages, m.template, evid[x].request.fidelity)
  <1> DEFINE f == evid[x].request.fidelity
             q == <<f>> \o l.stages
  <1>1. f \in Fidelities
    BY DEF TypeOK, EvidenceType
  <1>2. q = PlanFrom[f]
    BY <1>1, PlanFacts
  <1>3. m = [l EXCEPT !.pc = "launch", !.template = TRUE, !.stages = q]
    BY DEF Requeued
  <1> HIDE DEF q, f
  <1>4. IsLane(m) /\ m.pc = "launch" /\ m.recorded = l.recorded /\ m.stages = q /\ m.template
    BY <1>3 DEF IsLane
  <1>5. StagesFit("launch", m.stages, m.template, f)
    BY <1>2, <1>4 DEF StagesFit, BeforeFirstRun, AfterRequest, AfterRuns, Repairing, BeforeRuns,
       GivesUpAt, Scoring
  <1> QED BY <1>4, <1>5 DEF f

\* A repair that Gate A accepts goes back to the run its owner came from.
LEMMA CheckRepairSound ==
  ASSUME NEW x \in Exps, Ready(x), CheckRepair(x)
  PROVE  StepSound(x)
  <1> DEFINE owner == lane[x].owner
             site == IF owner \in BeforeRuns THEN "patch" ELSE owner
             q == IF owner \in BeforeRuns THEN [lane[x] EXCEPT !.pc = "launch"]
                  ELSE Requeued(x, lane[x])
  <1>0. /\ TypeOK /\ IsLane(lane[x]) /\ lane[x].pc = "regate"
        /\ owner \in Repairing
        /\ StagesFit(owner, lane[x].stages, lane[x].template, evid[x].request.fidelity)
        /\ node[x].status \notin {"absent", "accepted"}
    BY AtRepair DEF CheckRepair, Repaired
  <1>c. "coding" \notin lane[x].recorded
    BY <1>0 DEF Ready, LaneSound, CodingUnrecorded, StatusFor
  <1>1. ASSUME PatchChecked(x, TRUE), NEW p \in {"launch", "expire"},
               Lane(x, [q EXCEPT !.pc = p])
        PROVE  StepSound(x)
    <2>1. PICK m : m = [q EXCEPT !.pc = p] /\ Lane(x, m)
      BY <1>1
    <2>2. /\ IsLane(q) /\ q.recorded = lane[x].recorded
          /\ StagesFit("launch", q.stages, q.template, evid[x].request.fidelity)
      <3>1. CASE owner \in BeforeRuns
        <4>1. q = [lane[x] EXCEPT !.pc = "launch"]
          BY <3>1
        <4> HIDE DEF q
        <4>2. /\ IsLane(q) /\ q.recorded = lane[x].recorded
              /\ q.stages = lane[x].stages /\ q.template = lane[x].template
          BY <1>0, <4>1 DEF IsLane
        <4> QED BY <1>0, <3>1, <4>2, PlansCarryOver DEF BeforeFirstRun
      <3>2. CASE owner \notin BeforeRuns
        <4>1. q = Requeued(x, lane[x])
          BY <3>2
        <4>2. lane[x].stages = PlanAfter[evid[x].request.fidelity]
          BY <1>0, <3>2 DEF StagesFit, AfterRequest, AfterRuns
        <4> HIDE DEF q, owner
        <4> QED BY <1>0, <4>1, <4>2, RequeuedFields
      <3> QED BY <3>1, <3>2
    <2> HIDE DEF q
    <2>3. /\ IsLane(m) /\ m.pc = p /\ m.recorded = lane[x].recorded
          /\ m.stages = q.stages /\ m.template = q.template
      BY <2>1, <2>2 DEF IsLane
    <2>4. Reaches(x, "ready_to_run", evid[x].failure) /\ [Next]_vars
      BY <1>0, <1>1, PatchCheckedMoves DEF Next, WorkEvent
    <2>5. CASE p = "launch"
      <3>1. "ready_to_run" \in StatusFor["launch"] /\ "launch" \in Calls
        BY DEF StatusFor, Calls
      <3> QED BY <1>c, <2>1, <2>2, <2>3, <2>4, <2>5, <3>1, ReachingCallSound
    <2>6. CASE p = "expire"
      <3>1. m.pc \in Ends
        BY <2>3, <2>6 DEF Ends
      <3> QED BY <2>1, <2>3, <2>4, <3>1, ReachingEndSound
    <2> QED BY <2>5, <2>6
  <1>2. ASSUME PatchChecked(x, FALSE), NEW k, NEW again, NEW p,
               p = IF site \in Looping THEN AfterRepair("recover", owner) ELSE GivesUpAt[owner],
               Lane(x, [Failing(lane[x], site, k, again) EXCEPT !.pc = p])
        PROVE  StepSound(x)
    <2>1. Reaches(x, "recovering", "patch_rejected") /\ [Next]_vars
      BY <1>0, <1>2, PatchCheckedMoves DEF Next, WorkEvent
    <2>2. /\ p \in {"recover"} \cup Ends
          /\ p = "recover" => FailureFits(site, "patch_rejected")
      BY <1>0, <1>2 DEF AfterRepair, Unexpired, Looping, BeforeRuns, Repairing, GivesUpAt,
         RetryAt, Ends, FailureFits, RerunFailures
    <2>3. SiteFits(lane[x], site, evid[x])
      <3>1. CASE owner \in BeforeRuns
        BY <1>0, <3>1, PlansCarryOver DEF SiteFits, GivesUpAt, BeforeFirstRun, BeforeRuns
      <3>2. CASE owner \notin BeforeRuns
        BY <1>0, <3>2 DEF SiteFits, Repairing
      <3> QED BY <3>1, <3>2
    <2> HIDE DEF site
    <2> QED BY ONLY <1>2, <1>c, <1>0, <2>1, <2>2, <2>3, Ready(x), x \in Exps, ResultFailsSound
  <1>3. CASE Refused(x, CanPatchChecked(x))
    BY <1>0, <1>3, RefusedSound
  <1>4. CASE To(x, "escaped") /\ UNCHANGED vars
    BY <1>0, <1>4, ToEndSound DEF Ends, vars
  <1>5. AfterRepair("launch", owner) \in {"launch", "expire"}
    BY DEF AfterRepair, Unexpired
  <1> QED BY <1>1, <1>2, <1>3, <1>4, <1>5 DEF CheckRepair

\* The lane that finds its repair worker unavailable.
LEMMA RepairUnavailableSound ==
  ASSUME NEW x \in Exps, Ready(x), RepairUnavailable(x)
  PROVE  StepSound(x)
  <1>0. TypeOK /\ lane[x].pc # "idle"
    BY DEF RepairUnavailable, At, Ready
  <1>1. CASE FatalStop /\ To(x, "returned")
    BY <1>0, <1>1, StopMoves, ToEndSound DEF FatalStop, Ends
  <1>2. ASSUME NEW p \in {"returned", "escaped"}, To(x, p), UNCHANGED vars
        PROVE  StepSound(x)
    BY <1>0, <1>2, ToEndSound DEF Ends, vars
  <1>3. CASE Refused(x, CanRunStopped)
    BY <1>0, <1>3, RefusedSound
  <1> QED BY <1>1, <1>2, <1>3 DEF RepairUnavailable

\* An exception that escaped a repair is recorded for the lane, or stops the run.
LEMMA EscapedSound ==
  ASSUME NEW x \in Exps, Ready(x), Escaped(x)
  PROVE  StepSound(x)
  <1>0. TypeOK /\ lane[x].pc # "idle"
    BY DEF Escaped, At, Ready
  <1>1. CASE FatalStop /\ To(x, "returned")
    BY <1>0, <1>1, StopMoves, ToEndSound DEF FatalStop, Ends
  <1>2. CASE Refused(x, CanRunStopped)
    BY <1>0, <1>2, RefusedSound
  <1>3. ASSUME Raises(x, EscapedStage(x), "lane") PROVE StepSound(x)
    <2>1. SiteFits(lane[x], "lane", evid[x])
      BY DEF SiteFits, GivesUpAt, StagesFit, BeforeFirstRun, AfterRequest, AfterRuns, Repairing,
         BeforeRuns, Scoring
    <2>2. EscapedStage(x) \in AdapterStages
      BY DEF EscapedStage, AdapterStages
    <2>3. /\ FailureFits("lane", EscapedStage(x)) /\ "lane" \notin DOMAIN RetryAt \cup Rerunning
      BY DEF FailureFits, RetryAt, Rerunning
    <2> QED BY <1>0, <1>3, <2>1, <2>2, <2>3, RaisesSound DEF Raises
  <1> QED BY <1>1, <1>2, <1>3 DEF Escaped

\* What is done with the escaped exception once it was answered.
LEMMA CloseEscapedSound ==
  ASSUME NEW x \in Exps, Ready(x), CloseEscaped(x)
  PROVE  StepSound(x)
  <1>0. TypeOK /\ lane[x].pc # "idle"
    BY DEF CloseEscaped, At, Ready
  <1>1. CASE FatalStop /\ To(x, "returned")
    BY <1>0, <1>1, StopMoves, ToEndSound DEF FatalStop, Ends
  <1>2. CASE To(x, "returned") /\ UNCHANGED vars
    BY <1>0, <1>2, ToEndSound DEF Ends, vars
  <1>3. CASE Refused(x, CanRunStopped)
    BY <1>0, <1>3, RefusedSound
  <1>4. ASSUME NEW pending, Defer(x, "returned", pending) PROVE StepSound(x)
    BY <1>0, <1>4, DeferSound DEF Ends
  <1> QED BY <1>1, <1>2, <1>3, <1>4 DEF CloseEscaped

\* The seed of a request is a seed just when the request is full.
LEMMA SeedDrawn ==
  ASSUME NEW x \in Exps, TypeOK, NEW fidelity
  PROVE  SeedFor(x, fidelity) = 0 <=> fidelity # "full"
  <1>1. PriorSeeds(x) \subseteq Seeds \cup {0}
    BY DEF PriorSeeds, TypeOK, EvidenceType
  <1>2. IsFiniteSet(Seeds \cup {0})
    BY HarnessAssumption, FS_AddElement
  <1>3. Cardinality(PriorSeeds(x)) \in Nat
    BY <1>1, <1>2, FS_Subset, FS_CardinalityType
  <1>4. Cardinality(PriorSeeds(x)) + 1 # 0
    BY <1>3
  <1> QED BY <1>4 DEF SeedFor

\* A lane starts an execution of the next fidelity of its plan, on a legal request.
LEMMA LaunchSound ==
  ASSUME NEW x \in Exps, Ready(x), Launch(x)
  PROVE  StepSound(x)
  <1> DEFINE rq == RequestOf(x)
             possible == rq.seed \in Seeds \cup {0} /\ CanExecutionStarted(x, rq)
  <1>0. /\ TypeOK /\ IsLane(lane[x]) /\ lane[x].pc # "idle"
        /\ StagesFit("launch", lane[x].stages, lane[x].template, evid[x].request.fidelity)
        /\ Founded(node[x], evid[x])
    BY AtCall DEF Launch, Calls, Ready
  <1>1. ASSUME possible, ExecutionStarted(x, rq),
               Lane(x, [lane[x] EXCEPT !.pc = "run", !.try = 0, !.stages = Tail(@),
                          !.template = FALSE, !.recorded = {}, !.via = "none", !.index = 0])
        PROVE  StepSound(x)
    <2>f. evid[x].request.fidelity \in Fidelities
      BY <1>0 DEF TypeOK, EvidenceType
    <2>1. PICK g \in Fidelities : /\ lane[x].stages = PlanFrom[g]
                                  /\ lane[x].template => g = evid[x].request.fidelity
      BY <1>0, <2>f DEF StagesFit
    <2>2. Head(lane[x].stages) = g /\ Tail(lane[x].stages) = PlanAfter[g]
      BY <2>1, PlanFacts
    <2> DEFINE seed == IF lane[x].template THEN evid[x].request.seed ELSE SeedFor(x, g)
    <2>3. rq = [commit |-> node[x].commit, fidelity |-> g, command |-> "candidate",
                seed |-> seed]
      BY <2>2 DEF RequestOf
    <2>4. seed = 0 <=> g # "full"
      BY <1>0, <2>1, SeedDrawn DEF Founded
    <2> HIDE DEF seed
    <2>5. seed \in Seeds \cup {0} /\ CanExecutionStarted(x, rq)
      BY <1>1, <2>3
    <2> HIDE DEF rq
    <2>6. node[x].commit \in 1..MaxPatches
      <3>1. evid[x].receipt.accepted /\ evid[x].receipt.commit = node[x].commit
        BY <2>3, <2>5 DEF CanExecutionStarted
      <3>2. node[x].commit \in 0..MaxPatches /\ MaxPatches \in Nat
        BY <1>0, BoundsAssumption DEF TypeOK, NodeType, Commits
      <3> QED BY <1>0, <3>1, <3>2 DEF Founded
    <2>7. rq \in Requests /\ rq.command = "candidate"
      BY <2>3, <2>4, <2>5, <2>6 DEF Requests, Commands, FinalCommands
    <2>8. ~Sealed
      BY <2>5, <2>7 DEF CanExecutionStarted, FinalCommands, Researching, Sealed
    <2>9. [Next]_vars
      BY <1>1, <2>7, <2>8 DEF Next, WorkEvent
    <2>10. PICK m : /\ m = [lane[x] EXCEPT !.pc = "run", !.try = 0, !.stages = Tail(@),
                           !.template = FALSE, !.recorded = {}, !.via = "none", !.index = 0]
                    /\ Lane(x, m)
      BY <1>1
    <2>11. /\ IsLane(m) /\ m.pc = "run" /\ m.recorded = {}
           /\ m.stages = PlanAfter[g] /\ ~m.template
      BY <1>0, <2>2, <2>10 DEF IsLane
    <2>12. /\ Touches(x) /\ node'[x].status = "running" /\ evid'[x].request.fidelity = g
           /\ run'.queries = run.queries
      BY <1>0, <1>1, <2>3, ExecutionStartedMoves
    <2>13. StagesFit(m.pc, m.stages, m.template, evid'[x].request.fidelity)
      BY <2>11, <2>12 DEF StagesFit, BeforeFirstRun, AfterRequest, AfterRuns, Repairing,
         BeforeRuns, GivesUpAt, Scoring
    <2>14. m.pc \in Calls /\ node'[x].status \in StatusFor[m.pc] /\ "coding" \notin m.recorded
      BY <2>11, <2>12 DEF Calls, StatusFor
    <2>15. lane' = [lane EXCEPT ![x] = m]
      BY <2>10 DEF Lane
    <2> QED BY <2>9, <2>11, <2>12, <2>13, <2>14, <2>15, CallSound
  <1>2. CASE Refused(x, possible)
    BY <1>0, <1>2, RefusedSound
  <1> QED BY <1>1, <1>2 DEF Launch

\* A run that ends goes to Gate B, to recovery, or meets the spent budget.
LEMMA RunCandidateSound ==
  ASSUME NEW x \in Exps, Ready(x), RunCandidate(x)
  PROVE  StepSound(x)
  <1>0. /\ TypeOK /\ IsLane(lane[x]) /\ lane[x].pc # "idle"
        /\ node[x].status = "running" /\ "coding" \notin lane[x].recorded
        /\ StagesFit("run", lane[x].stages, lane[x].template, evid[x].request.fidelity)
    BY AtCall DEF RunCandidate, StatusFor, Calls
  <1>1. ASSUME NEW p \in {"outgate", "expire"}, ExecutionFinished(x, TRUE), To(x, p)
        PROVE  StepSound(x)
    <2>1. PICK m : m = [lane[x] EXCEPT !.pc = p] /\ Lane(x, m)
      BY <1>1 DEF To
    <2>2. /\ IsLane(m) /\ m.pc = p /\ m.recorded = lane[x].recorded
          /\ m.stages = lane[x].stages /\ m.template = lane[x].template
      BY <1>0, <2>1 DEF IsLane
    <2>3. Reaches(x, "output_ready", evid[x].failure) /\ [Next]_vars
      BY <1>0, <1>1, ExecutionFinishedMoves DEF Next, WorkEvent
    <2>4. CASE p = "outgate"
      <3>1. StagesFit("outgate", m.stages, m.template, evid[x].request.fidelity)
        BY <1>0, <2>2, PlansCarryOver DEF AfterRequest, Scoring, AfterRuns, Repairing, GivesUpAt
      <3>2. "output_ready" \in StatusFor["outgate"] /\ "outgate" \in Calls
        BY DEF StatusFor, Calls
      <3> QED BY <1>0, <2>1, <2>2, <2>3, <2>4, <3>1, <3>2, ReachingCallSound
    <2>5. CASE p = "expire"
      <3>1. m.pc \in Ends
        BY <2>2, <2>5 DEF Ends
      <3> QED BY <2>1, <2>2, <2>3, <3>1, ReachingEndSound
    <2> QED BY <2>4, <2>5
  <1>2. ASSUME NEW k, NEW again, NEW p \in {"recover", "expire"}, ExecutionFinished(x, FALSE),
               Lane(x, [Failing(lane[x], "finished", k, again) EXCEPT !.pc = p])
        PROVE  StepSound(x)
    <2>1. Reaches(x, "recovering", "run_failed") /\ [Next]_vars
      BY <1>0, <1>2, ExecutionFinishedMoves DEF Next, WorkEvent
    <2>2. SiteFits(lane[x], "finished", evid[x]) /\ FailureFits("finished", "run_failed")
      BY <1>0, PlansCarryOver DEF SiteFits, GivesUpAt, AfterRequest, AfterRuns, Repairing,
         BeforeRuns, Scoring, RetryAt, FailureFits, RerunFailures
    <2>3. p \in {"recover"} \cup Ends
      BY DEF Ends
    <2> QED
      BY ONLY <1>0, <1>2, <2>1, <2>2, <2>3, Ready(x), x \in Exps, ResultFailsSound
  <1>3. CASE Refused(x, CanExecutionFinished(x))
    BY <1>0, <1>3, RefusedSound
  <1>4. ASSUME Raises(x, "execution", "run") PROVE StepSound(x)
    <2>1. SiteFits(lane[x], "run", evid[x])
      BY <1>0 DEF SiteFits, GivesUpAt
    <2> QED
      BY <1>0, <1>4, <2>1, RaisesSound DEF Raises, AdapterStages, FailureFits, RetryAt,
         Rerunning,
         RerunFailures
  <1>5. /\ Unexpired("outgate") \in {"outgate", "expire"}
        /\ Unexpired("recover") \in {"recover", "expire"}
    BY DEF Unexpired
  <1> QED BY <1>1, <1>2, <1>3, <1>4, <1>5 DEF RunCandidate

\* A verified smoke output is promoted, any other waits for the evaluator.
LEMMA GateBSound ==
  ASSUME NEW x \in Exps, Ready(x), GateB(x)
  PROVE  StepSound(x)
  <1>0. /\ TypeOK /\ IsLane(lane[x]) /\ lane[x].pc # "idle"
        /\ node[x].status = "output_ready" /\ "coding" \notin lane[x].recorded
        /\ StagesFit("outgate", lane[x].stages, lane[x].template, evid[x].request.fidelity)
    BY AtCall DEF GateB, StatusFor, Calls
  <1>1. ASSUME NEW p, p = IF evid[x].request.fidelity = "smoke" THEN "smoke" ELSE "lock",
               NEW m, NEW via, m = [lane[x] EXCEPT !.pc = p, !.via = via, !.try = 0],
               OutputChecked(x, TRUE), Lane(x, m)
        PROVE  StepSound(x)
    <2>2. /\ IsLane(m) /\ m.pc = p /\ m.recorded = lane[x].recorded
          /\ m.stages = lane[x].stages /\ m.template = lane[x].template
      BY <1>0, <1>1 DEF IsLane
    <2>3. Reaches(x, "output_verified", evid[x].failure) /\ [Next]_vars
      BY <1>0, <1>1, OutputCheckedMoves DEF Next, WorkEvent
    <2>4. StagesFit(p, m.stages, m.template, evid[x].request.fidelity)
      BY <1>0, <1>1, <2>2, PlansCarryOver DEF AfterRequest, Scoring, AfterRuns, Repairing,
         GivesUpAt
    <2>5. "output_verified" \in StatusFor[p] /\ p \in Calls
      BY <1>1 DEF StatusFor, Calls
    <2> QED BY <1>0, <1>1, <2>2, <2>3, <2>4, <2>5, ReachingCallSound
  <1>2. ASSUME NEW k, NEW again, OutputChecked(x, FALSE),
               Lane(x, Failing(lane[x], "output", k, again))
        PROVE  StepSound(x)
    <2>1. Failing(lane[x], "output", k, again)
            = [Failing(lane[x], "output", k, again) EXCEPT !.pc = "recover"]
      BY <1>0 DEF Failing, IsLane
    <2>2. Reaches(x, "recovering", "output_rejected") /\ [Next]_vars
      BY <1>0, <1>2, OutputCheckedMoves DEF Next, WorkEvent
    <2>3. SiteFits(lane[x], "output", evid[x]) /\ FailureFits("output", "output_rejected")
      BY <1>0, PlansCarryOver DEF SiteFits, GivesUpAt, AfterRequest, AfterRuns, Repairing,
         BeforeRuns, Scoring, RetryAt, FailureFits, Rerunning
    <2>4. Lane(x, [Failing(lane[x], "output", k, again) EXCEPT !.pc = "recover"])
      BY <1>2, <2>1
    <2>5. "recover" \in {"recover"} \cup Ends
      OBVIOUS
    <2> QED BY ONLY <1>0, <2>2, <2>3, <2>4, <2>5, Ready(x), x \in Exps, ResultFailsSound
  <1>3. CASE Refused(x, CanOutputChecked(x))
    BY <1>0, <1>3, RefusedSound
  <1>4. ASSUME NEW site \in {"out0", "out1"}, Raises(x, "output_gate", site)
        PROVE  StepSound(x)
    <2>1. SiteFits(lane[x], site, evid[x])
      BY <1>0, PlansCarryOver DEF SiteFits, GivesUpAt, AfterRequest, AfterRuns, Repairing,
         BeforeRuns, Scoring
    <2> QED
      BY <1>0, <1>4, <2>1, RaisesSound DEF Raises, AdapterStages, FailureFits, RetryAt,
         FailureOf, Rerunning
  <1>5. CASE OutputChecked(x, TRUE) /\
             Lane(x, [lane[x] EXCEPT
                !.pc = IF evid[x].request.fidelity = "smoke" THEN "smoke" ELSE "lock",
                !.via = IF lane[x].try = 1 THEN "output" ELSE @, !.try = 0])
    BY <1>1, <1>5
  <1> QED BY <1>2, <1>3, <1>4, <1>5 DEF GateB

\* A smoke run is promoted to the proxy run that its plan goes on with.
LEMMA PromoteSmokeSound ==
  ASSUME NEW x \in Exps, Ready(x), PromoteSmoke(x)
  PROVE  StepSound(x)
  <1> DEFINE next == Head(lane[x].stages)
  <1>0. /\ TypeOK /\ IsLane(lane[x]) /\ lane[x].pc # "idle"
        /\ "coding" \notin lane[x].recorded
        /\ StagesFit("smoke", lane[x].stages, lane[x].template, evid[x].request.fidelity)
    BY AtCall DEF PromoteSmoke, Calls
  <1>1. lane[x].stages = PlanFrom["proxy"] /\ ~lane[x].template
    BY <1>0 DEF StagesFit, AfterRequest, PlanAfter, PlanFrom
  <1>2. next = "proxy"
    BY <1>1, PlanFacts DEF Fidelities
  <1> HIDE DEF next
  <1>3. ASSUME ExperimentDecided(x, "promote", "smoke", FALSE, next),
               NEW m, m = [lane[x] EXCEPT !.pc = "launch"], Lane(x, m)
        PROVE  StepSound(x)
    <2>2. /\ IsLane(m) /\ m.pc = "launch" /\ m.recorded = lane[x].recorded
          /\ m.stages = lane[x].stages /\ m.template = lane[x].template
      BY <1>0, <1>3 DEF IsLane
    <2>3. Reaches(x, "ready_to_run", evid[x].failure)
      BY <1>0, <1>3, ExperimentDecidedMoves DEF DecidedStatus
    <2>4. [Next]_vars
      <3>1. "promote" \in DecisionKinds /\ "smoke" \in Fidelities /\ next \in Fidelities
        BY <1>2 DEF DecisionKinds, Fidelities
      <3> QED BY <1>3, <3>1 DEF Next, JudgeEvent
    <2>5. StagesFit("launch", m.stages, m.template, evid[x].request.fidelity)
      BY <1>1, <2>2 DEF StagesFit, BeforeFirstRun, AfterRequest, AfterRuns, Repairing,
         BeforeRuns, GivesUpAt, Scoring, Fidelities
    <2>6. "ready_to_run" \in StatusFor["launch"] /\ "launch" \in Calls
      BY DEF StatusFor, Calls
    <2> QED BY <1>0, <1>3, <2>2, <2>3, <2>4, <2>5, <2>6, ReachingCallSound
  <1>4. CASE Refused(x, CanExperimentDecided(x, "promote", "smoke", FALSE, next))
    BY <1>0, <1>4, RefusedSound
  <1> QED BY <1>3, <1>4 DEF PromoteSmoke, next

\* _abandon_experiment closes its experiment as invalid.
LEMMA AbandonSound ==
  ASSUME NEW x \in Exps, Ready(x), Abandon_experiment(x)
  PROVE  StepSound(x)
  <1>0. TypeOK /\ IsLane(lane[x]) /\ lane[x].pc # "idle"
    BY DEF Abandon_experiment, At, Ready, LaneSound
  <1>1. ASSUME ExperimentDecided(x, "invalid", "smoke", FALSE, "smoke"),
               NEW m, m = [lane[x] EXCEPT !.pc = "returned"], Lane(x, m)
        PROVE  StepSound(x)
    <2>1. IsLane(m) /\ m.pc \in Ends
      BY <1>0, <1>1 DEF IsLane, Ends
    <2>2. Reaches(x, "invalid", evid[x].failure)
      BY <1>0, <1>1, ExperimentDecidedMoves DEF DecidedStatus
    <2>3. [Next]_vars
      <3>1. "invalid" \in DecisionKinds /\ "smoke" \in Fidelities
        BY DEF DecisionKinds, Fidelities
      <3> QED BY <1>1, <3>1 DEF Next, JudgeEvent
    <2> QED BY <1>1, <2>1, <2>2, <2>3, ReachingEndSound
  <1>2. CASE Refused(x, CanAbandon(x))
    BY <1>0, <1>2, RefusedSound
  <1> QED BY <1>1, <1>2 DEF Abandon_experiment

\* A request enters the evaluator with the lock held.
LEMMA JudgingSound ==
  ASSUME NEW x \in Exps, Ready(x), Judging(x)
  PROVE  StepSound(x)
  <1>0. /\ TypeOK /\ IsLane(lane[x])
        /\ node[x].status = "output_verified" /\ "coding" \notin lane[x].recorded
        /\ StagesFit("lock", lane[x].stages, lane[x].template, evid[x].request.fidelity)
    BY AtCall DEF Judging, StatusFor, Calls
  <1>1. PICK i, m : m = [lane[x] EXCEPT !.pc = "judge", !.index = i] /\ Lane(x, m)
    BY DEF Judging
  <1>2. /\ IsLane(m) /\ m.pc = "judge" /\ m.recorded = lane[x].recorded
        /\ m.stages = lane[x].stages /\ m.template = lane[x].template
    BY <1>0, <1>1 DEF IsLane
  <1>3. lane' = [lane EXCEPT ![x] = m] /\ lane'[x] = m /\ UNCHANGED vars
    BY <1>1 DEF Lane, Ready, Judging
  <1>4. Touches(x) /\ node'[x] = node[x] /\ evid'[x] = evid[x] /\ run'.queries = run.queries
    BY <1>0, <1>3 DEF Touches, vars, TypeOK
  <1>5. StagesFit("judge", m.stages, m.template, evid[x].request.fidelity)
    BY <1>0, <1>2, PlansCarryOver DEF AfterRequest, Scoring
  <1>6. StagesFollowPlan(m, evid'[x])
    BY <1>2, <1>4, <1>5 DEF StagesFollowPlan, Duty, Repaired, Answering
  <1>7. LaneSound(m, node'[x], evid'[x])
    BY <1>0, <1>2, <1>4, <1>6 DEF LaneSound, Placed, AgreesAt, FailureIsAtHand,
       CodingUnrecorded,
       Answering, Repaired, StatusFor
  <1> QED BY <1>3, <1>4, <1>7 DEF StepSound

\* Verdicts are trust assessments the ledger knows.
LEMMA TrustsTyped == \A x \in Exps : TrustsFor(x) \subseteq Trusts
  BY DEF TrustsFor, Trusts

\* An evaluation is decided on; a no-op, or an exception, is recovered from.
LEMMA EvaluateSound ==
  ASSUME NEW x \in Exps, Ready(x), Evaluate(x)
  PROVE  StepSound(x)
  <1>0. /\ TypeOK /\ IsLane(lane[x]) /\ lane[x].pc = "judge"
        /\ node[x].status = "output_verified" /\ "coding" \notin lane[x].recorded
        /\ StagesFit("judge", lane[x].stages, lane[x].template, evid[x].request.fidelity)
    BY AtCall DEF Evaluate, StatusFor
  <1>1. ASSUME NEW trust \in TrustsFor(x), NEW score \in Scores,
               EvaluationCompleted(x, trust, score, lane[x].index)
        PROVE  [Next]_vars
    <2>1. trust \in Trusts
      BY TrustsTyped
    <2>2. lane[x].index \in 0..MaxQueries
      <3>1. run.queries \in 0..MaxQueries /\ run.queries < MaxQueries /\ MaxQueries \in Nat
        BY <1>0, <1>1, BoundsAssumption DEF EvaluationCompleted, TypeOK, RunType
      <3>2. lane[x].index = run.queries + 1 \/ lane[x].index = 0
        BY <1>1 DEF EvaluationCompleted, CanEvaluationCompleted
      <3> QED BY <3>1, <3>2
    <2> QED BY <1>1, <2>1, <2>2 DEF Next, JudgeEvent
  <1>2. ASSUME NEW trust \in TrustsFor(x), NEW score \in Scores, trust # "no_op",
               EvaluationCompleted(x, trust, score, lane[x].index),
               NEW via, NEW p \in {"decide", "expire"},
               NEW m, m = [lane[x] EXCEPT !.pc = p, !.try = 0, !.via = via], Lane(x, m)
        PROVE  StepSound(x)
    <2>1. /\ IsLane(m) /\ m.pc = p /\ m.recorded = lane[x].recorded
          /\ m.stages = lane[x].stages /\ m.template = lane[x].template
      BY <1>0, <1>2 DEF IsLane
    <2>2. /\ Touches(x) /\ node'[x].status = "evaluated"
          /\ evid'[x].request = evid[x].request
      BY <1>0, <1>2, EvaluationCompletedMoves
    <2>3. lane' = [lane EXCEPT ![x] = m] /\ [Next]_vars
      BY <1>1, <1>2 DEF Lane
    <2>4. CASE p = "decide"
      <3>1. StagesFit("decide", m.stages, m.template, evid[x].request.fidelity)
        BY <1>0, <2>1, PlansCarryOver DEF AfterRequest, Scoring
      <3>2. m.pc \in Calls /\ node'[x].status \in StatusFor[m.pc] /\ "coding" \notin m.recorded
        BY <1>0, <2>1, <2>2, <2>4 DEF Calls, StatusFor
      <3> QED BY <1>0, <2>1, <2>2, <2>3, <2>4, <3>1, <3>2, CallSound
    <2>5. CASE p = "expire"
      <3>1. m.pc \in Ends
        BY <2>1, <2>5 DEF Ends
      <3> QED BY <1>0, <2>1, <2>2, <2>3, <3>1, EndSound
    <2> QED BY <2>4, <2>5
  <1>3. ASSUME NEW trust \in TrustsFor(x), NEW score \in Scores, trust = "no_op",
               EvaluationCompleted(x, trust, score, lane[x].index),
               NEW via, NEW q, NEW k, NEW again, NEW p \in {"recover", "expire"},
               NEW l, l = [lane[x] EXCEPT !.pc = q, !.try = 0, !.via = via],
               Lane(x, [Failing(l, "noop", k, again) EXCEPT !.pc = p])
        PROVE  StepSound(x)
    <2>1. PICK b, m : /\ b = Failing(l, "noop", k, again)
                      /\ m = [b EXCEPT !.pc = p] /\ lane' = [lane EXCEPT ![x] = m]
      BY <1>3 DEF Lane
    <2>2. /\ IsLane(l) /\ l.recorded = lane[x].recorded /\ l.owner = lane[x].owner
          /\ l.stages = lane[x].stages /\ l.template = lane[x].template
      BY <1>0, <1>3 DEF IsLane
    <2>3. FailedAt(b, l, "noop") /\ b.recorded = l.recorded
      BY <2>1, <2>2, FailingFields
    <2>4. /\ IsLane(m) /\ m.pc = p /\ m.recorded = lane[x].recorded /\ m.site = "noop"
          /\ m.owner = lane[x].owner
          /\ m.stages = lane[x].stages /\ m.template = lane[x].template
      BY <2>1, <2>2, <2>3 DEF IsLane, FailedAt
    <2>5. /\ Touches(x) /\ node'[x].status = "recovering"
          /\ evid'[x].request = evid[x].request
      BY <1>0, <1>3, EvaluationCompletedMoves
    <2>6. [Next]_vars
      BY <1>1, <1>3
    <2>7. CASE p = "recover"
      <3>1. SiteFits(lane[x], "noop", evid[x]) /\ FailureFits("noop", evid'[x].failure)
        BY <1>0, PlansCarryOver DEF SiteFits, GivesUpAt, AfterRequest, AfterRuns, Repairing,
           BeforeRuns, Scoring, RetryAt, FailureFits, Rerunning
      <3>2. FailedAt(m, lane[x], "noop")
        BY <2>4, <2>7 DEF FailedAt
      <3> QED BY <1>0, <2>1, <2>4, <2>5, <2>6, <3>1, <3>2, FailingSound
    <2>8. CASE p = "expire"
      <3>1. m.pc \in Ends
        BY <2>4, <2>8 DEF Ends
      <3> QED BY <1>0, <2>1, <2>4, <2>5, <2>6, <3>1, EndSound
    <2> QED BY <2>7, <2>8
  <1>4. ASSUME NEW kinds, RaisesOneOf(x, "evaluation", EvaluationSite(x), kinds)
        PROVE  StepSound(x)
    <2> DEFINE site == EvaluationSite(x)
    <2>1. site \in {"eval0", "eval1"}
      BY DEF EvaluationSite
    <2> HIDE DEF site
    <2>2. SiteFits(lane[x], site, evid[x])
      BY <1>0, <2>1, PlansCarryOver DEF SiteFits, GivesUpAt, AfterRequest, AfterRuns, Repairing,
         BeforeRuns, Scoring
    <2>3. RaisesOneOf(x, "evaluation", site, kinds)
      BY <1>4 DEF site
    <2> QED
      BY <1>0, <2>1, <2>2, <2>3, RaisesSound DEF AdapterStages, FailureFits, RetryAt,
         FailureOf, Rerunning
  <1>5. /\ Unexpired("decide") \in {"decide", "expire"}
        /\ Unexpired("recover") \in {"recover", "expire"}
    BY DEF Unexpired
  <1>6. ASSUME NEW trust \in TrustsFor(x), NEW score \in Scores,
               EvaluationCompleted(x, trust, score, lane[x].index),
               NEW via, NEW l, l = [lane[x] EXCEPT !.pc = Unexpired("decide"), !.try = 0,
                                                  !.via = via],
               IF trust # "no_op" THEN Lane(x, l)
               ELSE \E k \in Faults["no_op"], again \in Repeats(x, "no_op") :
                      Lane(x, [Failing(l, "noop", k, again) EXCEPT !.pc = Unexpired("recover")])
        PROVE  StepSound(x)
    BY <1>2, <1>3, <1>5, <1>6
  <1> QED BY <1>4, <1>6 DEF Evaluate, Raises

\* What decide of evaluation/decisions.py can return.
LEMMA VerdictsTyped ==
  ASSUME NEW x \in Exps, NEW v \in Verdicts(x)
  PROVE  /\ v.kind \in DecisionKinds /\ v.eligible \in BOOLEAN /\ v.next \in Fidelities
         /\ v.kind = "promote" => v.next = "full"
         /\ v.eligible => v.kind = "accept"
  <1> DEFINE verdict(kind, eligible, next) ==
               [kind |-> kind, eligible |-> eligible, next |-> next]
  <1>1. \/ v = verdict("promote", FALSE, "full")
        \/ \E kind \in {"prune", "invalid", "reject", "accept"} :
              v = verdict(kind, FALSE, "smoke")
        \/ \E eligible \in BOOLEAN : v = verdict("accept", eligible, "smoke")
    <2>1. CASE evid[x].request.fidelity = "proxy"
      BY <2>1 DEF Verdicts
    <2>2. CASE evid[x].request.fidelity # "proxy" /\ node[x].trust = "accepted"
      BY <2>2 DEF Verdicts
    <2>3. CASE evid[x].request.fidelity # "proxy" /\ node[x].trust = "confirmed"
      BY <2>3 DEF Verdicts
    <2>4. CASE /\ evid[x].request.fidelity # "proxy"
               /\ node[x].trust \notin {"accepted", "confirmed"}
      BY <2>4 DEF Verdicts
    <2> QED BY <2>1, <2>2, <2>3, <2>4
  <1>2. CASE v = verdict("promote", FALSE, "full")
    BY <1>2 DEF DecisionKinds, Fidelities
  <1>3. ASSUME NEW kind \in {"prune", "invalid", "reject", "accept"},
               v = verdict(kind, FALSE, "smoke")
        PROVE  /\ v.kind \in DecisionKinds /\ v.eligible \in BOOLEAN /\ v.next \in Fidelities
               /\ v.kind # "promote" /\ ~v.eligible
    BY <1>3 DEF DecisionKinds, Fidelities
  <1>4. ASSUME NEW eligible \in BOOLEAN, v = verdict("accept", eligible, "smoke")
        PROVE  /\ v.kind \in DecisionKinds /\ v.eligible \in BOOLEAN /\ v.next \in Fidelities
               /\ v.kind = "accept"
    BY <1>4 DEF DecisionKinds, Fidelities
  <1> HIDE DEF verdict
  <1> QED BY <1>1, <1>2, <1>3, <1>4

\* A decision promotes, closes, or makes the experiment the best's challenger.
LEMMA DecideSound ==
  ASSUME NEW x \in Exps, Ready(x), Decide(x)
  PROVE  StepSound(x)
  <1> DEFINE f == evid[x].request.fidelity
  <1>0. /\ TypeOK /\ IsLane(lane[x]) /\ lane[x].pc # "idle"
        /\ node[x].status = "evaluated" /\ "coding" \notin lane[x].recorded
        /\ StagesFit("decide", lane[x].stages, lane[x].template, f)
        /\ f \in Fidelities
    <2>1. At(x, "decide")
      BY DEF Decide
    <2>2. f \in Fidelities
      BY DEF Ready, TypeOK, EvidenceType
    <2> HIDE DEF f
    <2>3. StatusFor["decide"] = {"evaluated"} /\ "decide" \in Calls
      BY DEF StatusFor, Calls
    <2> QED BY <2>1, <2>2, <2>3, AtCall DEF f
  <1>1. ASSUME NEW v \in Verdicts(x), ExperimentDecided(x, v.kind, f, v.eligible, v.next)
        PROVE  /\ Reaches(x, DecidedStatus[v.kind], evid[x].failure)
               /\ node'[x].eligible = v.eligible /\ [Next]_vars
    <2>1. v.kind \in DecisionKinds /\ v.eligible \in BOOLEAN /\ v.next \in Fidelities
      BY VerdictsTyped
    <2>2. [Next]_vars
      BY <1>0, <1>1, <2>1 DEF Next, JudgeEvent
    <2> HIDE DEF f
    <2> QED BY <1>0, <1>1, <2>1, <2>2, ExperimentDecidedMoves
  <1>2. ASSUME NEW v \in Verdicts(x), ExperimentDecided(x, v.kind, f, v.eligible, v.next),
               v.kind = "promote",
               Lane(x, [lane[x] EXCEPT !.pc = "launch",
                          !.stages = IF @ # <<>> /\ Head(@) = v.next THEN @
                                     ELSE <<v.next>> \o @])
        PROVE  StepSound(x)
    <2> DEFINE s == lane[x].stages
               q == IF s # <<>> /\ Head(s) = v.next THEN s ELSE <<v.next>> \o s
    <2>1. v.next = "full"
      BY <1>2, VerdictsTyped
    <2>2. f \in {"proxy", "full"} /\ s = PlanAfter[f] /\ ~lane[x].template
      BY <1>0 DEF StagesFit, AfterRequest, Scoring, Fidelities
    <2>3. q = PlanFrom["full"]
      <3>1. CASE f = "proxy"
        <4>1. s = PlanFrom["full"]
          BY <2>2, <3>1 DEF PlanAfter, PlanFrom
        <4>2. s # <<>> /\ Head(s) = "full"
          BY <4>1, PlanFacts DEF Fidelities
        <4> QED BY <2>1, <4>1, <4>2
      <3>2. CASE f = "full"
        <4>1. s = <<>>
          BY <2>2, <3>2 DEF PlanAfter
        <4>2. <<"full">> \o PlanAfter["full"] = PlanFrom["full"] /\ s = PlanAfter["full"]
          BY <2>2, <3>2, PlanFacts DEF Fidelities
        <4> HIDE DEF s
        <4> QED BY <2>1, <4>1, <4>2
      <3> QED BY <2>2, <3>1, <3>2
    <2>4. PICK m : m = [lane[x] EXCEPT !.pc = "launch", !.stages = q] /\ Lane(x, m)
      BY <1>2
    <2> HIDE DEF q, s
    <2>5. /\ IsLane(m) /\ m.pc = "launch" /\ m.recorded = lane[x].recorded
          /\ m.stages = PlanFrom["full"] /\ ~m.template
      BY <1>0, <2>2, <2>3, <2>4 DEF IsLane
    <2>6. StagesFit("launch", m.stages, m.template, f)
      BY <2>5 DEF StagesFit, BeforeFirstRun, AfterRequest, AfterRuns, Repairing, BeforeRuns,
         GivesUpAt, Scoring, Fidelities
    <2>7. Reaches(x, "ready_to_run", evid[x].failure) /\ [Next]_vars
      BY <1>1, <1>2 DEF DecidedStatus
    <2>8. "ready_to_run" \in StatusFor["launch"] /\ "launch" \in Calls
      BY DEF StatusFor, Calls
    <2> QED BY <1>0, <2>4, <2>5, <2>6, <2>7, <2>8, ReachingCallSound
  <1>3. ASSUME NEW v \in Verdicts(x), ExperimentDecided(x, v.kind, f, v.eligible, v.next),
               v.kind # "promote",
               Lane(x, [lane[x] EXCEPT !.pc = IF v.eligible THEN "best" ELSE "returned"])
        PROVE  StepSound(x)
    <2>1. PICK p, m : /\ p = IF v.eligible THEN "best" ELSE "returned"
                      /\ m = [lane[x] EXCEPT !.pc = p] /\ Lane(x, m)
      BY <1>3
    <2>2. /\ IsLane(m) /\ m.pc = p /\ m.recorded = lane[x].recorded
          /\ m.stages = lane[x].stages /\ m.template = lane[x].template
      BY <1>0, <2>1 DEF IsLane
    <2>3. /\ Reaches(x, DecidedStatus[v.kind], evid[x].failure)
          /\ node'[x].eligible = v.eligible /\ [Next]_vars
      BY <1>1, <1>3
    <2>4. CASE v.eligible
      <3>1. v.kind = "accept"
        BY <2>4, VerdictsTyped
      <3>2. StagesFit("best", m.stages, m.template, f)
        BY <1>0, <2>2, PlansCarryOver DEF BeforeFirstRun, AfterRequest, AfterRuns, Repairing,
           BeforeRuns, GivesUpAt
      <3>3. /\ Reaches(x, "accepted", evid[x].failure)
            /\ "accepted" \in StatusFor["best"] /\ "best" \in Calls
        BY <2>3, <3>1 DEF DecidedStatus, StatusFor, Calls
      <3> QED BY <1>0, <2>1, <2>2, <2>3, <2>4, <3>2, <3>3, ReachingCallSound
    <2>5. CASE ~v.eligible
      <3>1. DecidedStatus[v.kind] # "absent"
        BY VerdictsTyped DEF DecidedStatus, DecisionKinds
      <3>2. m.pc \in Ends
        BY <2>1, <2>2, <2>5 DEF Ends
      <3> QED BY <2>1, <2>2, <2>3, <2>5, <3>1, <3>2, ReachingEndSound
    <2> QED BY <2>4, <2>5
  <1>4. ASSUME NEW admitted, Refused(x, admitted) PROVE StepSound(x)
    BY <1>0, <1>4, RefusedSound
  <1>5. ASSUME NEW site \in {"dec0", "dec1"}, NEW kinds, RaisesOneOf(x, "decision", site, kinds)
        PROVE  StepSound(x)
    <2>1. SiteFits(lane[x], site, evid[x])
      BY <1>0, PlansCarryOver DEF SiteFits, GivesUpAt, BeforeFirstRun, AfterRequest, AfterRuns,
         Repairing, BeforeRuns, Scoring
    <2> QED
      BY <1>0, <1>5, <2>1, RaisesSound DEF AdapterStages, FailureFits, RetryAt, FailureOf,
         Rerunning
  <1> HIDE DEF f
  <1> QED BY <1>2, <1>3, <1>4, <1>5 DEF Decide, Raises, f

\* The challenger replaces the incumbent or returns.
LEMMA UpdateBestSound ==
  ASSUME NEW x \in Exps, Ready(x), UpdateBest(x)
  PROVE  StepSound(x)
  <1>0. TypeOK /\ lane[x].pc # "idle"
    BY DEF UpdateBest, At, Ready
  <1>1. CASE BestUpdated(x) /\ To(x, "returned")
    <2>1. [Next]_vars
      BY <1>1 DEF Next, JudgeEvent
    <2>2. node' = node /\ evid' = evid /\ run'.queries = run.queries
      BY <1>0, <1>1, RunFields DEF BestUpdated
    <2> QED BY <1>0, <1>1, <2>1, <2>2, ToEndSound DEF Ends
  <1>2. CASE To(x, "returned") /\ UNCHANGED vars
    BY <1>0, <1>2, ToEndSound DEF Ends, vars
  <1>3. CASE Refused(x, CanBestUpdated(x))
    BY <1>0, <1>3, RefusedSound
  <1> QED BY <1>1, <1>2, <1>3 DEF UpdateBest

\* The recovery context comes between a failure and its answer.
LEMMA RecoveryContextSound ==
  ASSUME NEW x \in Exps, Ready(x), RecoveryContext(x)
  PROVE  StepSound(x)
  <1>0. TypeOK /\ lane[x].pc = "recover"
    BY DEF RecoveryContext, At, Ready
  <1>1. CASE ContextCreated("worker") /\ To(x, "answer")
    <2>1. PICK m : m = [lane[x] EXCEPT !.pc = "answer"] /\ lane' = [lane EXCEPT ![x] = m]
      BY <1>1 DEF To, Lane
    <2>2. /\ IsLane(m) /\ m.pc = "answer" /\ m.recorded = lane[x].recorded
          /\ m.stages = lane[x].stages /\ m.template = lane[x].template
          /\ m.site = lane[x].site /\ m.owner = lane[x].owner
      BY <2>1 DEF IsLane, Ready, LaneSound
    <2>3. [Next]_vars /\ node' = node /\ evid' = evid /\ run'.queries = run.queries
      BY <1>0, <1>1, ContextMoves DEF Roles
    <2>4. Touches(x) /\ lane'[x] = m
      BY <1>0, <2>1, <2>3 DEF Touches, TypeOK, Ready
    <2>5. StagesFollowPlan(m, evid[x])
      BY <1>0, <2>2 DEF Ready, LaneSound, StagesFollowPlan, Duty, Repaired, Answering
    <2>6. LaneSound(m, node[x], evid[x])
      BY <1>0, <2>2, <2>5 DEF Ready, LaneSound, Placed, AgreesAt, FailureIsAtHand,
         CodingUnrecorded,
         Answering, Repaired, StatusFor
    <2> QED BY <2>1, <2>2, <2>3, <2>4, <2>6 DEF StepSound
  <1>2. CASE Refused(x, CanContextCreated)
    BY <1>0, <1>2, RefusedSound
  <1> QED BY <1>1, <1>2 DEF RecoveryContext

\* An integrity violation stops the run, and its site goes on.
LEMMA FatalSound ==
  ASSUME NEW x \in Exps, Ready(x), Fatal(x)
  PROVE  StepSound(x)
  <1>0. TypeOK /\ lane[x].pc # "idle"
    BY DEF Fatal, At, Ready
  <1>1. GivesUpAt[lane[x].site] \in Ends
    BY DEF Fatal, At, Ready, LaneSound, Placed, GivesUpAt, Ends
  <1>2. CASE FatalStop /\ To(x, GivesUpAt[lane[x].site])
    BY <1>0, <1>1, <1>2, StopMoves, ToEndSound DEF FatalStop
  <1>3. CASE Defer(x, GivesUpAt[lane[x].site], "fatal")
    BY <1>0, <1>1, <1>3, DeferSound
  <1>4. CASE Refused(x, CanRunStopped)
    BY <1>0, <1>4, RefusedSound
  <1> QED BY <1>2, <1>3, <1>4 DEF Fatal

\* A spent budget stops the run at the next check.
LEMMA ExpireSound ==
  ASSUME NEW x \in Exps, Ready(x), Expire(x)
  PROVE  StepSound(x)
  <1>0. TypeOK /\ lane[x].pc # "idle"
    BY DEF Expire, At, Ready
  <1>1. CASE BudgetStop /\ To(x, "returned")
    BY <1>0, <1>1, StopMoves, ToEndSound DEF BudgetStop, Ends
  <1>2. CASE Defer(x, "returned", "budget")
    BY <1>0, <1>2, DeferSound DEF Ends
  <1>3. CASE Refused(x, CanRunStopped)
    BY <1>0, <1>3, RefusedSound
  <1> QED BY <1>1, <1>2, <1>3 DEF Expire

\* A refused append stops the run fail-closed, or is handed to the round.
LEMMA ControlPlaneFailureSound ==
  ASSUME NEW x \in Exps, Ready(x), ControlPlaneFailure(x)
  PROVE  StepSound(x)
  <1>0. TypeOK /\ lane[x].pc # "idle"
    BY DEF ControlPlaneFailure, At, Ready
  <1>1. CASE FatalStop /\ To(x, "returned")
    BY <1>0, <1>1, StopMoves, ToEndSound DEF FatalStop, Ends
  <1>2. ASSUME NEW p \in {"raised", "crashed"}, To(x, p), UNCHANGED vars
        PROVE  StepSound(x)
    BY <1>0, <1>2, ToEndSound DEF Ends, vars
  <1> QED BY <1>1, <1>2 DEF ControlPlaneFailure

\* Two lanes that stand at the same place with the same plan, whatever their
\* fingerprints say.
Alike(a, b) ==
    /\ IsLane(a) /\ a.pc = b.pc /\ a.try = b.try
    /\ a.stages = b.stages /\ a.template = b.template
    /\ a.site = b.site /\ a.owner = b.owner /\ a.recorded = b.recorded

\* Recording a decision and forgetting the failure only change the fingerprints.
LEMMA AnsweredFields ==
  ASSUME NEW x \in Exps, IsLane(lane[x]), NEW action, NEW m, m = Answered(x, action)
  PROVE  \E l, c : Alike(l, lane[x]) /\ c = Continued(x, l, action)
                   /\ (IsLane(c) => Alike(m, c))
  <1> DEFINE k == lane[x].fault
             w == lane[x].wiring \/ (k.class = "no_op" /\ action = "trae_repair")
             t == IF action = "adjust_approved_runtime_setting"
                  THEN lane[x].settings \cup {SelectedAdjustment(k.class, lane[x].settings)}
                  ELSE lane[x].settings
             l == [lane[x] EXCEPT !.wiring = w, !.settings = t]
             c == Continued(x, l, action)
  <1>1. m = [c EXCEPT !.fault = NoFault, !.again = FALSE]
    BY DEF Answered, Briefed
  <1> HIDE DEF k, w, t
  <1>2. Alike(l, lane[x])
    <2>1. PICK a : a = lane[x] /\ IsLane(a)
      OBVIOUS
    <2>2. l = [a EXCEPT !.wiring = w, !.settings = t]
      BY <2>1
    <2> HIDE DEF l
    <2>3. IsLane(l) /\ l.pc = a.pc /\ l.try = a.try /\ l.stages = a.stages
      BY <2>1, <2>2 DEF IsLane
    <2>4. /\ l.template = a.template /\ l.site = a.site /\ l.owner = a.owner
          /\ l.recorded = a.recorded
      BY <2>1, <2>2 DEF IsLane
    <2> QED BY <2>1, <2>3, <2>4 DEF Alike
  <1> HIDE DEF l
  <1>3. c = Continued(x, l, action)
    OBVIOUS
  <1> HIDE DEF c
  <1>4. ASSUME IsLane(c) PROVE Alike(m, c)
    BY <1>1, <1>4 DEF Alike, IsLane
  <1> QED BY <1>2, <1>3, <1>4

\* Where an answer leads, by what it is and the site it is given to.
LEMMA RerunFields ==
  ASSUME NEW x, NEW l, NEW action \in Reruns, l.site \in Rerunning
  PROVE  Continued(x, l, action) = Requeued(x, l)
  BY DEF Continued, Rerunning

\* A granted retry calls the same stage once more.
LEMMA RetryFields ==
  ASSUME NEW x, NEW l, IsLane(l), l.site \in DOMAIN RetryAt,
         NEW c, c = Continued(x, l, "retry_same_commit")
  PROVE  /\ IsLane(c) /\ c.pc = RetryAt[l.site] /\ c.try = 1
         /\ c.stages = l.stages /\ c.template = l.template
         /\ c.site = l.site /\ c.owner = l.owner /\ c.recorded = l.recorded
  <1>1. l.site \notin {"run", "finished"}
    BY DEF RetryAt
  <1>2. c = [l EXCEPT !.pc = RetryAt[l.site], !.try = 1]
    BY <1>1 DEF Continued
  <1> HIDE DEF RetryAt
  <1> QED BY <1>2 DEF IsLane

\* An answer that changes code starts a repair owned by its site.
LEMMA RepairFields ==
  ASSUME NEW x, NEW l, IsLane(l), NEW action \in CodeActions, l.site \in Repairing,
         NEW c, c = Continued(x, l, action)
  PROVE  /\ IsLane(c) /\ c.pc = "repair" /\ c.try = 0
         /\ c.stages = l.stages /\ c.template = l.template
         /\ c.owner = l.site /\ c.recorded = l.recorded
  <1>1. action \notin Reruns /\ action # "retry_same_commit"
    BY DEF CodeActions, Reruns
  <1>2. c = [l EXCEPT !.pc = "repair", !.try = 0, !.owner = l.site]
    BY <1>1 DEF Continued
  <1> QED BY <1>2 DEF IsLane

\* Any other answer has its site give up.
LEMMA GiveUpFields ==
  ASSUME NEW x, NEW l, IsLane(l), NEW action,
         ~(action \in Reruns /\ l.site \in Rerunning),
         ~(action = "retry_same_commit" /\ l.site \in DOMAIN RetryAt),
         ~(action \in CodeActions /\ l.site \in Repairing),
         NEW c, c = Continued(x, l, action)
  PROVE  IsLane(c) /\ c.pc = GivesUpAt[l.site]
  <1>1. c = [l EXCEPT !.pc = GivesUpAt[l.site]]
    BY DEF Continued, Rerunning
  <1> HIDE DEF GivesUpAt
  <1> QED BY <1>1 DEF IsLane

\* The recovery policy answers every failure with an action of the schema.
LEMMA RoutesAreActions == \A k, c : Route(k, c) \in RecoveryActions
  BY DEF Route, RunRoute, CandidateRoute, NoOpRoute, OwnerRoute, TransientRoute,
     Abandon, RecoveryActions, CodeActions

\* The status a retry resumes from is the one the retried call belongs to.
LEMMA RetriesResume ==
  ASSUME NEW site \in DOMAIN RetryAt, NEW f, FailureFits(site, f)
  PROVE  RecoveredStatus(f, "retry_same_commit") \in StatusFor[RetryAt[site]]
  <1>1. f = FailureOf[site]
    BY DEF FailureFits
  <1>2. RecoveredStatus(f, "retry_same_commit") = RetryStatus(f)
    BY DEF RecoveredStatus
  <1> QED BY <1>1, <1>2 DEF RetryAt, FailureOf, RetryStatus, StatusFor

\* A rerun of the same commit or with another setting starts from ready_to_run.
LEMMA RerunsResume ==
  ASSUME NEW action \in Reruns, NEW site \in Rerunning, NEW f, FailureFits(site, f)
  PROVE  RecoveredStatus(f, action) = "ready_to_run"
  BY DEF Reruns, FailureFits, RerunFailures, RecoveredStatus, RetryStatus

\* What is known of a lane whose failure is being answered.
LEMMA AtAnswer ==
  ASSUME NEW x \in Exps, Ready(x), At(x, "answer")
  PROVE  LET l == lane[x] IN
         /\ TypeOK /\ IsLane(l) /\ l.pc = "answer"
         /\ l.site \in DOMAIN GivesUpAt
         /\ l.site = "work" => l.owner \in Repairing
         /\ node[x].status = "recovering" => FailureFits(l.site, evid[x].failure)
         /\ l.site \notin {"code1", "work", "lane"} => "coding" \notin l.recorded
         /\ StagesFit(IF l.site = "work" THEN l.owner ELSE l.site, l.stages, l.template,
                      evid[x].request.fidelity)
  BY DEF Ready, At, LaneSound, Placed, FailureIsAtHand, CodingUnrecorded, StagesFollowPlan,
     Duty, Answering, Repaired

\* No answer accepts an experiment or makes it unknown.
LEMMA RecoveredIsOpen ==
  ASSUME NEW f, NEW action
  PROVE  RecoveredStatus(f, action) \notin {"absent", "accepted"}
  BY DEF RecoveredStatus, RetryStatus

\* The decision to go on as Answered says.
LEMMA AnsweredSound ==
  ASSUME NEW x \in Exps, Ready(x), At(x, "answer"), NEW action, [Next]_vars,
         RecoveryDecided(x, action), Lane(x, Answered(x, action))
  PROVE  StepSound(x)
  <1> DEFINE site == lane[x].site
             e == evid[x]
             s == RecoveredStatus(e.failure, action)
  <1>0. /\ TypeOK /\ IsLane(lane[x]) /\ lane[x].pc = "answer"
        /\ site \in DOMAIN GivesUpAt
        /\ site = "work" => lane[x].owner \in Repairing
        /\ site \notin {"code1", "work", "lane"} => "coding" \notin lane[x].recorded
        /\ StagesFit(IF site = "work" THEN lane[x].owner ELSE site, lane[x].stages,
                     lane[x].template, e.request.fidelity)
    BY AtAnswer
  <1>1. /\ Reaches(x, s, e.failure) /\ FailureFits(site, e.failure)
        /\ s \notin {"absent", "accepted"}
    BY <1>0, AtAnswer, RecoveryDecidedMoves, RecoveredIsOpen
  <1>2. PICK m : m = Answered(x, action) /\ Lane(x, m)
    OBVIOUS
  <1>3. PICK l, c : /\ Alike(l, lane[x]) /\ c = Continued(x, l, action)
                    /\ IsLane(c) => Alike(m, c)
    BY <1>0, <1>2, AnsweredFields
  <1>4. /\ IsLane(l) /\ l.site = site /\ l.owner = lane[x].owner
        /\ l.stages = lane[x].stages /\ l.template = lane[x].template
        /\ l.recorded = lane[x].recorded
    BY <1>3 DEF Alike
  <1> HIDE DEF site, e, s
  <1>5. CASE action \in Reruns /\ site \in Rerunning
    <2>1. c = Requeued(x, l)
      BY <1>3, <1>4, <1>5, RerunFields
    <2>2. l.stages = PlanAfter[evid[x].request.fidelity]
      BY <1>0, <1>4, <1>5 DEF StagesFit, AfterRequest, AfterRuns, Repairing, BeforeRuns,
         GivesUpAt,
         Rerunning, e
    <2>3. /\ IsLane(c) /\ c.pc = "launch" /\ c.recorded = l.recorded
          /\ StagesFit("launch", c.stages, c.template, evid[x].request.fidelity)
      BY <1>0, <1>4, <2>1, <2>2, RequeuedFields
    <2>4. /\ IsLane(m) /\ m.pc = "launch" /\ m.recorded = lane[x].recorded
          /\ StagesFit("launch", m.stages, m.template, evid[x].request.fidelity)
      BY <1>3, <1>4, <2>3 DEF Alike
    <2>5. s = "ready_to_run"
      BY <1>1, <1>5, RerunsResume DEF s
    <2>6. "coding" \notin m.recorded
      BY <1>0, <1>5, <2>4 DEF Rerunning
    <2>7. "ready_to_run" \in StatusFor["launch"] /\ "launch" \in Calls
      BY DEF StatusFor, Calls
    <2> QED BY ONLY x \in Exps, Ready(x), [Next]_vars, <1>1, <1>2, <2>4, <2>5, <2>6, <2>7,
               ReachingCallSound
  <1>6. CASE action = "retry_same_commit" /\ site \in DOMAIN RetryAt
    <2>1. /\ IsLane(c) /\ c.pc = RetryAt[site] /\ c.try = 1
          /\ c.stages = l.stages /\ c.template = l.template
          /\ c.site = l.site /\ c.owner = l.owner /\ c.recorded = l.recorded
      BY <1>3, <1>4, <1>6, RetryFields
    <2>2. /\ IsLane(m) /\ m.pc = RetryAt[site] /\ m.try = 1
          /\ m.stages = lane[x].stages /\ m.template = lane[x].template
          /\ m.owner = lane[x].owner /\ m.recorded = lane[x].recorded
      BY <1>3, <1>4, <2>1 DEF Alike
    <2>3. s \in StatusFor[RetryAt[site]]
      BY <1>1, <1>6, RetriesResume DEF s
    <2>4. CASE site = "work"
      <3>1. m.pc = "repair" /\ s \in StatusFor["repair"]
        BY <2>2, <2>3, <2>4 DEF RetryAt
      <3>2. lane' = [lane EXCEPT ![x] = m] /\ lane'[x] = m
        BY <1>2 DEF Lane, Ready
      <3>3. s = "proposed" /\ Reaches(x, s, e.failure)
        BY <1>1, <1>6, <2>4 DEF s, FailureFits, RetryAt, FailureOf, RecoveredStatus, RetryStatus
      <3>4. StagesFollowPlan(m, evid'[x])
        BY <1>0, <2>2, <2>4, <3>1, <3>3 DEF StagesFollowPlan, Duty, Repaired, Reaches, e
      <3>5. LaneSound(m, node'[x], evid'[x])
        BY <1>0, <2>2, <2>4, <3>1, <3>3, <3>4 DEF LaneSound, Placed, AgreesAt, FailureIsAtHand,
           CodingUnrecorded, Answering, Repaired, StatusFor, Reaches
      <3> QED BY <3>1, <3>2, <3>3, <3>5 DEF StepSound, Reaches
    <2>5. CASE site # "work"
      <3>1. RetryAt[site] \in Calls
        BY <1>6, <2>5 DEF RetryAt, Calls
      <3>2. StagesFit(RetryAt[site], m.stages, m.template, e.request.fidelity)
        BY <1>0, <1>6, <2>2, <2>5, PlansCarryOver DEF RetryAt, BeforeFirstRun, BeforeRuns,
           AfterRequest, AfterRuns, Repairing, GivesUpAt, Scoring
      <3>3. "coding" \notin m.recorded
        BY <1>0, <1>6, <2>2, <2>5 DEF RetryAt
      <3> HIDE DEF RetryAt
      <3> QED BY ONLY x \in Exps, Ready(x), [Next]_vars, <1>1, <1>2, <2>2, <2>3, <3>1, <3>2,
         <3>3,
                 ReachingCallSound DEF e
    <2> QED BY <2>4, <2>5
  <1>7. CASE action \in CodeActions /\ site \in Repairing
    <2>1. /\ IsLane(c) /\ c.pc = "repair" /\ c.try = 0
          /\ c.stages = l.stages /\ c.template = l.template
          /\ c.owner = l.site /\ c.recorded = l.recorded
      BY <1>3, <1>4, <1>7, RepairFields
    <2>2. /\ IsLane(m) /\ m.pc = "repair" /\ m.try = 0
          /\ m.stages = lane[x].stages /\ m.template = lane[x].template
          /\ m.owner = site /\ m.recorded = lane[x].recorded
      BY <1>3, <1>4, <2>1 DEF Alike
    <2>3. s = "recovering"
      BY <1>7 DEF s, RecoveredStatus, CodeActions
    <2>4. site \notin {"code1", "work", "lane"}
      BY <1>7 DEF Repairing
    <2>5. lane' = [lane EXCEPT ![x] = m] /\ lane'[x] = m
      BY <1>2 DEF Lane, Ready
    <2>6. StagesFollowPlan(m, evid'[x])
      BY <1>0, <1>1, <2>2, <2>4 DEF StagesFollowPlan, Duty, Repaired, Reaches, e
    <2>7. LaneSound(m, node'[x], evid'[x])
      BY <1>0, <1>1, <1>7, <2>2, <2>3, <2>4, <2>6 DEF LaneSound, Placed, AgreesAt,
         FailureIsAtHand, CodingUnrecorded, Answering, Repaired, StatusFor, Reaches
    <2> QED BY <1>1, <2>2, <2>3, <2>5, <2>7 DEF StepSound, Reaches
  <1>8. CASE /\ ~(action \in Reruns /\ site \in Rerunning)
             /\ ~(action = "retry_same_commit" /\ site \in DOMAIN RetryAt)
             /\ ~(action \in CodeActions /\ site \in Repairing)
    <2>1. IsLane(c) /\ c.pc = GivesUpAt[site]
      BY <1>3, <1>4, <1>8, GiveUpFields
    <2>2. IsLane(m) /\ m.pc = GivesUpAt[site]
      BY <1>3, <2>1 DEF Alike
    <2>3. m.pc \in Ends
      BY <1>0, <2>2 DEF GivesUpAt, Ends
    <2> QED BY ONLY x \in Exps, Ready(x), [Next]_vars, <1>1, <1>2, <2>2, <2>3, ReachingEndSound
  <1> QED BY <1>5, <1>6, <1>7, <1>8

\* The decision on an integrity violation, after which the run is to be stopped.
LEMMA ViolationSound ==
  ASSUME NEW x \in Exps, Ready(x), At(x, "answer"), NEW action, [Next]_vars,
         RecoveryDecided(x, action),
         Lane(x, [Briefed(x, lane[x]) EXCEPT !.pc = "fatal"])
  PROVE  StepSound(x)
  <1> DEFINE b == Briefed(x, lane[x])
  <1>0. IsLane(lane[x]) /\ lane[x].site \in DOMAIN GivesUpAt /\ TypeOK
    BY AtAnswer
  <1>1. /\ Reaches(x, RecoveredStatus(evid[x].failure, action), evid[x].failure)
        /\ RecoveredStatus(evid[x].failure, action) \notin {"absent", "accepted"}
    BY <1>0, RecoveryDecidedMoves, RecoveredIsOpen
  <1>2. PICK m : m = [b EXCEPT !.pc = "fatal"] /\ lane' = [lane EXCEPT ![x] = m]
    BY DEF Lane
  <1>3. IsLane(b) /\ b.site = lane[x].site
    <2>1. PICK a : a = lane[x] /\ IsLane(a)
      BY <1>0
    <2>2. b = [a EXCEPT !.fault = NoFault, !.again = FALSE]
      BY <2>1 DEF Briefed
    <2> HIDE DEF b
    <2> QED BY <2>1, <2>2 DEF IsLane
  <1> HIDE DEF b
  <1>4. IsLane(m) /\ m.pc = "fatal" /\ m.site = lane[x].site
    BY <1>2, <1>3 DEF IsLane
  <1>5. lane'[x] = m /\ node'[x].status \notin {"absent", "accepted"}
    BY <1>1, <1>2 DEF Ready, Reaches
  <1>6. LaneSound(m, node'[x], evid'[x])
    BY <1>0, <1>4, <1>5 DEF LaneSound, Placed, AgreesAt, FailureIsAtHand, CodingUnrecorded,
       StagesFollowPlan, StagesFit, Duty, Answering, Repaired, StatusFor, BeforeFirstRun,
       AfterRequest, AfterRuns, Repairing, BeforeRuns, GivesUpAt, Scoring
  <1> QED BY <1>1, <1>2, <1>4, <1>5, <1>6 DEF StepSound, Reaches

\* The answer of the recovery policy is carried out as the ledger recorded it.
LEMMA AnswerSound ==
  ASSUME NEW x \in Exps, Ready(x), Answer(x)
  PROVE  StepSound(x)
  <1>0. lane[x].pc # "idle" /\ At(x, "answer")
    BY DEF Answer, At
  <1>1. ASSUME NEW action, action = Route(lane[x].fault, Context(x)), RecoveryDecided(x, action)
        PROVE  [Next]_vars
    <2>1. action \in RecoveryActions
      BY <1>1, RoutesAreActions
    <2> QED BY <1>1, <2>1 DEF Next, JudgeEvent
  <1>2. ASSUME NEW action, action = Route(lane[x].fault, Context(x)),
               RecoveryDecided(x, action),
               Lane(x, IF IntegrityViolation(lane[x].fault)
                       THEN [Briefed(x, lane[x]) EXCEPT !.pc = "fatal"]
                       ELSE Answered(x, action))
        PROVE  StepSound(x)
    BY <1>0, <1>1, <1>2, AnsweredSound, ViolationSound
  <1>3. ASSUME NEW admitted, Refused(x, admitted) PROVE StepSound(x)
    BY <1>0, <1>3, RefusedSound
  <1> QED BY <1>2, <1>3 DEF Answer

\* Every step of a lane is sound.
LEMMA LaneStepSound ==
  ASSUME NEW x \in Exps, Ready(x), LaneStep(x)
  PROVE  StepSound(x)
  BY BriefCoderSound, CreatePatchSound, GateASound, HaltAtGateSound, RepairPatchSound,
     CheckRepairSound, RepairUnavailableSound, EscapedSound, CloseEscapedSound, LaunchSound,
     RunCandidateSound, GateBSound, PromoteSmokeSound, AbandonSound, JudgingSound,
     EvaluateSound, DecideSound, UpdateBestSound, RecoveryContextSound, AnswerSound,
     FatalSound, ExpireSound, ControlPlaneFailureSound DEF LaneStep

-----------------------------------------------------------------------------
(***************************************************************************)
(* What the ledger's own rules keep.                                       *)
(***************************************************************************)
\* A commit that a gate is asked about exists, a receipt names an existing
\* commit, and a request draws a seed just when it is full.
LEMMA FoundedKept ==
  ASSUME TypeOK, AllFounded, [Next]_vars
  PROVE  AllFounded'
  <1> USE DEF TypeOK
  <1>1. CASE node' = node /\ evid' = evid
    BY <1>1 DEF AllFounded, Founded
  <1>2. ASSUME NEW x \in Exps, NEW n, NEW e, Founded(n, e),
               node' = [node EXCEPT ![x] = n], evid' = [evid EXCEPT ![x] = e]
        PROVE  AllFounded'
    BY <1>2 DEF AllFounded, Founded
  <1>3. evid = [y \in Exps |-> evid[y]] /\ node = [y \in Exps |-> node[y]]
    OBVIOUS
  <1>4. ASSUME NEW x \in Exps PROVE evid = [evid EXCEPT ![x] = evid[x]]
    BY <1>3
  <1>5. ASSUME NEW x \in Exps
        PROVE  /\ Founded(node[x], evid[x]) /\ node[x] \in NodeType /\ evid[x] \in EvidenceType
    BY DEF AllFounded
  <1>6. ASSUME NEW x \in Exps, WorkEvent(x) PROVE AllFounded'
    <2>1. ASSUME NEW k \in Keys, NEW parent, ExperimentProposed(x, k, parent) PROVE AllFounded'
      <3> DEFINE n == NewNode("proposed", k, parent)
      <3>1. node' = [node EXCEPT ![x] = n] /\ evid' = [evid EXCEPT ![x] = evid[x]]
        BY <2>1, <1>4 DEF ExperimentProposed
      <3>2. n.status = "proposed"
        BY DEF NewNode
      <3> HIDE DEF n
      <3>3. Founded(n, evid[x])
        BY <1>5, <3>2 DEF Founded
      <3> QED BY <1>2, <3>1, <3>3
    <2>2. CASE PatchCreated(x)
      <3> DEFINE n == [node[x] EXCEPT !.status = "patch_ready", !.commit = @ + 1, !.retries = 0]
      <3>1. node' = [node EXCEPT ![x] = n] /\ evid' = [evid EXCEPT ![x] = evid[x]]
        BY <2>2, <1>4 DEF PatchCreated, MoveTo
      <3>2. node[x].commit \in Nat /\ n.commit = node[x].commit + 1
        BY <1>5, BoundsAssumption DEF NodeType, Commits
      <3> HIDE DEF n
      <3>3. Founded(n, evid[x])
        BY <1>5, <3>2 DEF Founded
      <3> QED BY <1>2, <3>1, <3>3
    <2>3. ASSUME NEW accepted \in BOOLEAN, PatchChecked(x, accepted) PROVE AllFounded'
      <3> DEFINE s == IF accepted THEN "ready_to_run" ELSE "recovering"
                 f == IF accepted THEN evid[x].failure ELSE "patch_rejected"
                 n == [node[x] EXCEPT !.status = s]
                 r == [commit |-> node[x].commit, accepted |-> accepted]
                 e == [evid[x] EXCEPT !.receipt = r, !.failure = f]
      <3>1. node' = [node EXCEPT ![x] = n] /\ evid' = [evid EXCEPT ![x] = e]
        BY <2>3 DEF PatchChecked, MoveTo, Recorded
      <3>2. node[x].commit > 0
        BY <1>5, <2>3 DEF PatchChecked, CanPatchChecked, Founded
      <3>3. /\ n.status = s /\ n.commit = node[x].commit /\ e.receipt = r /\ e.failure = f
            /\ e.request = evid[x].request
        BY <1>5 DEF NodeType, EvidenceType
      <3>4. r.commit = node[x].commit
        OBVIOUS
      <3> HIDE DEF n, e, r
      <3>5. Founded(n, e)
        BY <1>5, <3>2, <3>3, <3>4 DEF Founded
      <3> QED BY <1>2, <3>1, <3>5
    <2>4. ASSUME NEW rq \in Requests, ExecutionStarted(x, rq) PROVE AllFounded'
      <3> DEFINE n == [node[x] EXCEPT !.status = "running"]
                 e == [evid[x] EXCEPT !.request = rq, !.finished = "none", !.output = "none"]
      <3>1. node' = [node EXCEPT ![x] = n] /\ evid' = [evid EXCEPT ![x] = e]
        BY <2>4 DEF ExecutionStarted, MoveTo, Recorded
      <3>2. n.status = "running" /\ e.request = rq /\ e.receipt = evid[x].receipt
        BY <1>5 DEF NodeType, EvidenceType
      <3>3. rq.seed = 0 <=> rq.fidelity # "full"
        BY DEF Requests
      <3> HIDE DEF n, e
      <3>4. Founded(n, e)
        BY <1>5, <3>2, <3>3 DEF Founded
      <3> QED BY <1>2, <3>1, <3>4
    <2>5. ASSUME NEW success \in BOOLEAN, ExecutionFinished(x, success) PROVE AllFounded'
      <3> DEFINE s == IF success THEN "output_ready" ELSE "recovering"
                 f == IF success THEN evid[x].failure ELSE "run_failed"
                 n == [node[x] EXCEPT !.status = s]
                 e == [evid[x] EXCEPT !.finished = IF success THEN "success" ELSE "failed",
                                      !.failure = f]
      <3>1. node' = [node EXCEPT ![x] = n] /\ evid' = [evid EXCEPT ![x] = e]
        BY <2>5 DEF ExecutionFinished, MoveTo, Recorded
      <3>2. /\ n.status = s /\ e.request = evid[x].request /\ e.receipt = evid[x].receipt
            /\ e.failure = f
        BY <1>5 DEF NodeType, EvidenceType
      <3> HIDE DEF n, e
      <3>3. Founded(n, e)
        BY <1>5, <3>2 DEF Founded
      <3> QED BY <1>2, <3>1, <3>3
    <2>6. ASSUME NEW accepted \in BOOLEAN, OutputChecked(x, accepted) PROVE AllFounded'
      <3> DEFINE s == IF accepted THEN "output_verified" ELSE "recovering"
                 f == IF accepted THEN evid[x].failure ELSE "output_rejected"
                 n == [node[x] EXCEPT !.status = s]
                 e == [evid[x] EXCEPT
                         !.output = IF accepted THEN "accepted" ELSE "rejected",
                         !.outputOf = IF accepted THEN evid[x].request.command
                                      ELSE evid[x].outputOf,
                         !.failure = f]
      <3>1. node' = [node EXCEPT ![x] = n] /\ evid' = [evid EXCEPT ![x] = e]
        BY <2>6 DEF OutputChecked, MoveTo, Recorded
      <3>2. /\ n.status = s /\ e.request = evid[x].request /\ e.receipt = evid[x].receipt
            /\ e.failure = f
        BY <1>5 DEF NodeType, EvidenceType
      <3> HIDE DEF n, e
      <3>3. Founded(n, e)
        BY <1>5, <3>2 DEF Founded
      <3> QED BY <1>2, <3>1, <3>3
    <2> QED BY <1>6, <2>1, <2>2, <2>3, <2>4, <2>5, <2>6 DEF WorkEvent
  <1>7. ASSUME NEW x \in Exps, JudgeEvent(x) PROVE AllFounded'
    <2>1. ASSUME NEW trust, NEW score, NEW index, EvaluationCompleted(x, trust, score, index)
          PROVE  AllFounded'
      <3> DEFINE n == node'[x]
                 e == evid'[x]
      <3>1. /\ Touches(x)
            /\ n.status = IF trust = "no_op" THEN "recovering" ELSE "evaluated"
            /\ e.failure = IF trust = "no_op" THEN "no_op" ELSE evid[x].failure
            /\ e.request = evid[x].request
        BY <2>1, EvaluationCompletedMoves
      <3>2. e.receipt = evid[x].receipt
        BY <1>5, <2>1 DEF EvaluationCompleted, Recorded, EvidenceType
      <3>3. PICK nn, ee : nn = n /\ ee = e
        OBVIOUS
      <3>4. node' = [node EXCEPT ![x] = nn] /\ evid' = [evid EXCEPT ![x] = ee]
        BY <3>1, <3>3 DEF Touches
      <3>5. Founded(nn, ee)
        BY <1>5, <3>1, <3>2, <3>3 DEF Founded
      <3> QED BY <1>2, <3>4, <3>5
    <2>2. ASSUME NEW stage \in AdapterStages, AdapterFailed(x, stage) PROVE AllFounded'
      <3> DEFINE n == [node[x] EXCEPT !.status = "recovering"]
                 e == [evid[x] EXCEPT !.failure = stage]
      <3>1. node' = [node EXCEPT ![x] = n] /\ evid' = [evid EXCEPT ![x] = e]
        BY <2>2 DEF AdapterFailed, MoveTo, Recorded
      <3>2. /\ n.status = "recovering" /\ n.commit = node[x].commit
            /\ e.request = evid[x].request /\ e.receipt = evid[x].receipt /\ e.failure = stage
        BY <1>5 DEF NodeType, EvidenceType
      <3>3. stage = "patch_gate" => node[x].status = "patch_ready"
        BY <2>2 DEF AdapterFailed, CanAdapterFailed, AdapterAt
      <3> HIDE DEF n, e
      <3>4. Founded(n, e)
        BY <1>5, <3>2, <3>3 DEF Founded
      <3> QED BY <1>2, <3>1, <3>4
    <2>3. ASSUME NEW action \in RecoveryActions, RecoveryDecided(x, action) PROVE AllFounded'
      <3> DEFINE s == RecoveredStatus(evid[x].failure, action)
                 p == IF action \in CodeActions
                      THEN Higher(node[x].repairs, RepairAttempt(x)) ELSE node[x].repairs
                 t == IF action = "retry_same_commit" THEN node[x].retries + 1
                      ELSE node[x].retries
                 n == [node[x] EXCEPT !.status = s, !.repairs = p, !.retries = t]
                 e == [evid[x] EXCEPT !.recovery = action]
      <3>1. node' = [node EXCEPT ![x] = n] /\ evid' = [evid EXCEPT ![x] = e]
        BY <2>3 DEF RecoveryDecided, Recorded
      <3>2. node[x].status = "recovering"
        BY <2>3 DEF RecoveryDecided, CanRecoveryDecided
      <3>3. s = "patch_ready" => evid[x].failure = "patch_gate"
        BY DEF RecoveredStatus, RetryStatus
      <3> HIDE DEF s, p, t
      <3>4. /\ n.status = s /\ n.commit = node[x].commit
            /\ e.request = evid[x].request /\ e.receipt = evid[x].receipt
            /\ e.failure = evid[x].failure
        BY <1>5 DEF NodeType, EvidenceType
      <3> HIDE DEF n, e
      <3>5. Founded(n, e)
        BY <1>5, <3>2, <3>3, <3>4 DEF Founded
      <3> QED BY <1>2, <3>1, <3>5
    <2>4. ASSUME NEW kind \in DecisionKinds, NEW fidelity, NEW next, NEW eligible,
                 ExperimentDecided(x, kind, fidelity, eligible, next)
          PROVE  AllFounded'
      <3>1. Touches(x) /\ node'[x].status = DecidedStatus[kind] /\ evid' = evid
        BY <2>4, ExperimentDecidedMoves DEF Reaches, ExperimentDecided
      <3>2. PICK n : n = node'[x] /\ node' = [node EXCEPT ![x] = n]
        BY <3>1 DEF Touches
      <3>3. n.status \notin {"patch_ready", "recovering"}
        BY <3>1, <3>2 DEF DecidedStatus, DecisionKinds
      <3>4. Founded(n, evid[x]) /\ evid' = [evid EXCEPT ![x] = evid[x]]
        BY <1>4, <1>5, <3>1, <3>3 DEF Founded
      <3> QED BY <1>2, <3>2, <3>4
    <2>5. CASE BestUpdated(x)
      BY <1>1, <2>5 DEF BestUpdated
    <2> QED BY <1>7, <2>1, <2>2, <2>3, <2>4, <2>5 DEF JudgeEvent
  <1>8. CASE RunEvent
    BY <1>1, <1>8 DEF RunEvent, RunStarted, ContractVerified, BaselineVerified, ContextCreated,
       PlannerRecommended, PlanningFailed, RunStopped, FinalSelected, SubmissionChecked
  <1>9. CASE UNCHANGED vars
    BY <1>1, <1>9 DEF vars
  <1> QED BY <1>6, <1>7, <1>8, <1>9 DEF Next

\* The incumbent only gets better once something was accepted, and research that
\* is over stays over.
LEMMA BestGrows ==
  ASSUME TypeOK, IInv, [Next]_vars, NEW y \in Exps, node[y].status # "absent"
  PROVE  /\ best'.score >= best.score /\ best'.score \in Int /\ best.score \in Int
         /\ Researching' => Researching
  <1>1. run.status # "initializing"
    BY DEF IInv, NothingBeforeBaseline
  <1>2. best.score \in Int /\ best'.score \in Int
    <2>1. TypeOK'
      BY TypePreserved
    <2> QED BY <2>1, DomainAssumption DEF TypeOK, BestType
  <1>3. best' = best \/ \E x \in Exps : BestUpdated(x)
    <2>1. CASE RunEvent
      BY <1>1, <2>1 DEF RunEvent, RunStarted, ContractVerified, BaselineVerified,
         ContextCreated,
         PlannerRecommended, PlanningFailed, RunStopped, FinalSelected, SubmissionChecked
    <2>2. ASSUME NEW x \in Exps, WorkEvent(x) PROVE best' = best
      BY <2>2 DEF WorkEvent, ExperimentProposed, PatchCreated, PatchChecked, ExecutionStarted,
         ExecutionFinished, OutputChecked
    <2>3. ASSUME NEW x \in Exps, JudgeEvent(x) PROVE best' = best \/ BestUpdated(x)
      BY <2>3 DEF JudgeEvent, EvaluationCompleted, AdapterFailed, RecoveryDecided,
         ExperimentDecided
    <2> QED BY <2>1, <2>2, <2>3 DEF Next, vars
  <1>4. best'.score >= best.score
    <2>1. ASSUME NEW x \in Exps, BestUpdated(x) PROVE best'.score >= best.score
      <3>1. best'.score = node[x].score /\ node[x].score > best.score
        BY <2>1 DEF BestUpdated, CanBestUpdated
      <3>2. node[x].score \in Int
        BY DomainAssumption DEF TypeOK, NodeType
      <3> QED BY <1>2, <3>1, <3>2
    <2> QED BY <1>2, <1>3, <2>1
  <1>5. \/ run'.status = run.status \/ Accepting
        \/ run'.status \in {"stopped", "failed", "finalizing", "finalized"}
    <2>1. CASE RunEvent
      BY <1>1, <2>1, RunFields DEF RunEvent, RunStarted, ContractVerified, BaselineVerified,
         ContextCreated, PlannerRecommended, PlanningFailed, RunStopped, FinalSelected,
         SubmissionChecked, CanContextCreated, CanRunStopped
    <2>2. ASSUME NEW x \in Exps, WorkEvent(x) PROVE run'.status = run.status \/ Accepting
      BY <2>2, RunFields DEF WorkEvent, ExperimentProposed, CanPropose, PatchCreated,
         PatchChecked,
         ExecutionStarted, ExecutionFinished, OutputChecked, MoveTo
    <2>3. ASSUME NEW x \in Exps, JudgeEvent(x) PROVE run'.status = run.status
      BY <2>3, RunFields DEF JudgeEvent, EvaluationCompleted, AdapterFailed, RecoveryDecided,
         ExperimentDecided, BestUpdated, MoveTo
    <2> QED BY <2>1, <2>2, <2>3 DEF Next, vars
  <1> QED BY <1>2, <1>4, <1>5 DEF Researching, Accepting

-----------------------------------------------------------------------------
(***************************************************************************)
(* The invariant is kept by every step.                                    *)
(***************************************************************************)
\* A gain is not lost by the step its own lane takes after the acceptance.
LEMMA OwnGainKept ==
  ASSUME NEW x \in Exps, HInv, LaneStep(x), StepSound(x)
  PROVE  GainKept(lane[x], node[x])'
  <1> SUFFICES ASSUME node'[x].status = "accepted", node'[x].eligible, lane'[x].pc # "best"
               PROVE  GainKept(lane[x], node[x])'
    BY DEF GainKept
  <1>0. /\ TypeOK /\ IInv /\ [Next]_vars /\ node'[x] = node[x]
        /\ lane = [y \in Exps |-> lane[y]]
    BY DEF HInv, StepSound, LanesSound
  <1>1. GainKept(lane[x], node[x]) /\ node[x].status = "accepted" /\ node[x].eligible
    BY <1>0 DEF HInv, GainsKept
  <1>2. lane[x].pc \in {"idle", "best", "returned", "refused", "raised", "crashed"}
    BY <1>1 DEF GainKept
  <1>3. UpdateBest(x) \/ ControlPlaneFailure(x)
    BY <1>2 DEF LaneStep, At, BriefCoder, CreatePatch, GateA, HaltAtGate, RepairPatch,
       CheckRepair,
       RepairUnavailable, Escaped, CloseEscaped, Launch, RunCandidate, GateB, PromoteSmoke,
       Abandon_experiment, Judging, Evaluate, Decide, RecoveryContext, Answer, Fatal, Expire
  <1>4. /\ best'.score >= best.score /\ best'.score \in Int /\ best.score \in Int
        /\ Researching' => Researching
    BY <1>0, <1>1, BestGrows
  <1>5. node[x].score \in Int
    BY <1>0, DomainAssumption DEF TypeOK, NodeType
  <1>6. IsLane(lane[x])
    BY DEF HInv, LanesSound, LaneSound
  <1>7. ASSUME NEW p, To(x, p) PROVE lane'[x].pc = p
    BY <1>0, <1>6, <1>7 DEF To, Lane, IsLane
  <1>8. CASE UpdateBest(x)
    <2>1. CASE node[x].score > best.score /\ BestUpdated(x) /\ To(x, "returned")
      <3>1. best'.score = node[x].score
        BY <2>1 DEF BestUpdated
      <3> QED BY <1>0, <1>5, <1>7, <2>1, <3>1 DEF GainKept
    <2>2. CASE Refused(x, CanBestUpdated(x))
      <3>1. lane'[x].pc = "refused" /\ best' = best /\ run' = run
        BY <1>7, <2>2 DEF Refused, vars
      <3>2. ~Researching \/ best.score >= node[x].score
        BY <1>1, <1>4, <1>5, <2>2 DEF Refused, CanBestUpdated
      <3> QED BY <1>0, <1>4, <3>1, <3>2 DEF GainKept
    <2>3. CASE ~(node[x].score > best.score) /\ To(x, "returned") /\ UNCHANGED vars
      <3>1. lane'[x].pc = "returned" /\ best' = best
        BY <1>7, <2>3 DEF vars
      <3> QED BY <1>0, <1>4, <1>5, <2>3, <3>1 DEF GainKept
    <2> QED BY <1>8, <2>1, <2>2, <2>3 DEF UpdateBest
  <1>9. CASE ControlPlaneFailure(x)
    <2>1. best.score >= node[x].score \/ ~Researching
      BY <1>1, <1>9 DEF ControlPlaneFailure, At, GainKept
    <2>2. CASE FatalStop /\ To(x, "returned")
      <3>1. Researching /\ best' = best
        BY <2>2 DEF FatalStop, RunStopped, CanRunStopped, Accepting, Researching
      <3> QED BY <1>0, <1>7, <2>1, <2>2, <3>1 DEF GainKept
    <2>3. ASSUME NEW p \in {"raised", "crashed"}, To(x, p), UNCHANGED vars
          PROVE  GainKept(lane[x], node[x])'
      <3>1. lane'[x].pc = p /\ best' = best
        BY <1>7, <2>3 DEF vars
      <3> QED BY <1>0, <1>4, <2>1, <3>1 DEF GainKept
    <2> QED BY <1>9, <2>2, <2>3 DEF ControlPlaneFailure
  <1> QED BY <1>3, <1>8, <1>9

\* A sound step of one lane keeps the invariant, if it loses no gain of its own.
LEMMA StepKeeps ==
  ASSUME NEW x \in Exps, HInv, StepSound(x), GainKept(lane[x], node[x])'
  PROVE  HInv'
  <1>0. /\ TypeOK /\ IInv /\ AllFounded /\ [Next]_vars /\ Touches(x)
        /\ lane = [y \in Exps |-> lane[y]] /\ lane' = [lane EXCEPT ![x] = lane'[x]]
    BY DEF HInv, StepSound, LanesSound
  <1>1. TypeOK' /\ IInv' /\ AllFounded'
    BY <1>0, TypePreserved, NextSound, FoundedKept
  <1>2. ASSUME NEW y \in Exps \ {x}
        PROVE  node'[y] = node[y] /\ evid'[y] = evid[y] /\ lane'[y] = lane[y]
    BY <1>0 DEF Touches, TypeOK
  <1>3. LanesSound'
    <2>1. lane' = [y \in Exps |-> lane'[y]]
      BY <1>0
    <2>2. ASSUME NEW y \in Exps PROVE LaneSound(lane'[y], node'[y], evid'[y])
      <3>1. CASE y = x
        BY <3>1 DEF StepSound
      <3>2. CASE y # x
        BY <1>2, <3>2 DEF HInv, LanesSound
      <3> QED BY <3>1, <3>2
    <2> QED BY <2>1, <2>2 DEF LanesSound
  <1>4. lane'[x].pc = "judge" => Judging(x)
    BY DEF StepSound
  <1>5. OneJudge'
    <2>1. ASSUME lane'[x].pc = "judge", NEW y \in Exps \ {x} PROVE lane'[y].pc # "judge"
      BY <1>2, <1>4, <2>1 DEF Judging
    <2> QED BY <1>2, <2>1 DEF OneJudge, HInv
  <1>6. QueryIndexIsFresh'
    <2> SUFFICES ASSUME NEW y \in Exps, lane'[y].pc = "judge", lane'[y].try = 0,
                        evid'[y].request.fidelity = "full"
                 PROVE  lane'[y].index = run'.queries + 1
      BY DEF QueryIndexIsFresh
    <2>1. CASE y = x
      <3> DEFINE i == IF evid[x].request.fidelity # "full" THEN 0
                      ELSE IF lane[x].try = 1 THEN lane[x].index ELSE run.queries + 1
      <3>1. Judging(x)
        BY <1>4, <2>1
      <3>2. lane' = [lane EXCEPT ![x] = [lane[x] EXCEPT !.pc = "judge", !.index = i]]
        BY <3>1 DEF Judging, Lane
      <3>3. run' = run /\ evid' = evid
        BY <3>1 DEF Judging, vars
      <3>4. IsLane(lane[x])
        BY DEF HInv, LanesSound, LaneSound
      <3> HIDE DEF i
      <3>5. lane'[x].index = i /\ lane'[x].try = lane[x].try
        BY <1>0, <3>2, <3>4 DEF IsLane
      <3>6. i = run.queries + 1
        BY <2>1, <3>3, <3>5 DEF i
      <3> QED BY <2>1, <3>3, <3>5, <3>6
    <2>2. CASE y # x
      <3>1. lane[y].pc = "judge" /\ lane[y] = lane'[y] /\ evid[y] = evid'[y]
        BY <1>2, <2>2
      <3>2. lane[x].pc # "judge"
        BY <2>2, <3>1 DEF HInv, OneJudge
      <3>3. run'.queries = run.queries
        BY <3>2 DEF StepSound
      <3> QED BY <3>1, <3>3 DEF HInv, QueryIndexIsFresh
    <2> QED BY <2>1, <2>2
  <1>7. GainsKept'
    <2>1. ASSUME NEW y \in Exps PROVE GainKept(lane[y], node[y])'
      <3>1. CASE y = x
        BY <3>1
      <3>2. CASE y # x /\ node[y].status = "accepted" /\ node[y].eligible
        <4>1. /\ GainKept(lane[y], node[y]) /\ node'[y] = node[y] /\ lane'[y] = lane[y]
          BY <1>2, <3>2 DEF HInv, GainsKept
        <4>2. /\ best'.score >= best.score /\ best'.score \in Int /\ best.score \in Int
              /\ Researching' => Researching
          BY <1>0, <3>2, BestGrows
        <4>3. node[y].score \in Int
          BY <1>0, DomainAssumption DEF TypeOK, NodeType
        <4>4. best.score >= node[y].score => best'.score >= node[y].score
          BY <4>2, <4>3
        <4> QED BY <4>1, <4>2, <4>4 DEF GainKept
      <3>3. CASE y # x /\ ~(node[y].status = "accepted" /\ node[y].eligible)
        BY <1>2, <3>3 DEF GainKept
      <3> QED BY <3>1, <3>2, <3>3
    <2> QED BY <2>1 DEF GainsKept
  <1> QED BY <1>1, <1>3, <1>5, <1>6, <1>7 DEF HInv

\* The rounds append run events only, and leave the lanes to themselves.
LEMMA RoundsAreQuiet ==
  ASSUME HInv, Bootstrap \/ Loop \/ PlannerFails \/ PlannerStops \/ EndRound \/ Resume
               \/ BudgetExpires
  PROVE  /\ [Next]_vars /\ node' = node /\ evid' = evid /\ run'.queries = run.queries
         /\ lane' = lane
  <1>0. TypeOK
    BY DEF HInv
  <1> DEFINE quiet == /\ [Next]_vars /\ node' = node /\ evid' = evid
                      /\ run'.queries = run.queries
  <1>1. ASSUME RunStarted \/ ContractVerified \/ BaselineVerified \/ PlannerRecommended
               \/ PlanningFailed
        PROVE  quiet
    BY <1>0, <1>1, RunFields DEF RunStarted, ContractVerified, BaselineVerified,
       PlannerRecommended, PlanningFailed, Next, RunEvent
  <1>2. ASSUME UNCHANGED vars PROVE quiet
    BY <1>2 DEF vars
  <1>3. ASSUME ContextCreated("planner") PROVE quiet
    BY <1>0, <1>3, ContextMoves DEF Roles
  <1>4. ASSUME FatalStop \/ BudgetStop PROVE quiet
    BY <1>0, <1>4, StopMoves DEF FatalStop, BudgetStop
  <1> HIDE DEF quiet
  <1>5. quiet
    BY <1>1, <1>2, <1>3, <1>4 DEF Bootstrap, Loop, PlannerFails, PlannerStops, EndRound, Resume,
       BudgetExpires
  <1>6. lane' = lane
    BY DEF Bootstrap, Loop, PlannerFails, PlannerStops, EndRound, Resume, BudgetExpires, Outer,
       Ended, harness
  <1> QED BY <1>5, <1>6 DEF quiet

\* A step that leaves the experiments and the lanes alone keeps the invariant.
LEMMA QuietKeeps ==
  ASSUME HInv, [Next]_vars, node' = node, evid' = evid, run'.queries = run.queries, lane' = lane
  PROVE  HInv'
  <1>0. TypeOK /\ IInv /\ AllFounded
    BY DEF HInv
  <1>1. TypeOK' /\ IInv' /\ AllFounded'
    BY <1>0, TypePreserved, NextSound, FoundedKept
  <1>2. LanesSound' /\ OneJudge' /\ QueryIndexIsFresh'
    BY DEF HInv, LanesSound, OneJudge, QueryIndexIsFresh
  <1>3. ASSUME NEW y \in Exps PROVE GainKept(lane[y], node[y])'
    <2> SUFFICES ASSUME node[y].status = "accepted", node[y].eligible
                 PROVE  GainKept(lane[y], node[y])'
      BY DEF GainKept
    <2>1. GainKept(lane[y], node[y])
      BY DEF HInv, GainsKept
    <2>2. /\ best'.score >= best.score /\ best'.score \in Int /\ best.score \in Int
          /\ Researching' => Researching
      BY <1>0, BestGrows
    <2>3. node[y].score \in Int
      BY <1>0, DomainAssumption DEF TypeOK, NodeType
    <2>4. best.score >= node[y].score => best'.score >= node[y].score
      BY <2>2, <2>3
    <2> QED BY <2>1, <2>2, <2>4 DEF GainKept
  <1> QED BY <1>1, <1>2, <1>3 DEF HInv, GainsKept

\* The lane of an experiment that nothing was done about.
LEMMA NewLaneIsLane == IsLane(NewLane) /\ NewLane.pc = "idle"
  BY DEF NewLane, IsLane

\* A proposed experiment begins with a lane that has done nothing yet.
LEMMA ProposeKeeps ==
  ASSUME HInv, Propose
  PROVE  HInv' /\ [Next]_vars
  <1>0. TypeOK /\ lane = [y \in Exps |-> lane[y]]
    BY DEF HInv, LanesSound
  <1>1. PICK x \in Unproposed, k \in Keys, p \in {"proposed", "expire"} :
          /\ ExperimentProposed(x, k, Baseline)
          /\ lane' = [lane EXCEPT ![x].pc = p]
    BY DEF Propose, Unexpired
  <1>2. x \in Exps /\ node[x].status = "absent" /\ x # Baseline
    BY DomainAssumption DEF Unproposed, Proposed
  <1>3. lane[x] = NewLane
    BY <1>2 DEF HInv, LanesSound, LaneSound, AgreesAt
  <1>4. [Next]_vars
    BY <1>1, <1>2 DEF Next, WorkEvent
  <1>5. PICK m : m = [NewLane EXCEPT !.pc = p] /\ lane' = [lane EXCEPT ![x] = m]
    BY <1>1, <1>3
  <1>6. IsLane(m) /\ m.pc = p /\ m.stages = FidelityPlan /\ ~m.template /\ m.recorded = {}
    BY <1>5 DEF NewLane, IsLane
  <1>7. lane'[x] = m
    BY <1>0, <1>2, <1>5
  <1>8. /\ Touches(x) /\ node'[x].status = "proposed" /\ run'.queries = run.queries
    BY <1>0, <1>1, <1>2, RunFields DEF ExperimentProposed, Touches, TypeOK, NewNode
  <1>9. LaneSound(m, node'[x], evid'[x])
    <2>1. CASE p = "expire"
      <3>1. m.pc \in Ends
        BY <1>6, <2>1 DEF Ends
      <3> QED BY <1>6, <1>8, <3>1, EndsAreSound
    <2>2. CASE p = "proposed"
      <3>1. m = [NewLane EXCEPT !.pc = "proposed"]
        BY <1>5, <2>2
      <3>2. StagesFollowPlan(m, evid'[x])
        BY <1>6, <2>2 DEF StagesFollowPlan, StagesFit, Duty, Answering, Repaired, AfterRequest,
           AfterRuns, Repairing, BeforeRuns, GivesUpAt, Scoring
      <3> QED BY <1>6, <1>8, <2>2, <3>1, <3>2 DEF LaneSound, Placed, AgreesAt, FailureIsAtHand,
         CodingUnrecorded, Answering, Repaired, StatusFor
    <2> QED BY <1>1, <2>1, <2>2
  <1>10. StepSound(x)
    BY <1>1, <1>4, <1>5, <1>6, <1>7, <1>8, <1>9 DEF StepSound
  <1>11. GainKept(lane[x], node[x])'
    BY <1>8 DEF GainKept
  <1> QED BY <1>2, <1>4, <1>10, <1>11, StepKeeps

\* A crash forgets every lane, and what it forgets is not needed to go on.
LEMMA NewLanesSound ==
  ASSUME NEW n, NEW e
  PROVE  LaneSound(NewLane, n, e) /\ GainKept(NewLane, n)
  <1>1. StagesFollowPlan(NewLane, e)
    BY NewLaneIsLane DEF StagesFollowPlan, StagesFit, Duty, Answering, Repaired, BeforeFirstRun,
       AfterRequest, AfterRuns, Repairing, BeforeRuns, GivesUpAt, Scoring
  <1> QED BY <1>1, NewLaneIsLane DEF LaneSound, Placed, AgreesAt, FailureIsAtHand,
     CodingUnrecorded, Answering, Repaired, StatusFor, GainKept

\* Resuming after a crash starts from lanes that know nothing.
LEMMA CrashKeeps ==
  ASSUME HInv, Crash
  PROVE  HInv' /\ [Next]_vars
  <1>1. UNCHANGED vars /\ lane' = [x \in Exps |-> NewLane]
    BY DEF Crash
  <1>2. \A x \in Exps : lane'[x] = NewLane
    BY <1>1
  <1>3. TypeOK' /\ IInv' /\ AllFounded'
    <2>1. TypeOK /\ IInv /\ AllFounded /\ [Next]_vars
      BY <1>1 DEF HInv
    <2> QED BY <2>1, TypePreserved, NextSound, FoundedKept
  <1>4. LanesSound'
    <2>1. lane' = [x \in Exps |-> lane'[x]]
      BY <1>1
    <2>2. \A x \in Exps : LaneSound(lane'[x], node'[x], evid'[x])
      BY <1>2, NewLanesSound
    <2> QED BY <2>1, <2>2 DEF LanesSound
  <1>5. OneJudge' /\ QueryIndexIsFresh'
    BY <1>2, NewLaneIsLane DEF OneJudge, QueryIndexIsFresh
  <1>6. GainsKept'
    BY <1>2, NewLaneIsLane DEF GainsKept, GainKept
  <1> QED BY <1>1, <1>3, <1>4, <1>5, <1>6 DEF HInv

\* A run begins with the invariant.
LEMMA HInitSound == HInit => HInv
  <1> SUFFICES ASSUME HInit PROVE HInv
    OBVIOUS
  <1>1. Init /\ lane = [x \in Exps |-> NewLane]
    BY DEF HInit
  <1>2. TypeOK /\ IInv
    BY <1>1, InitType, InitSound
  <1>3. AllFounded
    BY <1>1 DEF Init, AllFounded, Founded, NewNode, NewEvidence, NoReceipt, NoRequest
  <1>4. \A x \in Exps : lane[x] = NewLane
    BY <1>1
  <1>5. LanesSound
    <2>1. lane = [x \in Exps |-> lane[x]]
      BY <1>1
    <2> QED BY <1>4, <2>1, NewLanesSound DEF LanesSound
  <1>6. GainsKept
    BY <1>4, NewLanesSound DEF GainsKept
  <1>7. OneJudge /\ QueryIndexIsFresh
    BY <1>4, NewLaneIsLane DEF OneJudge, QueryIndexIsFresh
  <1> QED BY <1>2, <1>3, <1>5, <1>6, <1>7 DEF HInv

\* Every step of the research loop keeps the invariant, and is an event of the
\* ledger or none.
LEMMA HNextSound == HInv /\ [HNext]_hvars => HInv' /\ [Next]_vars
  <1> SUFFICES ASSUME HInv, [HNext]_hvars PROVE HInv' /\ [Next]_vars
    OBVIOUS
  <1>1. ASSUME NEW x \in Exps, LaneStep(x) PROVE HInv' /\ [Next]_vars
    <2>1. Ready(x)
      BY DEF Ready, HInv, AllFounded, LanesSound
    <2>2. StepSound(x)
      BY <1>1, <2>1, LaneStepSound
    <2>3. GainKept(lane[x], node[x])'
      BY <1>1, <2>2, OwnGainKept
    <2>4. HInv'
      BY <2>2, <2>3, StepKeeps
    <2> QED BY <2>2, <2>4 DEF StepSound
  <1>2. CASE Bootstrap \/ Loop \/ PlannerFails \/ PlannerStops \/ EndRound \/ Resume
             \/ BudgetExpires
    BY <1>2, RoundsAreQuiet, QuietKeeps
  <1>3. CASE Propose
    BY <1>3, ProposeKeeps
  <1>4. CASE Crash
    BY <1>4, CrashKeeps
  <1>5. CASE UNCHANGED hvars
    <2>1. UNCHANGED vars /\ lane' = lane
      BY <1>5 DEF hvars, vars
    <2> QED BY <2>1, QuietKeeps DEF vars
  <1> QED BY <1>1, <1>2, <1>3, <1>4, <1>5 DEF HNext, OuterStep

\* The invariant of the research loop.
LEMMA HarnessInvariance == HSpec => []HInv
  BY HInitSound, HNextSound, PTL DEF HSpec

-----------------------------------------------------------------------------
(***************************************************************************)
(* Sequential rounds: what a lane leaves behind when it ends.              *)
(***************************************************************************)
\* Rounds of one lane, whose adapters fail in the ways recovery/classifier.py
\* tells apart: no exception of theirs carries a code of the candidate's findings.
AdaptersReport ==
    \A f \in LedgerNames : Faults[f] \subseteq {Classify(g) : g \in Reported(f)}
Sequential == Width = 1 /\ AdaptersReport

\* A lane that has something left to do.
Working(x) == lane[x].pc \notin {"idle", "returned", "raised", "crashed"}

\* While research goes on, the phase says whether x's experiment is open.
PhaseTells(x) == Accepting => (Resumable <=> node[x].status \notin Live)

\* The names of the failures answered at the sites whose lane just returns when it
\* gives up.
NamesAt == [code0 |-> {"coding"}, code1 |-> {"coding"}, gate1 |-> {"patch_gate"},
            patch |-> {"patch_rejected"}, noop |-> {"no_op", "patch_rejected"},
            dec0 |-> {"decision"}, dec1 |-> {"decision"}]

\* What a lane must remember for its answers to close what it gives up: that the one
\* retry of a second attempt is spent, and what kind of failure it is answering.
AnswersClose(l, n) ==
    /\ l.owner # "dec0"
    /\ l.pc \in {"recover", "escaped"} => n.status \in Live
    /\ \/ l.pc \in {"coder", "gate", "decide"} /\ l.try # 0
       \/ l.pc \in Answering /\ l.site \in {"code1", "gate1", "dec1"}
       => n.retries >= 1
    /\ l.pc \in Answering /\ l.site \in DOMAIN NamesAt =>
         \E f \in NamesAt[l.site] : \E g \in Reported(f) : l.fault = Classify(g)

\* A sequential round: one lane at most is at work, on the only open experiment, and
\* only within its round; elsewhere the phase is one to go on from.
OneAtWork == \A x, y \in Exps : Working(x) /\ Working(y) => x = y
WorkIsInRounds ==
    \A x \in Exps : Working(x) => outer.pc = "round" /\ run.status # "initializing"
OpenIsAtWork ==
    \A x \in Exps : Researching /\ node[x].status \in Live =>
        /\ ~Resumable
        /\ Working(x) \/ outer.pc \in {"restart", "aborted"}
PausesAreResumable ==
    /\ outer.pc = "planning" => Accepting
    /\ outer.pc \in {"loop", "planning", "paused"} /\ Accepting => Resumable
    /\ /\ outer.pc = "round" /\ Accepting
       /\ \A x \in Exps : node[x].status \notin Live
       => Resumable
    /\ outer.pc # "sealing"

\* The loop's own state has the fields of outer and no other.
IsLoop(o) ==
    o = [pc |-> o.pc, pending |-> o.pending, expired |-> o.expired, crashes |-> o.crashes]

RoundInv ==
    /\ IsLoop(outer)
    /\ OneAtWork /\ WorkIsInRounds /\ OpenIsAtWork /\ PausesAreResumable
    /\ \A x \in Exps : AnswersClose(lane[x], node[x])

\* What a step of the one lane at work must establish.
StepCloses(x) ==
    /\ outer' = outer /\ run'.status # "initializing"
    /\ Accepting' => Accepting
    /\ PhaseTells(x)'
    /\ Accepting' /\ ~Working(x)' => node'[x].status \notin Live
    /\ AnswersClose(lane'[x], node'[x])

\* What is known of that lane.
Set(x) ==
    /\ Ready(x) /\ Working(x) /\ run.status # "initializing"
    /\ PhaseTells(x) /\ AnswersClose(lane[x], node[x])

-----------------------------------------------------------------------------
\* An open status is never closed, and its phase is one to go on from just when it is.
LEMMA PhasesTell ==
  /\ \A s \in Live : PhaseOf[s] \notin {"planning", "planner_context"} /\ s \notin Closed
  /\ \A s \in Closed : PhaseOf[s] = "planning" /\ s \notin Live
  BY DEF Live, Closed, PhaseOf

\* The ledger moves x, and the phase with it.
Tells(x) ==
    /\ run'.status # "initializing" /\ (Accepting' => Accepting)
    /\ PhaseTells(x)'

\* The event that moves an experiment sets the phase of its new status.
LEMMA MovesTell ==
  ASSUME TypeOK, NEW x \in Exps, run.status # "initializing",
         NEW s \in Live \cup Closed, node'[x].status = s,
         run'.phase = PhaseOf[s], run'.status = run.status
  PROVE  Tells(x)
  BY PhasesTell DEF Tells, PhaseTells, Accepting, Resumable

\* A patch keeps its experiment open.
LEMMA PatchCreatedTells ==
  ASSUME TypeOK, NEW x \in Exps, run.status # "initializing", PatchCreated(x)
  PROVE  Tells(x)
  <1>1. /\ node'[x].status = "patch_ready" /\ run'.phase = PhaseOf["patch_ready"]
        /\ run'.status = run.status
    BY RunFields DEF PatchCreated, MoveTo, TypeOK, NodeType
  <1> QED BY <1>1, MovesTell DEF Live

\* So does Gate A, whatever it finds.
LEMMA PatchCheckedTells ==
  ASSUME TypeOK, NEW x \in Exps, run.status # "initializing", NEW a \in BOOLEAN,
         PatchChecked(x, a)
  PROVE  /\ Tells(x) /\ node'[x].retries = node[x].retries
         /\ node'[x].status \in Live
  <1> DEFINE s == IF a THEN "ready_to_run" ELSE "recovering"
  <1>1. /\ node'[x].status = s /\ run'.phase = PhaseOf[s]
        /\ run'.status = run.status /\ node'[x].retries = node[x].retries
    BY RunFields DEF PatchChecked, MoveTo, TypeOK, NodeType
  <1>2. s \in Live
    BY DEF Live
  <1> HIDE DEF s
  <1> QED BY <1>1, <1>2, MovesTell

\* So does the start of a run.
LEMMA ExecutionStartedTells ==
  ASSUME TypeOK, NEW x \in Exps, run.status # "initializing", NEW rq, ExecutionStarted(x, rq)
  PROVE  Tells(x)
  <1>1. /\ node'[x].status = "running" /\ run'.phase = PhaseOf["running"]
        /\ run'.status = run.status
    BY RunFields DEF ExecutionStarted, MoveTo, TypeOK, NodeType
  <1> QED BY <1>1, MovesTell DEF Live

\* A run that ended leaves its experiment open, to be checked or answered.
LEMMA ExecutionFinishedTells ==
  ASSUME TypeOK, NEW x \in Exps, run.status # "initializing", NEW a \in BOOLEAN,
         ExecutionFinished(x, a)
  PROVE  Tells(x) /\ node'[x].status \in Live
  <1> DEFINE s == IF a THEN "output_ready" ELSE "recovering"
  <1>1. node'[x].status = s /\ run'.phase = PhaseOf[s] /\ run'.status = run.status
    BY RunFields DEF ExecutionFinished, MoveTo, TypeOK, NodeType
  <1>2. s \in Live
    BY DEF Live
  <1> HIDE DEF s
  <1> QED BY <1>1, <1>2, MovesTell

\* So does Gate B.
LEMMA OutputCheckedTells ==
  ASSUME TypeOK, NEW x \in Exps, run.status # "initializing", NEW a \in BOOLEAN,
         OutputChecked(x, a)
  PROVE  Tells(x) /\ node'[x].status \in Live
  <1> DEFINE s == IF a THEN "output_verified" ELSE "recovering"
  <1>1. node'[x].status = s /\ run'.phase = PhaseOf[s] /\ run'.status = run.status
    BY RunFields DEF OutputChecked, MoveTo, TypeOK, NodeType
  <1>2. s \in Live
    BY DEF Live
  <1> HIDE DEF s
  <1> QED BY <1>1, <1>2, MovesTell

\* So does an evaluation, to be decided on or answered.
LEMMA EvaluationCompletedTells ==
  ASSUME TypeOK, NEW x \in Exps, run.status # "initializing", NEW trust, NEW score, NEW index,
         EvaluationCompleted(x, trust, score, index)
  PROVE  Tells(x) /\ node'[x].status \in Live
  <1> DEFINE s == IF trust = "no_op" THEN "recovering" ELSE "evaluated"
  <1>1. node'[x].status = s /\ run'.phase = PhaseOf[s] /\ run'.status = run.status
    BY RunFields DEF EvaluationCompleted, TypeOK, NodeType
  <1>2. s \in Live
    BY DEF Live
  <1> HIDE DEF s
  <1> QED BY <1>1, <1>2, MovesTell

\* A recorded exception leaves its experiment open, and grants no retry.
LEMMA AdapterFailedTells ==
  ASSUME TypeOK, NEW x \in Exps, run.status # "initializing", NEW stage, AdapterFailed(x, stage)
  PROVE  /\ Tells(x) /\ node'[x].retries = node[x].retries
         /\ node'[x].status \in Live
  <1>1. /\ node'[x].status = "recovering" /\ run'.phase = PhaseOf["recovering"]
        /\ run'.status = run.status /\ node'[x].retries = node[x].retries
    BY RunFields DEF AdapterFailed, MoveTo, TypeOK, NodeType
  <1> QED BY <1>1, MovesTell DEF Live

\* A recovery decision settles the status and the phase together.
LEMMA RecoveryDecidedTells ==
  ASSUME TypeOK, NEW x \in Exps, run.status # "initializing", NEW action,
         RecoveryDecided(x, action)
  PROVE  /\ Tells(x) /\ Accepting
         /\ node'[x].status = RecoveredStatus(evid[x].failure, action)
         /\ node'[x].retries = IF action = "retry_same_commit" THEN node[x].retries + 1
                               ELSE node[x].retries
  <1> DEFINE s == RecoveredStatus(evid[x].failure, action)
  <1>1. /\ node'[x].status = s /\ run'.phase = PhaseOf[s] /\ run'.status = run.status
        /\ node'[x].retries = IF action = "retry_same_commit" THEN node[x].retries + 1
                              ELSE node[x].retries
    BY RunFields DEF RecoveryDecided, TypeOK, NodeType
  <1>2. s \in Live \cup Closed
    BY DEF Live, Closed, RecoveredStatus, RetryStatus
  <1>3. Accepting
    BY DEF RecoveryDecided, CanRecoveryDecided, Researching, Accepting
  <1> HIDE DEF s
  <1> QED BY <1>1, <1>2, <1>3, MovesTell DEF s

\* So does a verdict.
LEMMA ExperimentDecidedTells ==
  ASSUME TypeOK, NEW x \in Exps, run.status # "initializing", NEW kind \in DecisionKinds,
         NEW fidelity, NEW eligible, NEW next,
         ExperimentDecided(x, kind, fidelity, eligible, next)
  PROVE  /\ Tells(x) /\ node'[x].status = DecidedStatus[kind]
         /\ node'[x].retries = node[x].retries
  <1> DEFINE s == DecidedStatus[kind]
  <1>1. /\ node'[x].status = s /\ run'.phase = PhaseOf[s] /\ run'.status = run.status
        /\ node'[x].retries = node[x].retries
    BY RunFields DEF ExperimentDecided, TypeOK, NodeType
  <1>2. s \in Live \cup Closed
    BY DEF Live, Closed, DecidedStatus, DecisionKinds
  <1> HIDE DEF s
  <1> QED BY <1>1, <1>2, MovesTell DEF s

\* A stop ends research.
LEMMA StopTells ==
  ASSUME TypeOK, NEW x \in Exps, FatalStop \/ BudgetStop
  PROVE  Tells(x) /\ ~Accepting'
  <1>1. PICK reason : RunStopped(reason)
    BY DEF FatalStop, BudgetStop
  <1>2. run'.status \in {"stopped", "failed"}
    BY <1>1, RunFields DEF RunStopped
  <1> QED BY <1>2 DEF Tells, PhaseTells, Accepting

\* A context may be written for the worker of an open experiment.
LEMMA ContextTells ==
  ASSUME TypeOK, NEW x \in Exps, run.status # "initializing", node[x].status \in Live,
         ContextCreated("worker")
  PROVE  Tells(x)
  <1>1. /\ run'.phase = "worker_context" /\ run'.status = run.status /\ node' = node
    BY RunFields DEF ContextCreated, ContextPhase
  <1> QED BY <1>1 DEF Tells, PhaseTells, Accepting, Resumable

\* Where nothing is appended the phase says what it said.
LEMMA StutterTells ==
  ASSUME NEW x \in Exps, run.status # "initializing", PhaseTells(x), UNCHANGED vars
  PROVE  Tells(x)
  BY DEF Tells, PhaseTells, Accepting, Resumable, vars

-----------------------------------------------------------------------------
\* A lane that goes on keeps the rule with the event it appends.
LEMMA GoingOnCloses ==
  ASSUME NEW x \in Exps, Set(x), Tells(x), outer' = outer,
         NEW m, lane' = [lane EXCEPT ![x] = m],
         m.pc \notin {"idle", "returned", "raised", "crashed"},
         AnswersClose(m, node'[x])
  PROVE  StepCloses(x)
  <1>1. lane'[x] = m
    BY DEF Set, Ready
  <1> QED BY <1>1 DEF StepCloses, Tells, Working

\* A lane that ends has closed its experiment, or the run has stopped.
LEMMA EndingCloses ==
  ASSUME NEW x \in Exps, Set(x), Tells(x), outer' = outer,
         NEW m, lane' = [lane EXCEPT ![x] = m],
         ~Accepting' \/ node'[x].status \notin Live,
         m.pc \notin {"coder", "gate", "decide", "escaped"} \cup Answering,
         m.owner = lane[x].owner
  PROVE  StepCloses(x)
  <1>1. lane'[x] = m
    BY DEF Set, Ready
  <1>2. AnswersClose(m, node'[x])
    BY DEF AnswersClose, Set, Answering
  <1> QED BY <1>1, <1>2 DEF StepCloses, Tells

\* Nothing needs to be remembered but where a failure is answered or a stage retried.
LEMMA PlainCloses ==
  ASSUME NEW m, NEW n, m.owner # "dec0", m.pc \notin Answering,
         m.pc \in {"coder", "gate", "decide"} => m.try = 0,
         m.pc = "escaped" => n.status \in Live
  PROVE  AnswersClose(m, n)
  BY DEF AnswersClose, Answering

\* Moving to p changes the counter of the lane and nothing else.
LEMMA MovingFields ==
  ASSUME NEW x \in Exps, Set(x), NEW p, To(x, p)
  PROVE  /\ outer' = outer
         /\ \E m : /\ lane' = [lane EXCEPT ![x] = m] /\ m.pc = p
                   /\ m.owner = lane[x].owner /\ m.try = lane[x].try
                   /\ m.site = lane[x].site /\ m.fault = lane[x].fault
  <1> DEFINE m == [lane[x] EXCEPT !.pc = p]
  <1>1. lane' = [lane EXCEPT ![x] = m] /\ outer' = outer
    BY DEF To, Lane
  <1>2. /\ m.pc = p /\ m.owner = lane[x].owner /\ m.try = lane[x].try
        /\ m.site = lane[x].site /\ m.fault = lane[x].fault
    BY DEF Set, Ready, LaneSound, IsLane
  <1> HIDE DEF m
  <1> QED BY <1>1, <1>2

\* A lane that only moves keeps the rule, unless it leaves something open.
LEMMA ToCloses ==
  ASSUME NEW x \in Exps, Set(x), Tells(x),
         NEW p, p \notin {"coder", "gate", "decide"} \cup Answering,
         p \in {"idle", "returned", "raised", "crashed"} =>
            ~Accepting' \/ node'[x].status \notin Live,
         p = "escaped" => node'[x].status \in Live,
         To(x, p)
  PROVE  StepCloses(x)
  <1>1. outer' = outer
    BY MovingFields
  <1>2. PICK m : /\ lane' = [lane EXCEPT ![x] = m] /\ m.pc = p
                 /\ m.owner = lane[x].owner
    BY MovingFields
  <1>3. lane[x].owner # "dec0"
    BY DEF Set, AnswersClose
  <1>4. CASE p \in {"idle", "returned", "raised", "crashed"}
    BY <1>1, <1>2, <1>4, EndingCloses
  <1>5. CASE p \notin {"idle", "returned", "raised", "crashed"}
    <2>1. AnswersClose(m, node'[x])
      BY <1>2, <1>3, PlainCloses
    <2> QED BY <1>1, <1>2, <1>5, <2>1, GoingOnCloses
  <1> QED BY <1>4, <1>5

\* A refused append appends nothing.
LEMMA RefusedCloses ==
  ASSUME NEW x \in Exps, Set(x), NEW admitted, Refused(x, admitted)
  PROVE  StepCloses(x)
  <1>1. Tells(x)
    BY StutterTells DEF Refused, Set
  <1> QED BY <1>1, ToCloses DEF Refused, Answering

\* A stop settles whatever the lane was doing.
LEMMA StopCloses ==
  ASSUME NEW x \in Exps, Set(x), FatalStop \/ BudgetStop,
         NEW p, p \notin {"coder", "gate", "decide", "escaped"} \cup Answering, To(x, p)
  PROVE  StepCloses(x)
  <1>1. Tells(x) /\ ~Accepting'
    BY StopTells DEF Set, Ready
  <1> QED BY <1>1, ToCloses

\* What is known of the failure that a site answers.
AnswerKnown(site, k, n) ==
    /\ site \in {"code1", "gate1", "dec1"} => n.retries >= 1
    /\ site \in DOMAIN NamesAt =>
         \E f \in NamesAt[site] : \E g \in Reported(f) : k = Classify(g)

\* A recorded failure is one to be answered, on an open experiment.
LEMMA FailingCloses ==
  ASSUME NEW x \in Exps, Set(x), Tells(x), outer' = outer,
         NEW site, NEW k, NEW m, lane' = [lane EXCEPT ![x] = m],
         m.owner = lane[x].owner, m.site = site, m.fault = k,
         m.pc \in {"recover", "abandon", "expire"},
         m.pc = "recover" => node'[x].status \in Live,
         AnswerKnown(site, k, node'[x])
  PROVE  StepCloses(x)
  <1>1. AnswersClose(m, node'[x])
    BY DEF AnswersClose, Set, AnswerKnown, Answering
  <1> QED BY <1>1, GoingOnCloses

\* Recording a failure keeps the locals it does not name.
LEMMA FailingKeeps ==
  ASSUME NEW l, IsLane(l), NEW site, NEW k, NEW again, NEW m, m = Failing(l, site, k, again)
  PROVE  /\ IsLane(m) /\ m.pc = "recover" /\ m.owner = l.owner /\ m.site = site
         /\ m.fault = k
  BY DEF IsLane, Failing

\* An exception, recorded or not, is a failure to be answered.
LEMMA RaisesCloses ==
  ASSUME NEW x \in Exps, Set(x), NEW stage, NEW site, NEW kinds,
         RaisesOneOf(x, stage, site, kinds), node[x].status \in Live,
         \A k \in kinds : AnswerKnown(site, k, node[x])
  PROVE  StepCloses(x)
  <1>0. IsLane(lane[x]) /\ TypeOK
    BY DEF Set, Ready, LaneSound
  <1>1. ASSUME NEW k \in kinds, NEW again, AdapterFailed(x, stage),
               Lane(x, [Failing(lane[x], site, k, again) EXCEPT
                        !.recorded = IF site = "code0" THEN @
                                     ELSE @ \cup {RecordedStage(stage)}])
        PROVE  StepCloses(x)
    <2> DEFINE b == Failing(lane[x], site, k, again)
               r == IF site = "code0" THEN b.recorded
                    ELSE b.recorded \cup {RecordedStage(stage)}
               m == [b EXCEPT !.recorded = r]
    <2>1. lane' = [lane EXCEPT ![x] = m] /\ outer' = outer
      BY <1>1 DEF Lane
    <2>2. /\ IsLane(b) /\ b.pc = "recover" /\ b.owner = lane[x].owner /\ b.site = site
          /\ b.fault = k
      BY <1>0, FailingKeeps
    <2> HIDE DEF b, r
    <2>3. m.pc = "recover" /\ m.owner = lane[x].owner /\ m.site = site /\ m.fault = k
      BY <2>2 DEF IsLane
    <2> HIDE DEF m
    <2>4. Tells(x) /\ node'[x].retries = node[x].retries /\ node'[x].status \in Live
      BY <1>0, <1>1, AdapterFailedTells DEF Set
    <2>5. AnswerKnown(site, k, node'[x])
      BY <2>4 DEF AnswerKnown
    <2> QED BY <2>1, <2>3, <2>4, <2>5, FailingCloses
  <1>2. ASSUME NEW k \in kinds, Lane(x, Failing(lane[x], site, k, FALSE)), UNCHANGED vars
        PROVE  StepCloses(x)
    <2> DEFINE m == Failing(lane[x], site, k, FALSE)
    <2>1. lane' = [lane EXCEPT ![x] = m] /\ outer' = outer
      BY <1>2 DEF Lane
    <2>0. m = Failing(lane[x], site, k, FALSE)
      OBVIOUS
    <2> HIDE DEF m
    <2>2. m.pc = "recover" /\ m.owner = lane[x].owner /\ m.site = site /\ m.fault = k
      BY <1>0, <2>0 DEF IsLane, Failing
    <2>3. Tells(x) /\ node' = node
      BY <1>2, StutterTells DEF Set, vars
    <2>4. AnswerKnown(site, k, node'[x])
      BY <2>3
    <2> QED BY <2>1, <2>2, <2>3, <2>4, FailingCloses
  <1>3. CASE Refused(x, CanAdapterFailed(x, stage))
    BY <1>3, RefusedCloses
  <1> QED BY <1>1, <1>2, <1>3 DEF RaisesOneOf

\* A typed result that is a failure.
LEMMA ResultFailsCloses ==
  ASSUME NEW x \in Exps, Set(x), Tells(x), NEW l, IsLane(l), l.owner = lane[x].owner,
         NEW site, NEW k, NEW again,
         NEW p \in {"recover", "abandon", "expire"},
         Lane(x, [Failing(l, site, k, again) EXCEPT !.pc = p]),
         node'[x].status \in Live,
         AnswerKnown(site, k, node'[x])
  PROVE  StepCloses(x)
  <1> DEFINE b == Failing(l, site, k, again)
             m == [b EXCEPT !.pc = p]
  <1>1. lane' = [lane EXCEPT ![x] = m] /\ outer' = outer
    BY DEF Lane
  <1>2. /\ IsLane(b) /\ b.owner = lane[x].owner /\ b.site = site /\ b.fault = k
    BY FailingKeeps
  <1> HIDE DEF b
  <1>3. m.pc = p /\ m.owner = lane[x].owner /\ m.site = site /\ m.fault = k
    BY <1>2 DEF IsLane
  <1> HIDE DEF m
  <1> QED BY <1>1, <1>3, FailingCloses

\* A result accepted takes the lane to its next call.
LEMMA CallCloses ==
  ASSUME NEW x \in Exps, Set(x), Tells(x), NEW m, Lane(x, m), m.owner = lane[x].owner,
         m.pc \notin {"idle", "returned", "raised", "crashed", "escaped"} \cup Answering,
         m.pc \in {"coder", "gate", "decide"} => m.try = 0
  PROVE  StepCloses(x)
  <1>1. lane' = [lane EXCEPT ![x] = m] /\ outer' = outer
    BY DEF Lane
  <1>2. AnswersClose(m, node'[x])
    BY PlainCloses DEF Set, AnswersClose
  <1> QED BY <1>1, <1>2, GoingOnCloses

-----------------------------------------------------------------------------
\* What the adapters report, by name.
LEMMA FaultsAreReported ==
  ASSUME AdaptersReport, NEW f \in LedgerNames, NEW k \in Faults[f]
  PROVE  \E g \in Reported(f) : k = Classify(g)
  BY DEF AdaptersReport

\* An exception of the controller's own is one the decision stage reports.
LEMMA PlainIsReported == \E g \in Reported("decision") : PlainFault = Classify(g)
  <1> DEFINE g == [origin |-> "adapter", stage |-> "evaluation",
                   outcome |-> "infrastructure_error", code |-> "plain",
                   text |-> "plain", findings |-> {}]
  <1>1. g \in AdapterFailures("evaluation") /\ g.code # "candidate"
    BY DEF AdapterFailures, AdapterOutcome, Codes, Texts
  <1>2. g \in Reported("decision")
    BY <1>1 DEF Reported, FailuresOf, Stages
  <1> QED BY <1>2 DEF PlainFault

\* The owner of a failure is asked again only once, and an exception is not repaired.
LEMMA OwnersRetryOnce ==
  ASSUME NEW f \in {"coding", "patch_gate", "decision"}, NEW g \in Reported(f), NEW c,
         Route(Classify(g), c) = "retry_same_commit"
  PROVE  ~(c.retries >= 1)
  <1>1. /\ g.origin = "adapter" /\ g.findings = {} /\ g.code # "candidate"
        /\ g.stage \in {"coding", "patch_gate", "evaluation"}
        /\ g.outcome = AdapterOutcome[g.stage]
    BY DEF Reported, FailuresOf, AdapterFailures, Stages, AdapterOutcome
  <1>2. ~CandidateIntegrity(g)
    BY <1>1 DEF CandidateIntegrity
  <1>3. CASE OwnerRetryable(g)
    BY <1>2, <1>3 DEF Route, Classify, NoOpRoute, OwnerRoute, Abandon
  <1>4. CASE ~OwnerRetryable(g) /\ g.stage # "coding"
    <2>1. ControlPlane(g)
      BY <1>1, <1>4 DEF ControlPlane
    <2> QED BY <1>2, <2>1 DEF Route, Classify, Abandon
  <1>5. CASE ~OwnerRetryable(g) /\ g.stage = "coding"
    <2>1. FailureClass(g) = "infrastructure_error" => VerifierExhausted(g)
      BY <1>1, <1>5 DEF FailureClass, AdapterOutcome
    <2>2. FailureClass(g) # "hang"
      BY <1>1, <1>5 DEF FailureClass, AdapterOutcome
    <2>3. VerifierExhausted(g) =>
            Classify(g).verifier \/ Classify(g).deliberate \/ Classify(g).disk
      BY <1>5 DEF Classify
    <2>4. ~Classify(g).candidate /\ ~Classify(g).retryable
          /\ Classify(g).class = FailureClass(g) /\ Classify(g).coding
      BY <1>2, <1>5 DEF Classify
    <2> HIDE DEF Classify
    <2> QED
      BY <2>1, <2>2, <2>3, <2>4 DEF Route, NoOpRoute, Abandon
  <1> QED BY <1>1, <1>3, <1>4, <1>5

\* A no-op is not answered by running the same code again.
LEMMA NoOpsAreNotRerun ==
  ASSUME NEW g \in Reported("no_op"), NEW c
  PROVE  Route(Classify(g), c) \notin Reruns
  <1>1. FailureClass(g) = "no_op"
    BY DEF Reported, FailuresOf, NoOpEvaluations, FailureClass, Stages
  <1> QED
    BY <1>1 DEF Route, Classify, CandidateRoute, NoOpRoute, Abandon, Reruns

\* Where the lane just returns when it gives up, only answers that close the
\* experiment have it give up.
LEMMA GivingUpCloses ==
  ASSUME NEW site \in DOMAIN GivesUpAt, GivesUpAt[site] = "returned",
         NEW k, NEW c, AnswerKnown(site, k, c), NEW action, action = Route(k, c),
         ~(action \in Reruns /\ site \in Rerunning),
         ~(action = "retry_same_commit" /\ site \in DOMAIN RetryAt),
         ~(action \in CodeActions /\ site \in Repairing)
  PROVE  action \notin CodeActions \cup Reruns
  <1>1. action \notin CodeActions
    <2>1. CASE site \in {"code0", "code1", "dec1"}
      <3>0. PICK f \in {"coding", "decision"} : \E g \in Reported(f) : k = Classify(g)
        BY <2>1 DEF AnswerKnown, NamesAt
      <3>1. PICK g \in Reported(f) : k = Classify(g)
        BY <3>0
      <3> QED BY <3>1, RepairsAnswerResults DEF Failures, AdapterStages
    <2>2. CASE site \notin {"code0", "code1", "dec1"}
      BY <2>2 DEF GivesUpAt, Repairing
    <2> QED BY <2>1, <2>2
  <1>2. action \notin Reruns
    <2>1. CASE site \in Rerunning
      BY <2>1
    <2>2. CASE site \in {"code0", "code1", "gate1", "dec0", "dec1"}
      <3>0. PICK f \in {"coding", "patch_gate", "decision"} :
                \E g \in Reported(f) : k = Classify(g)
        BY <2>2 DEF AnswerKnown, NamesAt
      <3>1. PICK g \in Reported(f) : k = Classify(g)
        BY <3>0
      <3>2. action # "adjust_approved_runtime_setting"
        BY <3>1, AdjustmentsAnswerRuns DEF Failures, AdapterStages, Reported
      <3>3. action # "retry_same_commit"
        BY <2>2, <3>1, OwnersRetryOnce DEF AnswerKnown, RetryAt
      <3> QED BY <3>2, <3>3 DEF Reruns
    <2>3. CASE site \in {"patch", "noop"}
      <3>0. PICK f \in {"patch_rejected", "no_op"} : \E g \in Reported(f) : k = Classify(g)
        BY <2>3 DEF AnswerKnown, NamesAt
      <3>1. PICK g \in Reported(f) : k = Classify(g)
        BY <3>0
      <3>2. CASE f = "patch_rejected"
        BY <3>1, <3>2, AdjustmentsAnswerRuns, RejectionsAreNotRerun
           DEF Failures, AdapterStages, Reported, Reruns
      <3>3. CASE f = "no_op"
        BY <3>1, <3>3, NoOpsAreNotRerun
      <3> QED BY <3>1, <3>2, <3>3
    <2> QED BY <2>1, <2>2, <2>3 DEF GivesUpAt, Rerunning
  <1> QED BY <1>1, <1>2

\* An answer that neither reruns nor repairs closes its experiment.
LEMMA RecoveredCloses ==
  ASSUME NEW f, NEW action \in RecoveryActions, action \notin CodeActions \cup Reruns
  PROVE  RecoveredStatus(f, action) \notin Live
  BY DEF RecoveredStatus, RecoveryActions, CodeActions, Reruns, Live

-----------------------------------------------------------------------------
\* The steps of the lane at work, each of which keeps the rule.
\* What is known of the lane at work where it stands.
LEMMA AtWork ==
  ASSUME NEW x \in Exps, Set(x), NEW p, At(x, p)
  PROVE  /\ TypeOK /\ IsLane(lane[x]) /\ lane[x].pc = p /\ lane[x].owner # "dec0"
         /\ run.status # "initializing" /\ PhaseTells(x)
         /\ AgreesAt(lane[x], node[x])
         /\ p \in {"coder", "gate", "repair", "regate", "run", "outgate", "judge", "decide",
                    "recover", "escaped"} => node[x].status \in Live
         /\ p = "regate" => lane[x].owner \in Repairing
         /\ p \in {"coder", "gate", "decide"} /\ lane[x].try # 0 => node[x].retries >= 1
         /\ p \in Answering => AnswerKnown(lane[x].site, lane[x].fault, node[x])
  BY DEF Set, Ready, LaneSound, At, AnswersClose, AnswerKnown, Placed,
     Repaired, AgreesAt, StatusFor, Live

\* The coder is briefed about an open experiment.
LEMMA BriefCoderCloses ==
  ASSUME NEW x \in Exps, Set(x), BriefCoder(x)
  PROVE  StepCloses(x)
  <1>0. At(x, "proposed")
    BY DEF BriefCoder
  <1>1. CASE ContextCreated("worker") /\ To(x, "coder")
    <2>1. lane[x] = [NewLane EXCEPT !.pc = "proposed"] /\ node[x].status = "proposed"
      BY <1>0, AtWork DEF AgreesAt
    <2>2. lane[x].try = 0 /\ lane[x].owner = "none"
      BY <2>1 DEF NewLane
    <2>3. Tells(x)
      BY <1>0, <1>1, <2>1, AtWork, ContextTells DEF Live
    <2>4. outer' = outer
      BY <1>1, MovingFields
    <2>5. PICK m : /\ lane' = [lane EXCEPT ![x] = m] /\ m.pc = "coder"
                   /\ m.owner = lane[x].owner /\ m.try = lane[x].try
      BY <1>1, MovingFields
    <2>6. AnswersClose(m, node'[x])
      BY <2>2, <2>5, PlainCloses DEF Answering
    <2> QED BY <2>3, <2>4, <2>5, <2>6, GoingOnCloses
  <1>2. CASE Refused(x, CanContextCreated)
    BY <1>2, RefusedCloses
  <1> QED BY <1>1, <1>2 DEF BriefCoder

\* An expiry diverts a lane to its stop.
LEMMA UnexpiredIs == ASSUME NEW p PROVE Unexpired(p) \in {p, "expire"}
  BY DEF Unexpired

\* What the adapters report can be answered.
LEMMA FaultsKnown ==
  ASSUME AdaptersReport, NEW x \in Exps, NEW n
  PROVE  /\ \A k \in Faults["coding"] :
              /\ AnswerKnown("code0", k, n)
              /\ n.retries >= 1 => AnswerKnown("code1", k, n)
         /\ \A k \in Faults["patch_gate"] :
              /\ AnswerKnown("gate0", k, n)
              /\ n.retries >= 1 => AnswerKnown("gate1", k, n)
         /\ \A k \in Faults["patch_rejected"] :
              AnswerKnown("patch", k, n) /\ AnswerKnown("noop", k, n)
         /\ \A k \in Faults["no_op"] : AnswerKnown("noop", k, n)
         /\ \A k \in Faults["decision"] \cup {PlainFault} :
              /\ AnswerKnown("dec0", k, n)
              /\ n.retries >= 1 => AnswerKnown("dec1", k, n)
         /\ \A k, site : site \notin DOMAIN NamesAt => AnswerKnown(site, k, n)
  <1>1. {"coding", "patch_gate", "patch_rejected", "no_op", "decision"} \subseteq LedgerNames
    BY DEF LedgerNames, Stages
  <1>2. \A f \in LedgerNames : \A k \in Faults[f] : \E g \in Reported(f) : k = Classify(g)
    BY FaultsAreReported
  <1> QED BY <1>1, <1>2, PlainIsReported DEF AnswerKnown, NamesAt

\* The coder's patch goes to Gate A, and its exceptions are answered.
LEMMA CreatePatchCloses ==
  ASSUME Sequential, NEW x \in Exps, Set(x), CreatePatch(x)
  PROVE  StepCloses(x)
  <1>0. At(x, "coder")
    BY DEF CreatePatch
  <1>1. CASE /\ PatchCreated(x)
             /\ Lane(x, [lane[x] EXCEPT !.pc = Unexpired("gate"), !.try = 0,
                                        !.recorded = {}])
    <2>1. PICK p \in {"gate", "expire"} : p = Unexpired("gate")
      BY UnexpiredIs
    <2> DEFINE m == [lane[x] EXCEPT !.pc = p, !.try = 0, !.recorded = {}]
    <2>2. Lane(x, m)
      BY <1>1, <2>1
    <2>3. m.pc = p /\ m.try = 0 /\ m.owner = lane[x].owner
      BY <1>0, AtWork DEF IsLane
    <2> HIDE DEF m
    <2>4. Tells(x)
      BY <1>0, <1>1, AtWork, PatchCreatedTells
    <2> QED BY <2>2, <2>3, <2>4, CallCloses DEF Answering
  <1>2. CASE Refused(x, CanPatchCreated(x))
    BY <1>2, RefusedCloses
  <1>3. CASE Raises(x, "coding", IF lane[x].try = 0 THEN "code0" ELSE "code1")
    BY <1>0, <1>3, AtWork, FaultsKnown, RaisesCloses DEF Raises, Sequential
  <1> QED BY <1>1, <1>2, <1>3 DEF CreatePatch

\* Gate A accepts, rejects or raises, and only the first goes on to run.
LEMMA GateACloses ==
  ASSUME Sequential, NEW x \in Exps, Set(x), GateA(x)
  PROVE  StepCloses(x)
  <1>0. At(x, "gate")
    BY DEF GateA
  <1>1. CASE PatchChecked(x, TRUE) /\ To(x, "launch")
    <2>1. Tells(x)
      BY <1>0, <1>1, AtWork, PatchCheckedTells
    <2> QED BY <1>1, <2>1, ToCloses DEF Answering
  <1>2. ASSUME NEW k \in Faults["patch_rejected"], NEW again, PatchChecked(x, FALSE),
               Lane(x, Failing(lane[x], "patch", k, again))
        PROVE  StepCloses(x)
    <2>1. Tells(x) /\ node'[x].status \in Live
      BY <1>0, <1>2, AtWork, PatchCheckedTells
    <2>2. AnswerKnown("patch", k, node'[x])
      BY FaultsKnown DEF Sequential
    <2> DEFINE m == Failing(lane[x], "patch", k, again)
    <2>3. lane' = [lane EXCEPT ![x] = m] /\ outer' = outer
      BY <1>2 DEF Lane
    <2>4. m = Failing(lane[x], "patch", k, again)
      OBVIOUS
    <2> HIDE DEF m
    <2>5. m.pc = "recover" /\ m.owner = lane[x].owner /\ m.site = "patch" /\ m.fault = k
      BY <1>0, <2>4, AtWork, FailingKeeps
    <2> QED BY <2>1, <2>2, <2>3, <2>5, FailingCloses
  <1>3. CASE Refused(x, CanPatchChecked(x))
    BY <1>3, RefusedCloses
  <1>4. CASE Raises(x, "patch_gate", IF lane[x].try = 0 THEN "gate0" ELSE "gate1")
    BY <1>0, <1>4, AtWork, FaultsKnown, RaisesCloses DEF Raises, Sequential
  <1> QED BY <1>1, <1>2, <1>3, <1>4 DEF GateA

\* A Gate A that cannot be asked again stops the run.
LEMMA HaltAtGateCloses ==
  ASSUME NEW x \in Exps, Set(x), HaltAtGate(x)
  PROVE  StepCloses(x)
  BY StopCloses, RefusedCloses DEF HaltAtGate, Answering

\* A repair goes to Gate A, or its exception escapes or is answered.
LEMMA RepairPatchCloses ==
  ASSUME Sequential, NEW x \in Exps, Set(x), RepairPatch(x)
  PROVE  StepCloses(x)
  <1>0. At(x, "repair")
    BY DEF RepairPatch
  <1>1. CASE /\ PatchCreated(x)
             /\ Lane(x, [lane[x] EXCEPT !.pc = "regate", !.try = 0, !.recorded = {}])
    <2> DEFINE m == [lane[x] EXCEPT !.pc = "regate", !.try = 0, !.recorded = {}]
    <2>1. Lane(x, m)
      BY <1>1
    <2>2. m.pc = "regate" /\ m.owner = lane[x].owner
      BY <1>0, AtWork DEF IsLane
    <2> HIDE DEF m
    <2>3. Tells(x)
      BY <1>0, <1>1, AtWork, PatchCreatedTells
    <2> QED BY <2>1, <2>2, <2>3, CallCloses DEF Answering
  <1>2. CASE Refused(x, CanPatchCreated(x))
    BY <1>2, RefusedCloses
  <1>3. CASE Raises(x, "coding", "work")
    <2>1. \A k \in Faults["coding"] : AnswerKnown("work", k, node[x])
      BY DEF AnswerKnown, NamesAt
    <2> QED BY <1>0, <1>3, <2>1, AtWork, RaisesCloses DEF Raises
  <1>4. CASE To(x, "escaped") /\ UNCHANGED vars
    BY <1>0, <1>4, AtWork, StutterTells, ToCloses DEF Answering, vars
  <1> QED BY <1>1, <1>2, <1>3, <1>4 DEF RepairPatch

\* After a repair too an expiry diverts a lane to its stop.
LEMMA AfterRepairIs == ASSUME NEW p, NEW owner PROVE AfterRepair(p, owner) \in {p, "expire"}
  BY DEF AfterRepair, Unexpired

\* Queueing a fidelity again launches it.
LEMMA RequeuedKeeps ==
  ASSUME NEW x, NEW l, IsLane(l), NEW m, m = Requeued(x, l)
  PROVE  IsLane(m) /\ m.pc = "launch" /\ m.owner = l.owner
  BY DEF Requeued, IsLane

\* Gate A of a repair answers for the site the repair was made for.
LEMMA CheckRepairCloses ==
  ASSUME Sequential, NEW x \in Exps, Set(x), CheckRepair(x)
  PROVE  StepCloses(x)
  <1> DEFINE owner == lane[x].owner
  <1>0. At(x, "regate") /\ IsLane(lane[x]) /\ TypeOK /\ run.status # "initializing"
    BY AtWork DEF CheckRepair
  <1>a. owner # "dec0" /\ owner \in Repairing
    BY <1>0, AtWork
  <1>1. ASSUME PatchChecked(x, TRUE), NEW l, IsLane(l), l.owner = owner,
               Lane(x, [l EXCEPT !.pc = AfterRepair("launch", owner)])
        PROVE  StepCloses(x)
    <2>1. PICK p \in {"launch", "expire"} : p = AfterRepair("launch", owner)
      BY AfterRepairIs
    <2> DEFINE m == [l EXCEPT !.pc = p]
    <2>2. Lane(x, m)
      BY <1>1, <2>1
    <2>3. m.pc = p /\ m.owner = lane[x].owner
      BY <1>1 DEF IsLane
    <2> HIDE DEF m
    <2>4. Tells(x)
      BY <1>0, <1>1, PatchCheckedTells
    <2> QED BY <2>2, <2>3, <2>4, CallCloses DEF Answering
  <1>2. ASSUME NEW k \in Faults["patch_rejected"], NEW again, NEW site, NEW p,
               site = IF owner \in BeforeRuns THEN "patch" ELSE owner,
               p = IF site \in Looping THEN AfterRepair("recover", owner)
                   ELSE GivesUpAt[owner],
               PatchChecked(x, FALSE),
               Lane(x, [Failing(lane[x], site, k, again) EXCEPT !.pc = p])
        PROVE  StepCloses(x)
    <2>1. p \in {"recover", "abandon", "expire"}
      <3>1. CASE site \in Looping
        BY <1>2, <3>1, AfterRepairIs
      <3>2. CASE site \notin Looping
        <4>1. owner \in {"out0", "out1", "eval0", "eval1"}
          BY <1>a, <1>2, <3>2 DEF Looping, BeforeRuns, Repairing, GivesUpAt
        <4> QED BY <1>2, <3>2, <4>1 DEF GivesUpAt
      <3> QED BY <3>1, <3>2
    <2>2. Tells(x) /\ node'[x].status \in Live
      BY <1>0, <1>2, PatchCheckedTells
    <2>3. AnswerKnown(site, k, node'[x])
      <3>1. site \in {"patch", "noop"} \/ site \notin DOMAIN NamesAt
        BY <1>a, <1>2 DEF Looping, BeforeRuns, Repairing, GivesUpAt, NamesAt
      <3> QED BY <3>1, FaultsKnown DEF Sequential
    <2> HIDE DEF owner
    <2> QED BY <1>0, <1>2, <2>1, <2>2, <2>3, ResultFailsCloses
  <1>3. CASE Refused(x, CanPatchChecked(x))
    BY <1>3, RefusedCloses
  <1>4. CASE To(x, "escaped") /\ UNCHANGED vars
    BY <1>0, <1>4, AtWork, StutterTells, ToCloses DEF Answering, vars
  <1>5. ASSUME PatchChecked(x, TRUE),
               LET l == IF owner \in BeforeRuns THEN [lane[x] EXCEPT !.pc = "launch"]
                        ELSE Requeued(x, lane[x])
               IN  Lane(x, [l EXCEPT !.pc = AfterRepair("launch", owner)])
        PROVE  StepCloses(x)
    <2>1. CASE owner \in BeforeRuns
      <3>1. PICK l : l = [lane[x] EXCEPT !.pc = "launch"]
        OBVIOUS
      <3>2. IsLane(l) /\ l.owner = owner
        BY <1>0, <3>1 DEF IsLane
      <3>3. Lane(x, [l EXCEPT !.pc = AfterRepair("launch", owner)])
        BY <1>5, <2>1, <3>1
      <3> QED BY <1>1, <1>5, <3>2, <3>3
    <2>2. CASE owner \notin BeforeRuns
      <3>1. PICK l : l = Requeued(x, lane[x])
        OBVIOUS
      <3>2. IsLane(l) /\ l.owner = owner
        BY <1>0, <3>1, RequeuedKeeps
      <3>3. Lane(x, [l EXCEPT !.pc = AfterRepair("launch", owner)])
        BY <1>5, <2>2, <3>1
      <3> QED BY <1>1, <1>5, <3>2, <3>3
    <2> QED BY <2>1, <2>2
  <1> QED BY <1>2, <1>3, <1>4, <1>5 DEF CheckRepair

\* A sequential run defers no stop.
LEMMA NotParallel == Sequential => ~Parallel
  BY DEF Sequential, Parallel

\* A lane that leaves things as they are may return once its experiment is closed.
LEMMA ClosedMayReturn ==
  ASSUME NEW x \in Exps, Set(x), node[x].status \in Closed, UNCHANGED vars, To(x, "returned")
  PROVE  StepCloses(x)
  <1>1. Tells(x) /\ node' = node
    BY StutterTells DEF Set, vars
  <1> QED BY <1>1, PhasesTell, ToCloses DEF Answering

\* A lane without its repair worker returns from a closed experiment or stops.
LEMMA RepairUnavailableCloses ==
  ASSUME Sequential, NEW x \in Exps, Set(x), RepairUnavailable(x)
  PROVE  StepCloses(x)
  <1>1. CASE node[x].status = "no_op" /\ To(x, "returned") /\ UNCHANGED vars
    BY <1>1, ClosedMayReturn DEF Closed
  <1>2. CASE SafelyClosed(x) /\ To(x, "returned") /\ UNCHANGED vars
    BY <1>2, ClosedMayReturn DEF SafelyClosed
  <1>3. CASE FatalStop /\ To(x, "returned")
    BY <1>3, StopCloses DEF Answering
  <1>4. CASE Refused(x, CanRunStopped)
    BY <1>4, RefusedCloses
  <1> QED BY <1>1, <1>2, <1>3, <1>4, NotParallel DEF RepairUnavailable

\* An exception that escaped is recorded where it was met.
LEMMA EscapedCloses ==
  ASSUME NEW x \in Exps, Set(x), Escaped(x)
  PROVE  StepCloses(x)
  <1>1. CASE FatalStop /\ To(x, "returned")
    BY <1>1, StopCloses DEF Answering
  <1>2. CASE Refused(x, CanRunStopped)
    BY <1>2, RefusedCloses
  <1>3. CASE Raises(x, EscapedStage(x), "lane")
    <2>1. \A k : AnswerKnown("lane", k, node[x])
      BY DEF AnswerKnown, NamesAt
    <2>2. node[x].status \in Live
      BY AtWork DEF Escaped
    <2> QED BY <1>3, <2>1, <2>2, RaisesCloses DEF Raises
  <1> QED BY <1>1, <1>2, <1>3 DEF Escaped

\* A lane that escaped returns from a closed experiment or stops.
LEMMA CloseEscapedCloses ==
  ASSUME Sequential, NEW x \in Exps, Set(x), CloseEscaped(x)
  PROVE  StepCloses(x)
  <1>1. CASE SafelyClosed(x) /\ To(x, "returned") /\ UNCHANGED vars
    BY <1>1, ClosedMayReturn DEF SafelyClosed
  <1>2. CASE FatalStop /\ To(x, "returned")
    BY <1>2, StopCloses DEF Answering
  <1>3. CASE Refused(x, CanRunStopped)
    BY <1>3, RefusedCloses
  <1> QED BY <1>1, <1>2, <1>3, NotParallel DEF CloseEscaped

\* A launch runs the next stage of an open experiment.
LEMMA LaunchCloses ==
  ASSUME NEW x \in Exps, Set(x), Launch(x)
  PROVE  StepCloses(x)
  <1>0. At(x, "launch")
    BY DEF Launch
  <1>1. ASSUME NEW rq, ExecutionStarted(x, rq),
               Lane(x, [lane[x] EXCEPT !.pc = "run", !.try = 0,
                          !.stages = Tail(@), !.template = FALSE,
                          !.recorded = {}, !.via = "none", !.index = 0])
        PROVE  StepCloses(x)
    <2>1. PICK t : t = Tail(lane[x].stages)
      OBVIOUS
    <2> DEFINE m == [lane[x] EXCEPT !.pc = "run", !.try = 0, !.stages = t,
                       !.template = FALSE, !.recorded = {}, !.via = "none", !.index = 0]
    <2>2. Lane(x, m)
      BY <1>1, <2>1
    <2>3. m.pc = "run" /\ m.owner = lane[x].owner
      BY <1>0, AtWork DEF IsLane
    <2> HIDE DEF m
    <2>4. Tells(x)
      BY <1>0, <1>1, AtWork, ExecutionStartedTells
    <2> QED BY <2>2, <2>3, <2>4, CallCloses DEF Answering
  <1>2. ASSUME NEW possible, Refused(x, possible) PROVE StepCloses(x)
    BY <1>2, RefusedCloses
  <1> QED BY <1>1, <1>2 DEF Launch

\* Failures at a site that does not just return need not be remembered.
LEMMA LoopingKnown ==
  ASSUME NEW site \in {"run", "finished", "out0", "out1", "output", "eval0", "eval1"},
         NEW k, NEW n
  PROVE  AnswerKnown(site, k, n)
  BY DEF AnswerKnown, NamesAt

\* A run ends with an output to check or a failure to answer.
LEMMA RunCandidateCloses ==
  ASSUME NEW x \in Exps, Set(x), RunCandidate(x)
  PROVE  StepCloses(x)
  <1>0. At(x, "run")
    BY DEF RunCandidate
  <1>1. CASE ExecutionFinished(x, TRUE) /\ To(x, Unexpired("outgate"))
    <2>1. Tells(x)
      BY <1>0, <1>1, AtWork, ExecutionFinishedTells
    <2>2. PICK p \in {"outgate", "expire"} : p = Unexpired("outgate")
      BY UnexpiredIs
    <2> QED BY <1>1, <2>1, <2>2, ToCloses DEF Answering
  <1>2. ASSUME NEW k, NEW again, ExecutionFinished(x, FALSE),
               Lane(x, [Failing(lane[x], "finished", k, again) EXCEPT
                           !.pc = Unexpired("recover")])
        PROVE  StepCloses(x)
    <2>1. Tells(x) /\ node'[x].status \in Live
      BY <1>0, <1>2, AtWork, ExecutionFinishedTells
    <2>2. PICK p \in {"recover", "expire"} : p = Unexpired("recover")
      BY UnexpiredIs
    <2>3. AnswerKnown("finished", k, node'[x])
      BY LoopingKnown
    <2>4. Lane(x, [Failing(lane[x], "finished", k, again) EXCEPT !.pc = p])
      BY <1>2, <2>2
    <2> QED BY <1>0, <2>1, <2>2, <2>3, <2>4, AtWork, ResultFailsCloses
  <1>3. CASE Refused(x, CanExecutionFinished(x))
    BY <1>3, RefusedCloses
  <1>4. CASE Raises(x, "execution", "run")
    BY <1>0, <1>4, AtWork, LoopingKnown, RaisesCloses DEF Raises
  <1> QED BY <1>1, <1>2, <1>3, <1>4 DEF RunCandidate

\* Gate B accepts, rejects or raises.
LEMMA GateBCloses ==
  ASSUME NEW x \in Exps, Set(x), GateB(x)
  PROVE  StepCloses(x)
  <1>0. At(x, "outgate")
    BY DEF GateB
  <1>1. ASSUME OutputChecked(x, TRUE), NEW p \in {"smoke", "lock"}, NEW v,
               Lane(x, [lane[x] EXCEPT !.pc = p, !.via = v, !.try = 0])
        PROVE  StepCloses(x)
    <2> DEFINE m == [lane[x] EXCEPT !.pc = p, !.via = v, !.try = 0]
    <2>1. Lane(x, m)
      BY <1>1
    <2>2. m.pc = p /\ m.owner = lane[x].owner
      BY <1>0, AtWork DEF IsLane
    <2> HIDE DEF m
    <2>3. Tells(x)
      BY <1>0, <1>1, AtWork, OutputCheckedTells
    <2> QED BY <2>1, <2>2, <2>3, CallCloses DEF Answering
  <1>2. ASSUME NEW k, NEW again, OutputChecked(x, FALSE),
               Lane(x, Failing(lane[x], "output", k, again))
        PROVE  StepCloses(x)
    <2>1. Tells(x) /\ node'[x].status \in Live
      BY <1>0, <1>2, AtWork, OutputCheckedTells
    <2>2. AnswerKnown("output", k, node'[x])
      BY LoopingKnown
    <2> DEFINE m == Failing(lane[x], "output", k, again)
    <2>3. lane' = [lane EXCEPT ![x] = m] /\ outer' = outer
      BY <1>2 DEF Lane
    <2>4. m = Failing(lane[x], "output", k, again)
      OBVIOUS
    <2> HIDE DEF m
    <2>5. m.pc = "recover" /\ m.owner = lane[x].owner /\ m.site = "output" /\ m.fault = k
      BY <1>0, <2>4, AtWork, FailingKeeps
    <2> QED BY <2>1, <2>2, <2>3, <2>5, FailingCloses
  <1>3. CASE Refused(x, CanOutputChecked(x))
    BY <1>3, RefusedCloses
  <1>4. CASE Raises(x, "output_gate", IF lane[x].try = 0 THEN "out0" ELSE "out1")
    BY <1>0, <1>4, AtWork, LoopingKnown, RaisesCloses DEF Raises
  <1> QED BY <1>1, <1>2, <1>3, <1>4 DEF GateB

\* A smoke run that passed Gate B is promoted.
LEMMA PromoteSmokeCloses ==
  ASSUME NEW x \in Exps, Set(x), PromoteSmoke(x)
  PROVE  StepCloses(x)
  <1>0. At(x, "smoke")
    BY DEF PromoteSmoke
  <1>1. ASSUME NEW next, ExperimentDecided(x, "promote", "smoke", FALSE, next),
               Lane(x, [lane[x] EXCEPT !.pc = "launch"])
        PROVE  StepCloses(x)
    <2>1. Tells(x)
      BY <1>0, <1>1, AtWork, ExperimentDecidedTells DEF DecisionKinds
    <2>2. To(x, "launch")
      BY <1>1 DEF To
    <2> QED BY <2>1, <2>2, ToCloses DEF Answering
  <1>2. ASSUME NEW admitted, Refused(x, admitted) PROVE StepCloses(x)
    BY <1>2, RefusedCloses
  <1> QED BY <1>1, <1>2 DEF PromoteSmoke

\* Abandoning closes the experiment, or the ledger refuses it.
LEMMA AbandonCloses ==
  ASSUME NEW x \in Exps, Set(x), Abandon_experiment(x)
  PROVE  StepCloses(x)
  <1>0. At(x, "abandon")
    BY DEF Abandon_experiment
  <1>1. ASSUME ExperimentDecided(x, "invalid", "smoke", FALSE, "smoke"),
               Lane(x, [lane[x] EXCEPT !.pc = "returned"])
        PROVE  StepCloses(x)
    <2>1. Tells(x) /\ node'[x].status = "invalid"
      BY <1>0, <1>1, AtWork, ExperimentDecidedTells DEF DecisionKinds, DecidedStatus
    <2>2. To(x, "returned")
      BY <1>1 DEF To
    <2> QED BY <2>1, <2>2, ToCloses DEF Answering, Live
  <1>2. CASE Refused(x, CanAbandon(x))
    BY <1>2, RefusedCloses
  <1> QED BY <1>1, <1>2 DEF Abandon_experiment

\* The evaluation lock appends nothing.
LEMMA JudgingCloses ==
  ASSUME NEW x \in Exps, Set(x), Judging(x)
  PROVE  StepCloses(x)
  <1>0. At(x, "lock") /\ UNCHANGED vars
    BY DEF Judging
  <1>1. PICK i : Lane(x, [lane[x] EXCEPT !.pc = "judge", !.index = i])
    BY DEF Judging
  <1> DEFINE m == [lane[x] EXCEPT !.pc = "judge", !.index = i]
  <1>2. Lane(x, m)
    BY <1>1
  <1>3. m.pc = "judge" /\ m.owner = lane[x].owner
    BY <1>0, AtWork DEF IsLane
  <1> HIDE DEF m
  <1>4. Tells(x)
    BY <1>0, AtWork, StutterTells
  <1> QED BY <1>2, <1>3, <1>4, CallCloses DEF Answering

\* An evaluation goes on to be decided, and a no-op or an exception is answered.
LEMMA EvaluateCloses ==
  ASSUME Sequential, NEW x \in Exps, Set(x), Evaluate(x)
  PROVE  StepCloses(x)
  <1>0. At(x, "judge") /\ TypeOK /\ IsLane(lane[x]) /\ node[x].status \in Live
    BY AtWork DEF Evaluate
  <1>1. ASSUME NEW trust, NEW score, EvaluationCompleted(x, trust, score, lane[x].index),
               NEW v, NEW l,
               l = [lane[x] EXCEPT !.pc = Unexpired("decide"), !.try = 0, !.via = v],
               \/ Lane(x, l)
               \/ \E k \in Faults["no_op"], again \in Repeats(x, "no_op") :
                     Lane(x, [Failing(l, "noop", k, again) EXCEPT !.pc = Unexpired("recover")])
        PROVE  StepCloses(x)
    <2>1. Tells(x) /\ node'[x].status \in Live
      BY <1>0, <1>1, AtWork, EvaluationCompletedTells
    <2>2. /\ IsLane(l) /\ l.pc \in {"decide", "expire"} /\ l.try = 0
          /\ l.owner = lane[x].owner
      <3>1. PICK p \in {"decide", "expire"} : p = Unexpired("decide")
        BY UnexpiredIs
      <3>2. l = [lane[x] EXCEPT !.pc = p, !.try = 0, !.via = v]
        BY <1>1, <3>1
      <3> QED BY <1>0, <3>2 DEF IsLane
    <2>3. CASE Lane(x, l)
      BY <2>1, <2>2, <2>3, CallCloses DEF Answering
    <2>4. ASSUME NEW k \in Faults["no_op"], NEW again,
                 Lane(x, [Failing(l, "noop", k, again) EXCEPT !.pc = Unexpired("recover")])
          PROVE  StepCloses(x)
      <3>1. PICK p \in {"recover", "expire"} : p = Unexpired("recover")
        BY UnexpiredIs
      <3>2. AnswerKnown("noop", k, node'[x])
        BY FaultsKnown DEF Sequential
      <3>3. Lane(x, [Failing(l, "noop", k, again) EXCEPT !.pc = p])
        BY <2>4, <3>1
      <3> QED BY <2>1, <2>2, <3>1, <3>2, <3>3, ResultFailsCloses
    <2> QED BY <1>1, <2>3, <2>4
  <1>2. ASSUME NEW kinds, RaisesOneOf(x, "evaluation", EvaluationSite(x), kinds)
        PROVE  StepCloses(x)
    BY <1>0, <1>2, LoopingKnown, RaisesCloses DEF EvaluationSite
  <1> QED BY <1>1, <1>2 DEF Evaluate, Raises

\* A verdict promotes the experiment or closes it.
LEMMA DecideCloses ==
  ASSUME Sequential, NEW x \in Exps, Set(x), Decide(x)
  PROVE  StepCloses(x)
  <1>0. /\ At(x, "decide") /\ TypeOK /\ IsLane(lane[x]) /\ node[x].status \in Live
        /\ run.status # "initializing"
        /\ lane[x].try # 0 => node[x].retries >= 1
    BY AtWork DEF Decide
  <1>1. ASSUME NEW v \in Verdicts(x), NEW fidelity,
               ExperimentDecided(x, v.kind, fidelity, v.eligible, v.next),
               Lane(x, IF v.kind = "promote"
                   THEN [lane[x] EXCEPT !.pc = "launch",
                           !.stages = IF @ # <<>> /\ Head(@) = v.next THEN @
                                      ELSE <<v.next>> \o @]
                   ELSE [lane[x] EXCEPT
                           !.pc = IF v.eligible THEN "best" ELSE "returned"])
        PROVE  StepCloses(x)
    <2>1. v.kind \in DecisionKinds
      BY VerdictsTyped
    <2>2. Tells(x) /\ node'[x].status = DecidedStatus[v.kind]
      BY <1>0, <1>1, <2>1, ExperimentDecidedTells
    <2>3. CASE v.kind = "promote"
      <3>1. PICK t : t = IF lane[x].stages # <<>> /\ Head(lane[x].stages) = v.next
                         THEN lane[x].stages ELSE <<v.next>> \o lane[x].stages
        OBVIOUS
      <3> DEFINE m == [lane[x] EXCEPT !.pc = "launch", !.stages = t]
      <3>2. Lane(x, m)
        BY <1>1, <2>3, <3>1
      <3>3. m.pc = "launch" /\ m.owner = lane[x].owner
        BY <1>0 DEF IsLane
      <3> HIDE DEF m
      <3> QED BY <2>2, <3>2, <3>3, CallCloses DEF Answering
    <2>4. CASE v.kind # "promote"
      <3>1. PICK p \in {"best", "returned"} : p = IF v.eligible THEN "best" ELSE "returned"
        OBVIOUS
      <3>2. To(x, p)
        BY <1>1, <2>4, <3>1 DEF To
      <3>3. node'[x].status \notin Live
        BY <2>1, <2>2, <2>4 DEF DecisionKinds, DecidedStatus, Live
      <3> QED BY <2>2, <3>1, <3>2, <3>3, ToCloses DEF Answering
    <2> QED BY <2>3, <2>4
  <1>2. ASSUME NEW admitted, Refused(x, admitted) PROVE StepCloses(x)
    BY <1>2, RefusedCloses
  <1>3. ASSUME NEW kinds, kinds \subseteq Faults["decision"] \cup {PlainFault},
               RaisesOneOf(x, "decision", IF lane[x].try = 0 THEN "dec0" ELSE "dec1", kinds)
        PROVE  StepCloses(x)
    <2>1. \A k \in kinds :
            AnswerKnown(IF lane[x].try = 0 THEN "dec0" ELSE "dec1", k, node[x])
      BY <1>0, <1>3, FaultsKnown DEF Sequential
    <2> QED BY <1>0, <1>3, <2>1, RaisesCloses
  <1> QED BY <1>1, <1>2, <1>3 DEF Decide, Raises

\* The incumbent is updated after its acceptance has closed the experiment.
LEMMA UpdateBestCloses ==
  ASSUME NEW x \in Exps, Set(x), UpdateBest(x)
  PROVE  StepCloses(x)
  <1>0. At(x, "best") /\ TypeOK /\ run.status # "initializing" /\ PhaseTells(x)
    BY AtWork DEF UpdateBest
  <1>1. node[x].status = "accepted"
    BY <1>0, AtWork DEF AgreesAt, StatusFor
  <1>2. CASE BestUpdated(x) /\ To(x, "returned")
    <2>1. node' = node /\ run'.status = run.status /\ run'.phase = run.phase
      BY <1>0, <1>2, RunFields DEF BestUpdated
    <2>2. Tells(x)
      BY <1>0, <2>1 DEF Tells, PhaseTells, Accepting, Resumable
    <2> QED BY <1>1, <1>2, <2>1, <2>2, ToCloses DEF Answering, Live
  <1>3. CASE Refused(x, CanBestUpdated(x))
    BY <1>3, RefusedCloses
  <1>4. CASE To(x, "returned") /\ UNCHANGED vars
    BY <1>1, <1>4, ClosedMayReturn DEF Closed
  <1> QED BY <1>2, <1>3, <1>4 DEF UpdateBest

\* The context of an answer is written while its experiment is open.
LEMMA RecoveryContextCloses ==
  ASSUME NEW x \in Exps, Set(x), RecoveryContext(x)
  PROVE  StepCloses(x)
  <1>0. /\ At(x, "recover") /\ TypeOK /\ run.status # "initializing"
        /\ node[x].status \in Live /\ lane[x].owner # "dec0"
        /\ AnswerKnown(lane[x].site, lane[x].fault, node[x])
    BY AtWork DEF RecoveryContext, Answering
  <1>1. CASE ContextCreated("worker") /\ To(x, "answer")
    <2>1. Tells(x)
      BY <1>0, <1>1, ContextTells
    <2>2. outer' = outer
      BY <1>1, MovingFields
    <2>3. PICK m : /\ lane' = [lane EXCEPT ![x] = m] /\ m.pc = "answer"
                   /\ m.owner = lane[x].owner
                   /\ m.site = lane[x].site /\ m.fault = lane[x].fault
      BY <1>1, MovingFields
    <2>4. node' = node
      BY <1>1 DEF ContextCreated
    <2>5. AnswersClose(m, node'[x])
      BY <1>0, <2>3, <2>4 DEF AnswersClose, AnswerKnown, Answering
    <2> QED BY <2>1, <2>2, <2>3, <2>5, GoingOnCloses
  <1>2. CASE Refused(x, CanContextCreated)
    BY <1>2, RefusedCloses
  <1> QED BY <1>1, <1>2 DEF RecoveryContext

\* The answer is recorded and the lane goes on as it says.
LEMMA AnsweredCloses ==
  ASSUME NEW x \in Exps, Set(x), At(x, "answer"),
         NEW action, action = Route(lane[x].fault, Context(x)),
         RecoveryDecided(x, action), Lane(x, Answered(x, action))
  PROVE  StepCloses(x)
  <1> DEFINE site == lane[x].site
             s == RecoveredStatus(evid[x].failure, action)
  <1>0. /\ TypeOK /\ IsLane(lane[x]) /\ lane[x].owner # "dec0"
        /\ run.status # "initializing"
        /\ AnswerKnown(site, lane[x].fault, node[x])
    BY AtWork DEF Answering
  <1>1. site \in DOMAIN GivesUpAt
    BY AtAnswer DEF Set
  <1>2. /\ Tells(x) /\ node'[x].status = s
        /\ node'[x].retries = IF action = "retry_same_commit" THEN node[x].retries + 1
                              ELSE node[x].retries
    BY <1>0, RecoveryDecidedTells
  <1>3. node[x].retries \in Nat /\ action \in RecoveryActions
    BY <1>0, RoutesAreActions DEF TypeOK, NodeType, MaxSameCommitRetries
  <1>4. PICK m : m = Answered(x, action)
    OBVIOUS
  <1>5. PICK l, c : /\ Alike(l, lane[x]) /\ c = Continued(x, l, action)
                    /\ IsLane(c) => Alike(m, c)
    BY <1>0, <1>4, AnsweredFields
  <1>6. IsLane(l) /\ l.site = site /\ l.owner = lane[x].owner
    BY <1>5 DEF Alike
  <1>7. Lane(x, m)
    BY <1>4
  <1> HIDE DEF s
  <1>8. CASE action \in Reruns /\ site \in Rerunning
    <2>1. IsLane(c) /\ c.pc = "launch" /\ c.owner = l.owner
      BY <1>5, <1>6, <1>8, RerunFields, RequeuedKeeps
    <2>2. m.pc = "launch" /\ m.owner = lane[x].owner
      BY <1>5, <1>6, <2>1 DEF Alike
    <2> QED BY <1>2, <1>7, <2>2, CallCloses DEF Answering
  <1>9. CASE action = "retry_same_commit" /\ site \in DOMAIN RetryAt
    <2>1. IsLane(c) /\ c.pc = RetryAt[site] /\ c.owner = l.owner
      BY <1>5, <1>6, <1>9, RetryFields
    <2>2. m.pc = RetryAt[site] /\ m.owner = lane[x].owner
      BY <1>5, <1>6, <2>1 DEF Alike
    <2>3. m.pc \in {"coder", "gate", "outgate", "lock", "decide", "repair"}
      BY <1>9, <2>2 DEF RetryAt
    <2>4. node'[x].retries >= 1
      BY <1>2, <1>3, <1>9
    <2>5. AnswersClose(m, node'[x])
      BY <1>0, <2>2, <2>3, <2>4 DEF AnswersClose, Answering
    <2>6. lane' = [lane EXCEPT ![x] = m] /\ outer' = outer
      BY <1>7 DEF Lane
    <2> QED BY <1>2, <2>3, <2>5, <2>6, GoingOnCloses
  <1>10. CASE action \in CodeActions /\ site \in Repairing
    <2>1. IsLane(c) /\ c.pc = "repair" /\ c.owner = site
      BY <1>5, <1>6, <1>10, RepairFields
    <2>2. m.pc = "repair" /\ m.owner = site
      BY <1>5, <1>6, <2>1 DEF Alike
    <2>3. site # "dec0"
      <3>1. SUFFICES ASSUME site = "dec0" PROVE FALSE
        OBVIOUS
      <3>2. PICK g \in Reported("decision") : lane[x].fault = Classify(g)
        BY <1>0, <3>1 DEF AnswerKnown, NamesAt
      <3> QED BY <1>10, <3>2, RepairsAnswerResults DEF Failures, AdapterStages
    <2>4. AnswersClose(m, node'[x])
      BY <2>2, <2>3, PlainCloses DEF Answering
    <2>5. lane' = [lane EXCEPT ![x] = m] /\ outer' = outer
      BY <1>7 DEF Lane
    <2> QED BY <1>2, <2>2, <2>4, <2>5, GoingOnCloses
  <1>11. CASE /\ ~(action \in Reruns /\ site \in Rerunning)
              /\ ~(action = "retry_same_commit" /\ site \in DOMAIN RetryAt)
              /\ ~(action \in CodeActions /\ site \in Repairing)
    <2>1. IsLane(c) /\ c.pc = GivesUpAt[site]
      BY <1>5, <1>6, <1>11, GiveUpFields
    <2>2. m.pc = GivesUpAt[site] /\ m.owner = lane[x].owner
      <3>1. c.owner = l.owner
        <4>1. c = [l EXCEPT !.pc = GivesUpAt[site]]
          BY <1>5, <1>6, <1>11 DEF Continued, Rerunning
        <4> HIDE DEF GivesUpAt
        <4> QED BY <1>6, <4>1 DEF IsLane
      <3> QED BY <1>5, <1>6, <2>1, <3>1 DEF Alike
    <2>3. CASE GivesUpAt[site] = "returned"
      <3>1. AnswerKnown(site, lane[x].fault, Context(x))
        BY <1>0 DEF AnswerKnown, Context
      <3>2. action \notin CodeActions \cup Reruns
        BY <1>1, <1>11, <2>3, <3>1, GivingUpCloses
      <3>3. node'[x].status \notin Live
        BY <1>2, <1>3, <3>2, RecoveredCloses DEF s
      <3>4. lane' = [lane EXCEPT ![x] = m] /\ outer' = outer
        BY <1>7 DEF Lane
      <3> QED BY <1>2, <2>2, <2>3, <3>3, <3>4, EndingCloses DEF Answering
    <2>4. CASE GivesUpAt[site] # "returned"
      <3>1. GivesUpAt[site] \in {"halt", "abandon", "unavailable", "closing"}
        BY <1>1, <2>4 DEF GivesUpAt
      <3> QED BY <1>2, <1>7, <2>2, <3>1, CallCloses DEF Answering
    <2> QED BY <2>3, <2>4
  <1> QED BY <1>8, <1>9, <1>10, <1>11

\* An answer retries, repairs or closes.
LEMMA AnswerCloses ==
  ASSUME NEW x \in Exps, Set(x), Answer(x)
  PROVE  StepCloses(x)
  <1>0. At(x, "answer")
    BY DEF Answer
  <1>1. ASSUME NEW action, RecoveryDecided(x, action),
               Lane(x, [Briefed(x, lane[x]) EXCEPT !.pc = "fatal"])
        PROVE  StepCloses(x)
    <2> DEFINE m == [Briefed(x, lane[x]) EXCEPT !.pc = "fatal"]
    <2>1. m.pc = "fatal" /\ m.owner = lane[x].owner
      BY <1>0, AtWork DEF Briefed, IsLane
    <2>2. Lane(x, m)
      BY <1>1
    <2> HIDE DEF m
    <2>3. Tells(x)
      BY <1>0, <1>1, AtWork, RecoveryDecidedTells
    <2> QED BY <2>1, <2>2, <2>3, CallCloses DEF Answering
  <1>2. ASSUME NEW admitted, Refused(x, admitted) PROVE StepCloses(x)
    BY <1>2, RefusedCloses
  <1> QED BY <1>0, <1>1, <1>2, AnsweredCloses DEF Answer

\* An integrity violation stops the run.
LEMMA FatalCloses ==
  ASSUME Sequential, NEW x \in Exps, Set(x), Fatal(x)
  PROVE  StepCloses(x)
  <1>1. GivesUpAt[lane[x].site] \notin {"coder", "gate", "decide", "escaped"} \cup Answering
    BY DEF Fatal, At, Set, Ready, LaneSound, Placed, GivesUpAt, Answering
  <1>2. CASE FatalStop /\ To(x, GivesUpAt[lane[x].site])
    BY <1>1, <1>2, StopCloses
  <1>3. CASE Refused(x, CanRunStopped)
    BY <1>3, RefusedCloses
  <1> QED BY <1>2, <1>3, NotParallel DEF Fatal

\* An expired budget stops the run.
LEMMA ExpireCloses ==
  ASSUME Sequential, NEW x \in Exps, Set(x), Expire(x)
  PROVE  StepCloses(x)
  <1>1. CASE BudgetStop /\ To(x, "returned")
    BY <1>1, StopCloses DEF Answering
  <1>2. CASE Refused(x, CanRunStopped)
    BY <1>2, RefusedCloses
  <1> QED BY <1>1, <1>2, NotParallel DEF Expire

\* A refused append stops the run, or finds it stopped.
LEMMA ControlPlaneFailureCloses ==
  ASSUME Sequential, NEW x \in Exps, Set(x), ControlPlaneFailure(x)
  PROVE  StepCloses(x)
  <1>1. CASE FatalStop /\ To(x, "returned")
    BY <1>1, StopCloses DEF Answering
  <1>2. CASE ~CanRunStopped /\ To(x, "crashed") /\ UNCHANGED vars
    <2>1. Tells(x) /\ ~Accepting'
      BY <1>2, StutterTells DEF Set, CanRunStopped, Accepting, vars
    <2> QED BY <1>2, <2>1, ToCloses DEF Answering
  <1> QED BY <1>1, <1>2, NotParallel DEF ControlPlaneFailure

\* Whatever the lane at work does, it leaves nothing open behind it.
LEMMA LaneStepCloses ==
  ASSUME Sequential, NEW x \in Exps, Set(x), LaneStep(x)
  PROVE  StepCloses(x)
  BY BriefCoderCloses, CreatePatchCloses, GateACloses, HaltAtGateCloses, RepairPatchCloses,
     CheckRepairCloses, RepairUnavailableCloses, EscapedCloses, CloseEscapedCloses,
     LaunchCloses, RunCandidateCloses, GateBCloses, PromoteSmokeCloses, AbandonCloses,
     JudgingCloses, EvaluateCloses, DecideCloses, UpdateBestCloses, RecoveryContextCloses,
     AnswerCloses, FatalCloses, ExpireCloses, ControlPlaneFailureCloses DEF LaneStep

-----------------------------------------------------------------------------
\* The lane at work is the only one, and its experiment the only open one.
LEMMA LanesKeepRounds ==
  ASSUME Sequential, HInv, RoundInv, NEW x \in Exps, LaneStep(x)
  PROVE  RoundInv'
  <1>1. Ready(x)
    BY DEF Ready, HInv, AllFounded, LanesSound
  <1>2. Working(x)
    BY DEF LaneStep, BriefCoder, CreatePatch, GateA, HaltAtGate, RepairPatch, CheckRepair,
       RepairUnavailable, Escaped, CloseEscaped, Launch, RunCandidate, GateB, PromoteSmoke,
       Abandon_experiment, Judging, Evaluate, Decide, UpdateBest, RecoveryContext, Answer,
       Fatal, Expire, ControlPlaneFailure, At, Working
  <1>3. outer.pc = "round" /\ run.status # "initializing"
    BY <1>2 DEF RoundInv, WorkIsInRounds
  <1>4. \A y \in Exps \ {x} : ~Working(y) /\ (Accepting => node[y].status \notin Live)
    BY <1>2, <1>3 DEF RoundInv, OneAtWork, OpenIsAtWork, Accepting, Researching
  <1>5. PhaseTells(x)
    BY <1>3, <1>4 DEF PhaseTells, RoundInv, OpenIsAtWork, PausesAreResumable, Accepting,
       Researching
  <1>6. Set(x)
    BY <1>1, <1>2, <1>3, <1>5 DEF Set, RoundInv
  <1>7. StepCloses(x)
    BY <1>6, LaneStepCloses
  <1>8. StepSound(x)
    BY <1>1, LaneStepSound
  <1>9. \A y \in Exps \ {x} : node'[y] = node[y] /\ lane'[y] = lane[y]
    BY <1>1, <1>8 DEF StepSound, Touches, Ready, TypeOK
  <1>10. /\ outer'.pc = "round" /\ IsLoop(outer)' /\ run'.status # "initializing"
         /\ Accepting' => Accepting
         /\ PhaseTells(x)'
         /\ Accepting' /\ ~Working(x)' => node'[x].status \notin Live
         /\ AnswersClose(lane'[x], node'[x])
    BY <1>3, <1>7 DEF StepCloses, RoundInv
  <1>11. Researching' => Accepting'
    BY <1>10 DEF Researching, Accepting
  <1>12. \A y \in Exps \ {x} : ~Working(y)' /\ (Accepting' => node'[y].status \notin Live)
    BY <1>4, <1>9, <1>10 DEF Working
  <1>13. OneAtWork' /\ WorkIsInRounds'
    BY <1>10, <1>12 DEF OneAtWork, WorkIsInRounds
  <1>14. OpenIsAtWork'
    BY <1>10, <1>11, <1>12 DEF OpenIsAtWork, PhaseTells
  <1>15. PausesAreResumable'
    BY <1>10 DEF PausesAreResumable, PhaseTells
  <1>16. \A y \in Exps : AnswersClose(lane[y], node[y])'
    BY <1>9, <1>10 DEF RoundInv
  <1> QED BY <1>10, <1>13, <1>14, <1>15, <1>16 DEF RoundInv

\* No lane works between rounds, so nothing is left open there.
LEMMA NothingOpenBetweenRounds ==
  ASSUME RoundInv, outer.pc \notin {"round", "restart", "aborted"}
  PROVE  \A x \in Exps : ~Working(x) /\ (Researching => node[x].status \notin Live)
  BY DEF RoundInv, WorkIsInRounds, OpenIsAtWork

\* Steps of the loop that leave experiments and lanes alone while nobody works.
LEMMA QuietKeepsRounds ==
  ASSUME RoundInv, lane' = lane, node' = node, IsLoop(outer)',
         Researching' => Researching,
         \A x \in Exps : ~Working(x),
         \/ \A x \in Exps : Researching => node[x].status \notin Live
         \/ outer'.pc \in {"restart", "aborted"} /\ (Resumable' => Resumable)
         \/ ~Researching',
         PausesAreResumable'
  PROVE  RoundInv'
  <1>1. \A x \in Exps : ~Working(x)'
    BY DEF Working
  <1>2. OneAtWork' /\ WorkIsInRounds'
    BY <1>1 DEF OneAtWork, WorkIsInRounds
  <1>3. OpenIsAtWork'
    BY DEF RoundInv, OpenIsAtWork
  <1> QED BY <1>2, <1>3 DEF RoundInv

\* Moving the loop on keeps its fields.
LEMMA LoopMoves ==
  ASSUME NEW o, IsLoop(o), NEW p, NEW m, m = [o EXCEPT !.pc = p]
  PROVE  IsLoop(m) /\ m.pc = p
  <1>1. o = [pc |-> o.pc, pending |-> o.pending, expired |-> o.expired,
             crashes |-> o.crashes]
    BY DEF IsLoop
  <1>2. m = [pc |-> p, pending |-> o.pending, expired |-> o.expired,
             crashes |-> o.crashes]
    BY <1>1
  <1> QED BY <1>2 DEF IsLoop

\* So does ending a round.
LEMMA LoopEnds ==
  ASSUME NEW o, IsLoop(o), NEW p, NEW m, m = [o EXCEPT !.pc = p, !.pending = "none"]
  PROVE  IsLoop(m) /\ m.pc = p
  <1>1. o = [pc |-> o.pc, pending |-> o.pending, expired |-> o.expired,
             crashes |-> o.crashes]
    BY DEF IsLoop
  <1>2. m = [pc |-> p, pending |-> "none", expired |-> o.expired,
             crashes |-> o.crashes]
    BY <1>1
  <1> QED BY <1>2 DEF IsLoop

\* Either leaves the lanes as they are.
LEMMA OuterFields ==
  ASSUME RoundInv, NEW p, Outer(p) \/ Ended(p)
  PROVE  lane' = lane /\ IsLoop(outer)' /\ outer'.pc = p
  <1>1. IsLoop(outer)
    BY DEF RoundInv
  <1>2. CASE Outer(p)
    <2>1. lane' = lane /\ outer' = [outer EXCEPT !.pc = p]
      BY <1>2 DEF Outer
    <2>2. IsLoop(outer') /\ outer'.pc = p
      BY <1>1, <2>1, LoopMoves
    <2> QED BY <2>1, <2>2 DEF IsLoop
  <1>3. CASE Ended(p)
    <2>1. lane' = lane /\ outer' = [outer EXCEPT !.pc = p, !.pending = "none"]
      BY <1>3 DEF Ended
    <2>2. IsLoop(outer') /\ outer'.pc = p
      BY <1>1, <2>1, LoopEnds
    <2> QED BY <2>1, <2>2 DEF IsLoop
  <1> QED BY <1>2, <1>3

\* A run opens at a planning checkpoint.
LEMMA BootstrapKeepsRounds ==
  ASSUME TypeOK, RoundInv, Bootstrap
  PROVE  RoundInv'
  <1>0. outer.pc = "boot"
    BY DEF Bootstrap, OuterAt
  <1>1. \A x \in Exps : ~Working(x) /\ (Researching => node[x].status \notin Live)
    BY <1>0, NothingOpenBetweenRounds
  <1>2. lane' = lane /\ node' = node /\ (Researching' => Researching)
    BY RunFields DEF Bootstrap, RunStarted, ContractVerified, BaselineVerified, Researching,
       harness, Outer
  <1>3. CASE outer' = outer
    <2>1. PausesAreResumable' /\ IsLoop(outer)'
      BY <1>0, <1>3 DEF PausesAreResumable, RoundInv
    <2> QED BY <1>1, <1>2, <2>1, QuietKeepsRounds
  <1>4. CASE BaselineVerified /\ Outer("loop")
    <2>1. outer'.pc = "loop" /\ IsLoop(outer)'
      BY <1>4, OuterFields
    <2>2. run'.phase = "planning"
      BY <1>4, RunFields DEF BaselineVerified
    <2>3. PausesAreResumable'
      BY <2>1, <2>2 DEF PausesAreResumable, Resumable
    <2> QED BY <1>1, <1>2, <2>1, <2>3, QuietKeepsRounds
  <1> QED BY <1>3, <1>4 DEF Bootstrap, harness

\* A stop leaves nothing to be resumed.
LEMMA StopKeepsRounds ==
  ASSUME TypeOK, RoundInv, FatalStop \/ BudgetStop, \A x \in Exps : ~Working(x),
         Outer("over") \/ Ended("over")
  PROVE  RoundInv'
  <1>1. lane' = lane /\ IsLoop(outer)' /\ outer'.pc = "over"
    BY OuterFields
  <1>2. PICK reason : RunStopped(reason)
    BY DEF FatalStop, BudgetStop
  <1>3. run'.status \in {"stopped", "failed"} /\ node' = node
    BY <1>2, RunFields DEF RunStopped
  <1>4. ~Researching'
    BY <1>3 DEF Researching
  <1>5. PausesAreResumable'
    BY <1>1 DEF PausesAreResumable
  <1> QED BY <1>1, <1>3, <1>4, <1>5, QuietKeepsRounds

\* The loop plans from a planning checkpoint, or ends.
LEMMA LoopKeepsRounds ==
  ASSUME TypeOK, RoundInv, Loop
  PROVE  RoundInv'
  <1>0. outer.pc \in {"loop", "restart"}
    BY DEF Loop, OuterAt
  <1>1. \A x \in Exps : ~Working(x)
    BY <1>0 DEF RoundInv, WorkIsInRounds
  <1>2. CASE ~Researching /\ Outer("over") /\ UNCHANGED vars
    <2>1. lane' = lane /\ IsLoop(outer)' /\ outer'.pc = "over"
      BY <1>2, OuterFields
    <2>2. node' = node /\ ~Researching'
      BY <1>2 DEF vars, Researching
    <2>3. PausesAreResumable'
      BY <2>1 DEF PausesAreResumable
    <2> QED BY <1>1, <2>1, <2>2, <2>3, QuietKeepsRounds
  <1>3. CASE ~Resumable /\ Outer("aborted") /\ UNCHANGED vars
    <2>1. lane' = lane /\ IsLoop(outer)' /\ outer'.pc = "aborted"
      BY <1>3, OuterFields
    <2>2. node' = node /\ (Researching' => Researching) /\ ~Resumable'
      BY <1>3 DEF vars, Researching, Resumable
    <2>3. PausesAreResumable'
      BY <2>1 DEF PausesAreResumable
    <2> QED BY <1>1, <2>1, <2>2, <2>3, QuietKeepsRounds
  <1>4. CASE BudgetStop /\ Outer("over")
    BY <1>1, <1>4, StopKeepsRounds
  <1>5. CASE Resumable /\ ContextCreated("planner") /\ Outer("planning")
    <2>1. lane' = lane /\ IsLoop(outer)' /\ outer'.pc = "planning"
      BY <1>5, OuterFields
    <2>2. /\ node' = node /\ run'.status = run.status /\ run'.phase = "planner_context"
          /\ Accepting
      BY <1>5, RunFields DEF ContextCreated, CanContextCreated, ContextPhase
    <2>3. PausesAreResumable'
      BY <2>1, <2>2 DEF PausesAreResumable, Resumable, Accepting
    <2>4. \A x \in Exps : Researching => node[x].status \notin Live
      BY <1>5 DEF RoundInv, OpenIsAtWork
    <2>5. Researching' => Researching
      BY <2>2 DEF Researching
    <2> QED BY <1>1, <2>1, <2>2, <2>3, <2>4, <2>5, QuietKeepsRounds
  <1> QED BY <1>2, <1>3, <1>4, <1>5 DEF Loop

\* A planner that fails leaves the run at its checkpoint.
LEMMA PlannerFailsKeepsRounds ==
  ASSUME Sequential, TypeOK, RoundInv, PlannerFails
  PROVE  RoundInv'
  <1>0. outer.pc = "planning"
    BY DEF PlannerFails, OuterAt
  <1>1. \A x \in Exps : ~Working(x) /\ (Researching => node[x].status \notin Live)
    BY <1>0, NothingOpenBetweenRounds
  <1>2. node' = node /\ run'.status = run.status /\ (Researching' => Researching)
    BY RunFields DEF PlannerFails, PlanningFailed, PlannerRecommended, vars, Researching
  <1>3. CASE Outer("failing")
    <2>1. lane' = lane /\ IsLoop(outer)' /\ outer'.pc = "failing"
      BY <1>3, OuterFields
    <2>2. PausesAreResumable'
      BY <2>1 DEF PausesAreResumable
    <2> QED BY <1>1, <1>2, <2>1, <2>2, QuietKeepsRounds
  <1>4. ASSUME PlannerRecommended, NEW p \in {"blocked", "paused"}, Outer(p)
        PROVE  RoundInv'
    <2>1. lane' = lane /\ IsLoop(outer)' /\ outer'.pc = p
      BY <1>4, OuterFields
    <2>2. run'.phase = run.phase
      BY <1>4, RunFields DEF PlannerRecommended
    <2>3. Accepting => Resumable
      BY <1>0 DEF RoundInv, PausesAreResumable
    <2>4. PausesAreResumable'
      BY <1>2, <2>1, <2>2, <2>3 DEF PausesAreResumable, Accepting, Resumable
    <2> QED BY <1>1, <1>2, <2>1, <2>4, QuietKeepsRounds
  <1> QED BY <1>3, <1>4, NotParallel DEF PlannerFails

\* A paused run is resumed where it paused.
LEMMA ResumeKeepsRounds ==
  ASSUME RoundInv, Resume
  PROVE  RoundInv'
  <1>0. outer.pc = "paused" /\ UNCHANGED vars
    BY DEF Resume, OuterAt
  <1>1. \A x \in Exps : ~Working(x) /\ (Researching => node[x].status \notin Live)
    BY <1>0, NothingOpenBetweenRounds
  <1>2. lane' = lane /\ IsLoop(outer)' /\ outer'.pc = "loop"
    BY OuterFields DEF Resume
  <1>3. node' = node /\ (Researching' => Researching)
    BY <1>0 DEF vars, Researching
  <1>4. PausesAreResumable'
    BY <1>0, <1>2 DEF RoundInv, PausesAreResumable, Accepting, Resumable, vars
  <1> QED BY <1>1, <1>2, <1>3, <1>4, QuietKeepsRounds

\* A round that is over has closed what it opened.
LEMMA EndRoundKeepsRounds ==
  ASSUME TypeOK, RoundInv, EndRound
  PROVE  RoundInv'
  <1>0. outer.pc = "round" /\ \A x \in Exps : ~Working(x)
    BY DEF EndRound, OuterAt, RoundOver, Working
  <1>1. \A x \in Exps : Researching => node[x].status \notin Live
    BY <1>0 DEF RoundInv, OpenIsAtWork
  <1>2. CASE BudgetStop /\ Ended("over")
    BY <1>0, <1>2, StopKeepsRounds
  <1>3. CASE FatalStop /\ Ended("over")
    BY <1>0, <1>3, StopKeepsRounds
  <1>4. ASSUME NEW p \in {"aborted", "loop"}, Ended(p), UNCHANGED vars
        PROVE  RoundInv'
    <2>1. lane' = lane /\ IsLoop(outer)' /\ outer'.pc = p
      BY <1>4, OuterFields
    <2>2. node' = node /\ (Researching' => Researching)
      BY <1>4 DEF vars, Researching
    <2>3. Accepting => Resumable
      BY <1>0, <1>1 DEF RoundInv, PausesAreResumable, Accepting, Researching
    <2>4. PausesAreResumable'
      BY <1>4, <2>1, <2>3 DEF PausesAreResumable, Accepting, Resumable, vars
    <2> QED BY <1>0, <1>1, <2>1, <2>2, <2>4, QuietKeepsRounds
  <1> QED BY <1>2, <1>3, <1>4 DEF EndRound

\* A failed or blocked planner stops the run.
LEMMA PlannerStopsKeepsRounds ==
  ASSUME TypeOK, RoundInv, PlannerStops
  PROVE  RoundInv'
  <1>0. outer.pc \in {"failing", "blocked"}
    BY DEF PlannerStops, OuterAt
  <1>1. \A x \in Exps : ~Working(x)
    BY <1>0, NothingOpenBetweenRounds
  <1> QED BY <1>1, StopKeepsRounds DEF PlannerStops

\* A sequential round takes one experiment, when nothing is open.
LEMMA ProposeKeepsRounds ==
  ASSUME Sequential, HInv, RoundInv, Propose
  PROVE  RoundInv'
  <1>0. /\ TypeOK /\ lane = [y \in Exps |-> lane[y]]
        /\ outer.pc = "planning"
    BY DEF HInv, LanesSound, Propose, OuterAt, RoundInv, PausesAreResumable
  <1>1. \A y \in Exps : ~Working(y) /\ (Researching => node[y].status \notin Live)
    BY <1>0, NothingOpenBetweenRounds
  <1>2. PICK x \in Unproposed, k \in Keys, p \in {"sealing", "round"} :
          /\ p = "sealing" => Cardinality(Batch) + 1 < Width
          /\ ExperimentProposed(x, k, Baseline)
          /\ lane' = [lane EXCEPT ![x].pc =
                         IF Parallel THEN "proposed" ELSE Unexpired("proposed")]
          /\ outer' = [outer EXCEPT !.pc = p]
    BY DEF Propose
  <1>3. p = "round"
    <2>1. IsFiniteSet(Batch)
      BY DomainAssumption, FS_Subset DEF Batch
    <2>2. Cardinality(Batch) \in Nat /\ Width = 1
      BY <2>1, FS_CardinalityType DEF Sequential
    <2> QED BY <1>2, <2>2
  <1>4. x \in Exps /\ node[x].status = "absent" /\ Accepting
    BY <1>2 DEF Unproposed, ExperimentProposed, CanPropose
  <1>5. lane[x] = NewLane
    BY <1>4 DEF HInv, LanesSound, LaneSound, AgreesAt
  <1>6. PICK q \in {"proposed", "expire"} : lane' = [lane EXCEPT ![x].pc = q]
    BY <1>2 DEF Unexpired
  <1>7. PICK m : m = [NewLane EXCEPT !.pc = q] /\ lane' = [lane EXCEPT ![x] = m]
    BY <1>5, <1>6
  <1>8. m.pc = q /\ m.owner = "none"
    BY <1>7 DEF NewLane
  <1>9. lane'[x] = m /\ \A y \in Exps \ {x} : lane'[y] = lane[y]
    BY <1>0, <1>4, <1>7
  <1>10. /\ node'[x].status = "proposed" /\ \A y \in Exps \ {x} : node'[y] = node[y]
         /\ run'.status = "running" /\ run'.phase = "coding"
    BY <1>0, <1>2, <1>4, RunFields DEF ExperimentProposed, TypeOK, NewNode
  <1>11. IsLoop(outer)' /\ outer'.pc = "round"
    <2>1. IsLoop(outer) /\ outer' = [outer EXCEPT !.pc = "round"]
      BY <1>2, <1>3 DEF RoundInv
    <2>2. IsLoop(outer') /\ outer'.pc = "round"
      BY <2>1, LoopMoves
    <2> QED BY <2>2 DEF IsLoop
  <1>12. Working(x)' /\ \A y \in Exps \ {x} : ~Working(y)'
    BY <1>1, <1>6, <1>8, <1>9 DEF Working
  <1>13. OneAtWork' /\ WorkIsInRounds'
    BY <1>10, <1>11, <1>12 DEF OneAtWork, WorkIsInRounds
  <1>14. ~Resumable'
    BY <1>10 DEF Resumable
  <1>15. OpenIsAtWork'
    BY <1>1, <1>4, <1>10, <1>12, <1>14 DEF OpenIsAtWork, Researching, Accepting
  <1>16. node'[x].status \in Live
    BY <1>10 DEF Live
  <1>17. PausesAreResumable'
    BY <1>4, <1>11, <1>16 DEF PausesAreResumable
  <1>18. AnswersClose(lane'[x], node'[x])
    BY <1>6, <1>8, <1>9 DEF AnswersClose, Answering
  <1>19. \A y \in Exps : AnswersClose(lane[y], node[y])'
    BY <1>9, <1>10, <1>18 DEF RoundInv
  <1> QED BY <1>11, <1>13, <1>15, <1>17, <1>19 DEF RoundInv

\* A lane that has not begun has nothing to close.
LEMMA NewLanesClose ==
  ASSUME NEW n
  PROVE  AnswersClose(NewLane, n)
  BY DEF AnswersClose, NewLane, Answering

\* A crash leaves open what it interrupts, and the loop does not go on from there.
LEMMA CrashKeepsRounds ==
  ASSUME RoundInv, Crash
  PROVE  RoundInv'
  <1>1. /\ UNCHANGED vars /\ lane' = [x \in Exps |-> NewLane]
        /\ outer' = [outer EXCEPT !.pc = "restart", !.pending = "none",
                                  !.crashes = outer.crashes + 1]
    BY DEF Crash
  <1>2. outer' = [pc |-> "restart", pending |-> "none", expired |-> outer.expired,
                  crashes |-> outer.crashes + 1]
    BY <1>1 DEF RoundInv, IsLoop
  <1>3. IsLoop(outer)' /\ outer'.pc = "restart"
    BY <1>2 DEF IsLoop
  <1>4. \A x \in Exps : lane'[x] = NewLane /\ ~Working(x)'
    BY <1>1 DEF Working, NewLane
  <1>5. OneAtWork' /\ WorkIsInRounds'
    BY <1>4 DEF OneAtWork, WorkIsInRounds
  <1>6. OpenIsAtWork'
    BY <1>1, <1>3 DEF RoundInv, OpenIsAtWork, Researching, Resumable, vars
  <1>7. PausesAreResumable'
    BY <1>3 DEF PausesAreResumable
  <1>8. \A x \in Exps : AnswersClose(lane[x], node[x])'
    BY <1>4, NewLanesClose
  <1> QED BY <1>3, <1>5, <1>6, <1>7, <1>8 DEF RoundInv

\* Time passes beside whatever goes on.
LEMMA StandingKeepsRounds ==
  ASSUME RoundInv, UNCHANGED <<vars, lane>>, IsLoop(outer)', outer'.pc = outer.pc
  PROVE  RoundInv'
  <1>1. \A x \in Exps : /\ Working(x)' <=> Working(x)
                        /\ AnswersClose(lane[x], node[x])'
    BY DEF Working, RoundInv, vars
  <1>2. OneAtWork' /\ WorkIsInRounds'
    BY <1>1 DEF RoundInv, OneAtWork, WorkIsInRounds, vars
  <1>3. OpenIsAtWork'
    BY <1>1 DEF RoundInv, OpenIsAtWork, Researching, Resumable, vars
  <1>4. PausesAreResumable'
    BY DEF RoundInv, PausesAreResumable, Accepting, Resumable, vars
  <1> QED BY <1>1, <1>2, <1>3, <1>4 DEF RoundInv

\* A budget runs out beside whatever goes on.
LEMMA BudgetExpiresKeepsRounds ==
  ASSUME RoundInv, BudgetExpires
  PROVE  RoundInv'
  <1>1. UNCHANGED <<vars, lane>> /\ outer' = [outer EXCEPT !.expired = TRUE]
    BY DEF BudgetExpires
  <1>2. outer' = [pc |-> outer.pc, pending |-> outer.pending, expired |-> TRUE,
                  crashes |-> outer.crashes]
    BY <1>1 DEF RoundInv, IsLoop
  <1>3. IsLoop(outer)' /\ outer'.pc = outer.pc
    BY <1>2 DEF IsLoop
  <1> QED BY <1>1, <1>3, StandingKeepsRounds

\* Before a run nothing is open.
LEMMA RoundsBegin == HInit => RoundInv
  <1> SUFFICES ASSUME HInit PROVE RoundInv
    OBVIOUS
  <1>1. /\ lane = [x \in Exps |-> NewLane]
        /\ outer = [pc |-> "boot", pending |-> "none", expired |-> FALSE, crashes |-> 0]
    BY DEF HInit
  <1>2. \A x \in Exps : ~Working(x) /\ AnswersClose(lane[x], node[x])
    BY <1>1, NewLanesClose DEF Working, NewLane
  <1>3. \A x \in Exps : node[x].status \notin Live
    BY DEF HInit, Init, NewNode, Live
  <1> QED BY <1>1, <1>2, <1>3 DEF RoundInv, IsLoop, OneAtWork, WorkIsInRounds,
     OpenIsAtWork, PausesAreResumable

\* Every step of a sequential run keeps its rounds closed.
LEMMA RoundsSound ==
  ASSUME Sequential
  PROVE  HInv /\ RoundInv /\ [HNext]_hvars => RoundInv'
  <1> SUFFICES ASSUME HInv, RoundInv, [HNext]_hvars PROVE RoundInv'
    OBVIOUS
  <1>1. TypeOK
    BY DEF HInv
  <1>2. ASSUME NEW x \in Exps, LaneStep(x) PROVE RoundInv'
    BY <1>2, LanesKeepRounds
  <1>3. CASE UNCHANGED hvars
    <2>1. UNCHANGED <<vars, lane>> /\ outer' = outer
      BY <1>3 DEF hvars, vars
    <2>2. IsLoop(outer)'
      BY <2>1 DEF RoundInv, IsLoop
    <2> QED BY <2>1, <2>2, StandingKeepsRounds
  <1> QED BY <1>1, <1>2, <1>3, BootstrapKeepsRounds, LoopKeepsRounds,
     PlannerFailsKeepsRounds, PlannerStopsKeepsRounds, ProposeKeepsRounds,
     EndRoundKeepsRounds, ResumeKeepsRounds, CrashKeepsRounds, BudgetExpiresKeepsRounds
     DEF HNext, OuterStep

-----------------------------------------------------------------------------
(***************************************************************************)
(* The theorems.                                                           *)
(***************************************************************************)
\* The research loop implements the ledger: whatever its lanes, its rounds and its
\* crashes do, the events they append are ones the transition validator admits in
\* this order, so all that Lifecycle promises of a run holds of the program's runs.
THEOREM HarnessIsLifecycle == HSpec => Spec
  <1>1. HInit => Init
    BY DEF HInit
  <1> QED BY <1>1, HarnessInvariance, HNextSound, PTL DEF HSpec, Spec

\* Wherever a lane stands, after any retry or repair and beside any other lanes, the
\* ledger has its experiment at the status its next call belongs to.
THEOREM ControllerAgreesWithLedgerTheorem == HSpec => []ControllerAgreesWithLedger
  <1>1. HInv => ControllerAgreesWithLedger
    BY DEF HInv, LanesSound, LaneSound, AgreesAt, ControllerAgreesWithLedger
  <1> QED BY <1>1, HarnessInvariance, PTL

\* A request the evaluator works on carries the next unused query index, for any
\* number of lanes that wait for the lock beside it.
THEOREM QueryIndexIsFreshTheorem == HSpec => []QueryIndexIsFresh
  <1>1. HInv => QueryIndexIsFresh
    BY DEF HInv
  <1> QED BY <1>1, HarnessInvariance, PTL

\* No gain is lost to the lane beside it or to an older incumbent: when the lane of
\* an eligible acceptance returns, the incumbent is at least as good.
THEOREM EveryAcceptedGainIsKeptTheorem == HSpec => []EveryAcceptedGainIsKept
  <1>1. HInv => EveryAcceptedGainIsKept
    BY DEF HInv, GainsKept, GainKept, EveryAcceptedGainIsKept
  <1> QED BY <1>1, HarnessInvariance, PTL

\* A sequential run hands nothing over half-done, for any number of experiments,
\* repairs, retries and crashes: when planning begins every earlier experiment is
\* closed, and where the loop comes round or pauses it can go on.
THEOREM RoundsEndResumableTheorem ==
  ASSUME Sequential
  PROVE  HSpec => []RoundsEndResumable
  <1>1. RoundInv => RoundsEndResumable
    <2> SUFFICES ASSUME RoundInv PROVE RoundsEndResumable
      OBVIOUS
    <2>1. outer.pc \in {"loop", "planning", "paused"} /\ Accepting => Resumable
      BY DEF RoundInv, PausesAreResumable
    <2>2. CASE outer.pc = "planning"
      <3>1. Researching
        BY <2>2 DEF RoundInv, PausesAreResumable, Accepting, Researching
      <3>2. \A x \in Exps : node[x].status \notin Live
        BY <2>2, <3>1, NothingOpenBetweenRounds
      <3> QED BY <2>2, <3>2 DEF RoundsEndResumable
    <2> QED BY <2>1, <2>2 DEF RoundsEndResumable
  <1>2. RoundInv /\ HInv /\ [HNext]_hvars => RoundInv'
    BY RoundsSound
  <1> QED BY <1>1, <1>2, RoundsBegin, HarnessInvariance, PTL DEF HSpec
=============================================================================
