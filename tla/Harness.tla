------------------------------ MODULE Harness ------------------------------
(***************************************************************************)
(* The research loop of orchestrator/router.py: run_until_stopped, the     *)
(* rounds it runs and the lane of each experiment (_run_one_experiment),   *)
(* over the ledger of Lifecycle and the recovery policy of RecoveryRules.  *)
(*                                                                         *)
(* A lane is a program whose counter pc names the adapter call it awaits   *)
(* or the append it is about to make.  Every append is an action of        *)
(* Lifecycle; one the ledger refuses raises TransitionError, and the lane  *)
(* goes to "refused".  asyncio runs a lane without interruption from one   *)
(* awaited call to the next, so a lane moves only when the others await.   *)
(*                                                                         *)
(* The evaluator is the production bridge (orchestrator/live.py); the      *)
(* other adapters return or raise anything.                                *)
(***************************************************************************)
EXTENDS Lifecycle, RecoveryRules, Sequences

CONSTANTS
    MaxExperiments, \* max_experiments: the run's experiment budget
    Width,      \* parallel_directions: lanes of one round; 1 runs them in turn
    Faults,     \* Faults[name]: classifications the failures of a name may have
    Expiring,   \* whether the wall-time, token or GPU budget may run out
    MaxCrashes  \* bound: crashes of the controller's process

\* Exps bounds the experiments a behaviour shows; the budget may be larger, so
\* that a failure can be met with experiments left.
ASSUME HarnessAssumption ==
    /\ MaxExperiments \in Nat /\ Cardinality(Exps) <= MaxExperiments
    /\ Width \in Nat \ {0} /\ Expiring \in BOOLEAN /\ MaxCrashes \in Nat
    /\ Faults \in [LedgerNames -> SUBSET {Classify(f) : f \in AllFailures}]
    /\ \A f \in Failures : RoutedTo(f, MaxRepairs) \subseteq Policy[f]
    /\ IsFiniteSet(Seeds) /\ Seeds = 1..Cardinality(Seeds)
    /\ MaxConfirm < Cardinality(Seeds)

VARIABLES
    lane,   \* lane[x]: the control state and locals of x's _run_one_experiment
    outer   \* the loop: pc, a parallel round's deferred stop, budget expiry, crashes

harness == <<lane, outer>>
hvars == <<run, node, evid, best, lane, outer>>

Parallel == Width > 1
ExperimentsSpent == Cardinality(Proposed) >= MaxExperiments
NoFault ==
    [class |-> "none", coding |-> FALSE, candidate |-> FALSE,
     deliberate |-> FALSE, disk |-> FALSE, control |-> FALSE, verifier |-> FALSE,
     retryable |-> FALSE, defect |-> FALSE, progress |-> FALSE]
FidelityPlan == <<"smoke", "proxy", "full">>

\* Where a lane gives control back: an awaited adapter call, or not running.
Awaits == {"coder", "gate", "run", "outgate", "lock", "judge", "decide",
           "repair", "regate"}
Resting == {"idle", "proposed", "returned", "raised", "crashed"}

NewLane ==
    [pc |-> "idle", try |-> 0, stages |-> FidelityPlan, template |-> FALSE,
     settings |-> {}, site |-> "none", owner |-> "none", fault |-> NoFault,
     again |-> FALSE, failed |-> FALSE, wiring |-> FALSE, recorded |-> {},
     via |-> "none", index |-> 0]

HInit ==
    /\ Init
    /\ lane = [x \in Exps |-> NewLane]
    /\ outer = [pc |-> "boot", pending |-> "none", expired |-> FALSE, crashes |-> 0]

-----------------------------------------------------------------------------
(***************************************************************************)
(* Steps of a lane.                                                        *)
(***************************************************************************)
At(x, p) ==
    /\ lane[x].pc = p
    /\ \A y \in Exps \ {x} : lane[y].pc \in Awaits \cup Resting

Lane(x, l) == lane' = [lane EXCEPT ![x] = l] /\ UNCHANGED outer
To(x, p) == Lane(x, [lane[x] EXCEPT !.pc = p])

\* An append the ledger does not admit raises TransitionError.
Refused(x, admitted) == ~admitted /\ To(x, "refused") /\ UNCHANGED vars

\* _stop_if_runtime_budget_exhausted on the way to p.
Unexpired(p) == IF outer.expired THEN "expire" ELSE p

\* The stop of a lane: at once in a sequential round, deferred to the end of a
\* parallel one.
FatalStop == RunStopped("fatal_integrity")
BudgetStop == RunStopped("experiment_budget")
Defer(x, p, pending) ==
    /\ lane' = [lane EXCEPT ![x].pc = p]
    /\ outer' = [outer EXCEPT !.pending = pending]
    /\ UNCHANGED vars

\* A fingerprint repeats only if an earlier failure of the experiment is on
\* record; all no-op evaluations of an experiment share one.
Repeats(x, name) ==
    IF name = "no_op" THEN {lane[x].wiring}
    ELSE IF lane[x].failed THEN BOOLEAN ELSE {FALSE}

\* The local state with a failure recorded and awaiting its recovery context.
Failing(l, site, k, again) ==
    [l EXCEPT !.pc = "recover", !.site = site, !.fault = k, !.again = again,
              !.failed = TRUE]

\* The stage _record_adapter_failure writes for Lifecycle's stage name.
RecordedStage(stage) == IF stage = "decision" THEN "evaluation" ELSE stage

(***************************************************************************)
(* _record_adapter_failure: an exception becomes an adapter.failed event.  *)
(* Its idempotency key holds the stage, the attempt and the text: a retry  *)
(* that fails in the very same way has the key of the failure before it,   *)
(* so nothing is appended and the old event is returned.  The coder's own  *)
(* retry is another attempt, with a key of its own.                        *)
(***************************************************************************)
RaisesOneOf(x, stage, site, kinds) ==
    \/ \E k \in kinds, again \in Repeats(x, stage) :
          /\ AdapterFailed(x, stage)
          /\ Lane(x, [Failing(lane[x], site, k, again) EXCEPT
                        !.recorded = IF site = "code0" THEN @
                                     ELSE @ \cup {RecordedStage(stage)}])
    \/ \E k \in {kind \in kinds : kind.retryable} :
          /\ RecordedStage(stage) \in lane[x].recorded
          /\ Lane(x, Failing(lane[x], site, k, FALSE))
          /\ UNCHANGED vars
    \/ Refused(x, CanAdapterFailed(x, stage))

Raises(x, stage, site) == RaisesOneOf(x, stage, site, Faults[stage])

-----------------------------------------------------------------------------
(***************************************************************************)
(* Recovery (_recover) and where each call site resumes.                   *)
(***************************************************************************)
\* The stage an owner's one retry resumes at.
RetryAt == [code0 |-> "coder", gate0 |-> "gate", out0 |-> "outgate",
            eval0 |-> "lock", dec0 |-> "decide", work |-> "repair"]

\* What a site does when the answer neither retries nor repairs.
GivesUpAt ==
    [code0 |-> "returned", code1 |-> "returned", gate0 |-> "halt",
     gate1 |-> "returned", patch |-> "returned", run |-> "returned",
     finished |-> "returned", out0 |-> "abandon", out1 |-> "abandon",
     output |-> "abandon", eval0 |-> "abandon", eval1 |-> "abandon",
     noop |-> "returned", dec0 |-> "returned", dec1 |-> "returned",
     work |-> "unavailable", lane |-> "closing"]

Repairing == DOMAIN GivesUpAt \ {"code0", "code1", "dec1", "work", "lane"}
BeforeRuns == {"gate0", "gate1", "patch"}
Looping == {"patch", "run", "finished", "output", "noop"}

\* The same fidelity is queued again, on the last request as a template.
Requeued(x, l) ==
    [l EXCEPT !.pc = "launch", !.template = TRUE,
              !.stages = <<evid[x].request.fidelity>> \o @]

Reruns == {"retry_same_commit", "adjust_approved_runtime_setting"}

Continued(x, l, action) ==
    IF action \in Reruns /\ l.site \in {"run", "finished"} THEN Requeued(x, l)
    ELSE IF action = "retry_same_commit" /\ l.site \in DOMAIN RetryAt
         THEN [l EXCEPT !.pc = RetryAt[l.site], !.try = 1]
    ELSE IF action \in CodeActions /\ l.site \in Repairing
         THEN [l EXCEPT !.pc = "repair", !.try = 0, !.owner = l.site]
    ELSE [l EXCEPT !.pc = GivesUpAt[l.site]]

\* RecoveryPolicyContext: what the policy reads of the projection.
Context(x) ==
    [used |-> node[x].repairs, left |-> MaxRepairs - node[x].repairs,
     retries |-> node[x].retries, again |-> lane[x].again,
     wiring |-> lane[x].wiring, settings |-> lane[x].settings,
     spent |-> (IF ExperimentsSpent THEN {"experiments"} ELSE {})
               \cup (IF outer.expired THEN {"resources"} ELSE {})]

\* reason_code INTEGRITY_VIOLATION: a boundary crossed beyond the candidate.
IntegrityViolation(k) == k.deliberate /\ ~k.candidate

Briefed(x, l) == [l EXCEPT !.fault = NoFault, !.again = FALSE]

\* Mutant of Answered: the adjusted settings are not carried to the rerun.
ForgottenSettings(x, action) ==
    LET k == lane[x].fault IN
    Briefed(x, [Continued(x, lane[x], action) EXCEPT
        !.wiring = @ \/ (k.class = "no_op" /\ action = "trae_repair")])

\* The locals once the decision is recorded.
Answered(x, action) ==
    LET k == lane[x].fault
        l == [lane[x] EXCEPT
                !.wiring = @ \/ (k.class = "no_op" /\ action = "trae_repair"),
                !.settings = IF action = "adjust_approved_runtime_setting"
                    THEN @ \cup {SelectedAdjustment(k.class, @)} ELSE @]
    IN  Briefed(x, Continued(x, l, action))

RecoveryContext(x) ==
    /\ At(x, "recover")
    /\ \/ ContextCreated("worker") /\ To(x, "answer")
       \/ Refused(x, CanContextCreated)

Answer(x) ==
    /\ At(x, "answer")
    /\ LET k == lane[x].fault
           action == Route(k, Context(x))
       IN  \/ /\ RecoveryDecided(x, action)
              /\ Lane(x, IF IntegrityViolation(k)
                         THEN [Briefed(x, lane[x]) EXCEPT !.pc = "fatal"]
                         ELSE Answered(x, action))
           \/ Refused(x, CanRecoveryDecided(x, action))

\* _recover stops the run on an integrity violation, and the site goes on.
Fatal(x) ==
    /\ At(x, "fatal")
    /\ \/ Parallel /\ Defer(x, GivesUpAt[lane[x].site], "fatal")
       \/ /\ ~Parallel
          /\ \/ FatalStop /\ To(x, GivesUpAt[lane[x].site])
             \/ Refused(x, CanRunStopped)

-----------------------------------------------------------------------------
(***************************************************************************)
(* Coding and Gate A.                                                      *)
(***************************************************************************)
\* No lane starts before its round is sealed.
BriefCoder(x) ==
    /\ outer.pc = "round" /\ At(x, "proposed")
    /\ \/ ContextCreated("worker") /\ To(x, "coder")
       \/ Refused(x, CanContextCreated)

CreatePatch(x) ==
    /\ At(x, "coder")
    /\ \/ /\ PatchCreated(x)
          /\ Lane(x, [lane[x] EXCEPT !.pc = Unexpired("gate"), !.try = 0,
                                     !.recorded = {}])
       \/ Refused(x, CanPatchCreated(x))
       \/ Raises(x, "coding", IF lane[x].try = 0 THEN "code0" ELSE "code1")

GateA(x) ==
    /\ At(x, "gate")
    /\ \/ PatchChecked(x, TRUE) /\ To(x, "launch")
       \/ \E k \in Faults["patch_rejected"], again \in Repeats(x, "patch_rejected") :
             /\ PatchChecked(x, FALSE)
             /\ Lane(x, Failing(lane[x], "patch", k, again))
       \/ Refused(x, CanPatchChecked(x))
       \/ Raises(x, "patch_gate", IF lane[x].try = 0 THEN "gate0" ELSE "gate1")

\* A Gate A failure that is neither retried nor repaired stops the run, from a
\* parallel lane too.
HaltAtGate(x) ==
    /\ At(x, "halt")
    /\ \/ FatalStop /\ To(x, "returned")
       \/ Refused(x, CanRunStopped)

-----------------------------------------------------------------------------
(***************************************************************************)
(* Code repairs (_execute_code_repair).                                    *)
(***************************************************************************)
RepairPatch(x) ==
    /\ At(x, "repair")
    /\ \/ /\ PatchCreated(x)
          /\ Lane(x, [lane[x] EXCEPT !.pc = "regate", !.try = 0, !.recorded = {}])
       \/ Refused(x, CanPatchCreated(x))
       \/ lane[x].try = 0 /\ Raises(x, "coding", "work")
       \/ /\ lane[x].try = 1 /\ Faults["coding"] # {}
          /\ To(x, "escaped") /\ UNCHANGED vars

\* The budget is checked after a repair except where an adapter had failed.
AfterRepair(p, owner) ==
    IF owner \in Looping \ {"run"} THEN Unexpired(p) ELSE p

CheckRepair(x) ==
    /\ At(x, "regate")
    /\ LET owner == lane[x].owner IN
       \/ /\ PatchChecked(x, TRUE)
          /\ LET l == IF owner \in BeforeRuns
                      THEN [lane[x] EXCEPT !.pc = "launch"]
                      ELSE Requeued(x, lane[x])
             IN  Lane(x, [l EXCEPT !.pc = AfterRepair("launch", owner)])
       \/ \E k \in Faults["patch_rejected"], again \in Repeats(x, "patch_rejected") :
             /\ PatchChecked(x, FALSE)
             /\ LET site == IF owner \in BeforeRuns THEN "patch" ELSE owner
                    l == Failing(lane[x], site, k, again)
                IN  Lane(x, [l EXCEPT !.pc =
                        IF site \in Looping THEN AfterRepair("recover", owner)
                        ELSE GivesUpAt[owner]])
       \/ Refused(x, CanPatchChecked(x))
       \/ /\ Faults["patch_gate"] # {}
          /\ To(x, "escaped") /\ UNCHANGED vars

(***************************************************************************)
(* _RepairWorkerUnavailable: the failure of the repair worker is answered  *)
(* already.  A no-op handed back to the planner just returns; otherwise a  *)
(* sequential round stops unless the active experiment is closed, and a    *)
(* parallel lane takes the exception for a new failure.                    *)
(***************************************************************************)
SafelyClosed(x) == node[x].status \in Closed

RepairUnavailable(x) ==
    /\ At(x, "unavailable")
    /\ IF /\ node[x].status = "no_op"
          /\ lane[x].owner = "noop" \/ ~Parallel
       THEN To(x, "returned") /\ UNCHANGED vars
       ELSE IF Parallel THEN To(x, "escaped") /\ UNCHANGED vars
       ELSE IF run.active \in Exps /\ SafelyClosed(x)
       THEN To(x, "returned") /\ UNCHANGED vars
       ELSE \/ FatalStop /\ To(x, "returned")
            \/ Refused(x, CanRunStopped)

\* _adapter_failure_stage: after a decision the coder was at work, after a patch
\* Gate A was.
EscapedStage(x) ==
    IF node[x].status = "patch_ready" THEN "patch_gate" ELSE "coding"

\* An escaped exception is recorded and answered, but never acted upon.
Escaped(x) ==
    /\ At(x, "escaped")
    /\ IF ~Parallel /\ run.active = NoExp
       THEN \/ FatalStop /\ To(x, "returned")
            \/ Refused(x, CanRunStopped)
       ELSE Raises(x, EscapedStage(x), "lane")

\* Mutant of CloseEscaped: whatever recovery recorded, the loop goes on.
UnclosedEscape(x) ==
    /\ At(x, "closing")
    /\ To(x, "returned") /\ UNCHANGED vars

\* _lane_closed_safely, or the run stops; a parallel lane keeps an earlier reason.
CloseEscaped(x) ==
    /\ At(x, "closing")
    /\ IF SafelyClosed(x) THEN To(x, "returned") /\ UNCHANGED vars
       ELSE IF Parallel
       THEN Defer(x, "returned",
                  IF outer.pending = "none" THEN "failure" ELSE outer.pending)
       ELSE \/ FatalStop /\ To(x, "returned")
            \/ Refused(x, CanRunStopped)

-----------------------------------------------------------------------------
(***************************************************************************)
(* Execution and Gate B.                                                   *)
(***************************************************************************)
\* Recorded full evaluations of the commit in hand, and their seeds.
PriorSeeds(x) == {e.seed : e \in {f \in evid[x].evals : f.commit = node[x].commit}}

\* _execution_seed: the next seed of the schedule the commit has not used up.
SeedFor(x, fidelity) ==
    IF fidelity # "full" THEN 0 ELSE Cardinality(PriorSeeds(x)) + 1

\* A request built from the last one keeps its seed.
RequestOf(x) ==
    LET fidelity == Head(lane[x].stages) IN
    [commit |-> node[x].commit, fidelity |-> fidelity, command |-> "candidate",
     seed |-> IF lane[x].template THEN evid[x].request.seed
              ELSE SeedFor(x, fidelity)]

\* A schedule without another seed raises OrchestrationError.
Launch(x) ==
    /\ At(x, "launch")
    /\ LET rq == RequestOf(x)
           possible == rq.seed \in Seeds \cup {0} /\ CanExecutionStarted(x, rq)
       IN  \/ /\ possible /\ ExecutionStarted(x, rq)
              /\ Lane(x, [lane[x] EXCEPT !.pc = "run", !.try = 0,
                              !.stages = Tail(@), !.template = FALSE,
                              !.recorded = {}, !.via = "none", !.index = 0])
           \/ Refused(x, possible)

RunCandidate(x) ==
    /\ At(x, "run")
    /\ \/ ExecutionFinished(x, TRUE) /\ To(x, Unexpired("outgate"))
       \/ \E k \in Faults["run_failed"], again \in Repeats(x, "run_failed") :
             /\ ExecutionFinished(x, FALSE)
             /\ Lane(x, [Failing(lane[x], "finished", k, again) EXCEPT
                           !.pc = Unexpired("recover")])
       \/ Refused(x, CanExecutionFinished(x))
       \/ Raises(x, "execution", "run")

\* The accepted output of a retried gate cites the recovery decision as its cause.
GateB(x) ==
    /\ At(x, "outgate")
    /\ \/ /\ OutputChecked(x, TRUE)
          /\ Lane(x, [lane[x] EXCEPT
                !.pc = IF evid[x].request.fidelity = "smoke" THEN "smoke" ELSE "lock",
                !.via = IF lane[x].try = 1 THEN "output" ELSE @, !.try = 0])
       \/ \E k \in Faults["output_rejected"], again \in Repeats(x, "output_rejected") :
             /\ OutputChecked(x, FALSE)
             /\ Lane(x, Failing(lane[x], "output", k, again))
       \/ Refused(x, CanOutputChecked(x))
       \/ Raises(x, "output_gate", IF lane[x].try = 0 THEN "out0" ELSE "out1")

PromoteSmoke(x) ==
    /\ At(x, "smoke")
    /\ LET next == Head(lane[x].stages) IN
       \/ /\ ExperimentDecided(x, "promote", "smoke", FALSE, next)
          /\ Lane(x, [lane[x] EXCEPT !.pc = "launch"])
       \/ Refused(x, CanExperimentDecided(x, "promote", "smoke", FALSE, next))

\* _abandon_experiment cites no evaluation, so the ledger admits it only of an
\* output-verified smoke run.
CanAbandon(x) ==
    /\ evid[x].request.fidelity = "smoke"
    /\ CanExperimentDecided(x, "invalid", "smoke", FALSE, "smoke")

Abandon_experiment(x) ==
    /\ At(x, "abandon")
    /\ \/ /\ CanAbandon(x)
          /\ ExperimentDecided(x, "invalid", "smoke", FALSE, "smoke")
          /\ Lane(x, [lane[x] EXCEPT !.pc = "returned"])
       \/ Refused(x, CanAbandon(x))

-----------------------------------------------------------------------------
(***************************************************************************)
(* Protected evaluation.                                                   *)
(***************************************************************************)
\* Mutant of Judging: the evaluator is entered without the lock.
UnlockedJudging(x) ==
    /\ At(x, "lock")
    /\ Lane(x, [lane[x] EXCEPT !.pc = "judge",
            !.index = IF evid[x].request.fidelity # "full" THEN 0
                      ELSE IF lane[x].try = 1 THEN @ ELSE run.queries + 1])
    /\ UNCHANGED vars

\* Under the evaluation lock the request takes the next query index; a retry
\* reuses the request it was made for.
Judging(x) ==
    /\ At(x, "lock")
    /\ \A y \in Exps \ {x} : lane[y].pc # "judge"
    /\ Lane(x, [lane[x] EXCEPT !.pc = "judge",
            !.index = IF evid[x].request.fidelity # "full" THEN 0
                      ELSE IF lane[x].try = 1 THEN @ ELSE run.queries + 1])
    /\ UNCHANGED vars

\* The bridge resolves an output to its execution through the events' causes, and
\* refuses seed evidence that repeats the seed in hand.
BridgeRefuses(x) ==
    \/ lane[x].via = "output"
    \/ evid[x].request.fidelity = "full" /\ evid[x].request.seed \in PriorSeeds(x)

\* assess_trust: one seed is accepted or not, more confirm or do not.
TrustsFor(x) ==
    {"untrusted", "no_op"} \cup
    IF evid[x].request.fidelity = "full" /\ PriorSeeds(x) # {}
    THEN {"confirmed"} ELSE {"accepted"}

\* An exception of the controller's own: no provider code, nothing recognised.
PlainFault ==
    Classify([origin |-> "adapter", stage |-> "evaluation",
              outcome |-> "infrastructure_error", code |-> "plain",
              text |-> "plain", findings |-> {}])

EvaluationSite(x) == IF lane[x].try = 0 THEN "eval0" ELSE "eval1"

\* An evaluation the ledger refuses is caught as one more evaluator failure.
Evaluate(x) ==
    /\ At(x, "judge")
    /\ \/ \E trust \in TrustsFor(x), score \in Scores :
             /\ ~BridgeRefuses(x)
             /\ EvaluationCompleted(x, trust, score, lane[x].index)
             /\ LET l == [lane[x] EXCEPT
                        !.pc = Unexpired("decide"), !.try = 0,
                        !.via = IF lane[x].try = 1 THEN "evaluation" ELSE @]
                IN  IF trust # "no_op" THEN Lane(x, l)
                    ELSE \E k \in Faults["no_op"], again \in Repeats(x, "no_op") :
                           Lane(x, [Failing(l, "noop", k, again) EXCEPT
                                        !.pc = Unexpired("recover")])
       \/ /\ \/ BridgeRefuses(x)
             \/ \A trust \in TrustsFor(x) :
                    ~CanEvaluationCompleted(x, trust, lane[x].index)
          /\ RaisesOneOf(x, "evaluation", EvaluationSite(x), {PlainFault})
       \/ Raises(x, "evaluation", EvaluationSite(x))

\* decide of evaluation/decisions.py: kind, eligibility and next fidelity.
Verdicts(x) ==
    LET fidelity == evid[x].request.fidelity
        trust == node[x].trust
        confirmed == Cardinality(PriorSeeds(x)) - 1
        verdict(kind, eligible, next) ==
            [kind |-> kind, eligible |-> eligible, next |-> next]
    IN  IF fidelity = "proxy"
        THEN {verdict("promote", FALSE, "full")} \cup
             IF trust = "accepted" THEN {}
             ELSE {verdict(kind, FALSE, "smoke") : kind \in {"prune", "invalid"}}
        ELSE IF trust = "accepted"
        THEN {IF confirmed >= MaxConfirm THEN verdict("reject", FALSE, "smoke")
              ELSE verdict("promote", FALSE, "full")}
        ELSE IF trust = "confirmed"
        THEN {verdict("accept", eligible, "smoke") : eligible \in BOOLEAN}
        ELSE {verdict(kind, FALSE, "smoke") :
                kind \in {"reject", "invalid"} \cup
                         (IF confirmed > 0 THEN {"accept"} ELSE {})}

\* A decision cannot resolve an evaluation that a retry caused.
Decide(x) ==
    /\ At(x, "decide")
    /\ LET fidelity == evid[x].request.fidelity
           site == IF lane[x].try = 0 THEN "dec0" ELSE "dec1"
       IN  \/ \E v \in Verdicts(x) :
                 /\ lane[x].via # "evaluation"
                 /\ ExperimentDecided(x, v.kind, fidelity, v.eligible, v.next)
                 /\ Lane(x, IF v.kind = "promote"
                     THEN [lane[x] EXCEPT !.pc = "launch",
                             !.stages = IF @ # <<>> /\ Head(@) = v.next THEN @
                                        ELSE <<v.next>> \o @]
                     ELSE [lane[x] EXCEPT
                             !.pc = IF v.eligible THEN "best" ELSE "returned"])
           \/ \E v \in Verdicts(x) :
                 /\ lane[x].via # "evaluation"
                 /\ Refused(x, CanExperimentDecided(x, v.kind, fidelity,
                                                    v.eligible, v.next))
           \/ /\ lane[x].via = "evaluation"
              /\ RaisesOneOf(x, "decision", site, {PlainFault})
           \/ lane[x].via # "evaluation" /\ Raises(x, "decision", site)

\* Mutant of UpdateBest: the score is compared with the baseline's.
ComparedToBaseline(x) ==
    /\ At(x, "best")
    /\ IF best.exp = Baseline /\ node[x].score > best.score
       THEN BestUpdated(x) /\ To(x, "returned")
       ELSE To(x, "returned") /\ UNCHANGED vars

\* The incumbent is read again before it is replaced.
UpdateBest(x) ==
    /\ At(x, "best")
    /\ IF node[x].score > best.score
       THEN \/ BestUpdated(x) /\ To(x, "returned")
            \/ Refused(x, CanBestUpdated(x))
       ELSE To(x, "returned") /\ UNCHANGED vars

-----------------------------------------------------------------------------
(***************************************************************************)
(* Stops, and exceptions of the controller itself.                         *)
(***************************************************************************)
Expire(x) ==
    /\ At(x, "expire")
    /\ IF Parallel THEN Defer(x, "returned", "budget")
       ELSE \/ BudgetStop /\ To(x, "returned")
            \/ Refused(x, CanRunStopped)

\* A refused append ends the run fail-closed; if even the stop is refused the
\* exception leaves run_one_experiment.  A parallel lane hands it to its round.
ControlPlaneFailure(x) ==
    /\ At(x, "refused")
    /\ IF Parallel THEN To(x, "raised") /\ UNCHANGED vars
       ELSE \/ FatalStop /\ To(x, "returned")
            \/ ~CanRunStopped /\ To(x, "crashed") /\ UNCHANGED vars

LaneStep(x) ==
    \/ BriefCoder(x) \/ CreatePatch(x) \/ GateA(x) \/ HaltAtGate(x)
    \/ RepairPatch(x) \/ CheckRepair(x) \/ RepairUnavailable(x)
    \/ Escaped(x) \/ CloseEscaped(x)
    \/ Launch(x) \/ RunCandidate(x) \/ GateB(x) \/ PromoteSmoke(x)
    \/ Abandon_experiment(x)
    \/ Judging(x) \/ Evaluate(x) \/ Decide(x) \/ UpdateBest(x)
    \/ RecoveryContext(x) \/ Answer(x) \/ Fatal(x)
    \/ Expire(x) \/ ControlPlaneFailure(x)

-----------------------------------------------------------------------------
(***************************************************************************)
(* The outer loop (run_until_stopped) and the rounds.                      *)
(***************************************************************************)
Outer(p) == outer' = [outer EXCEPT !.pc = p] /\ UNCHANGED lane
OuterAt(p) == outer.pc = p
Unproposed == Exps \ Proposed

\* bootstrap: the three events that open a run.
Bootstrap ==
    /\ OuterAt("boot")
    /\ \/ RunStarted /\ UNCHANGED harness
       \/ ContractVerified /\ UNCHANGED harness
       \/ BaselineVerified /\ Outer("loop")

\* The loop ends with the run, goes on only from a planning checkpoint, stops by a
\* frozen rule (convergence may match once something was tried), or plans.
Resumable == run.phase \in {"planning", "planner_context"}
MustStop == ExperimentsSpent \/ outer.expired
MayStop == MustStop \/ Proposed # {}

Loop ==
    /\ OuterAt("loop") \/ OuterAt("restart")
    /\ \/ ~Researching /\ Outer("over") /\ UNCHANGED vars
       \/ Researching /\ ~Resumable /\ Outer("aborted") /\ UNCHANGED vars
       \/ Resumable /\ MayStop /\ BudgetStop /\ Outer("over")
       \/ Resumable /\ ~MustStop /\ ContextCreated("planner") /\ Outer("planning")

(***************************************************************************)
(* A planner failure is recorded and stops the run; a blocked planner ends *)
(* a sequential run as out of legal proposals and fails a parallel one.    *)
(* An invalid plan, and the duplicate directions of a parallel round,      *)
(* raise ResumablePlanningError, which leaves run_until_stopped.           *)
(***************************************************************************)
PlannerFails ==
    /\ OuterAt("planning")
    /\ \/ PlanningFailed /\ Outer("failing")
       \/ PlanningFailed /\ Parallel /\ Outer("paused")
       \/ ~CanPlanningFailed /\ UNCHANGED vars
             /\ Outer(IF Parallel THEN "aborted" ELSE "failing")
       \/ Parallel /\ Outer("failing") /\ UNCHANGED vars
       \/ PlannerRecommended /\ ~Parallel
             /\ \E p \in {"blocked", "paused"} : Outer(p)

PlannerStops ==
    \/ OuterAt("failing") /\ FatalStop /\ Outer("over")
    \/ OuterAt("blocked") /\ BudgetStop /\ Outer("over")

\* The operator runs run_until_stopped again after a ResumablePlanningError.
Resume == OuterAt("paused") /\ Outer("loop") /\ UNCHANGED vars

\* The batch is sealed before any lane starts: distinct methods, fresh identities,
\* at most Width of them.
Batch == {x \in Exps : lane[x].pc = "proposed"}

Propose ==
    /\ OuterAt("planning") \/ OuterAt("sealing")
    /\ \E x \in Unproposed, k \in Keys, p \in {"sealing", "round"} :
          /\ p = "sealing" => /\ Cardinality(Batch) + 1 < Width
                              /\ Unproposed # {x}
                              /\ \E other \in Keys \ {k} : SameKey(other) = {}
          /\ Parallel => SameKey(k) = {}
          /\ ExperimentProposed(x, k, Baseline)
          /\ lane' = [lane EXCEPT ![x].pc =
                         IF Parallel THEN "proposed" ELSE Unexpired("proposed")]
          /\ outer' = [outer EXCEPT !.pc = p]

\* gather has every lane's result and the round's stop is appended once; without one
\* a parallel round applies the stop rules itself, whatever the phase of the run.
RoundOver == \A x \in Exps : lane[x].pc \in {"idle", "returned", "raised", "crashed"}
Ended(p) == outer' = [outer EXCEPT !.pc = p, !.pending = "none"] /\ UNCHANGED lane
Anyone(p) == \E x \in Exps : lane[x].pc = p

EndRound ==
    /\ OuterAt("round") /\ RoundOver
    /\ IF Anyone("crashed") THEN Ended("aborted") /\ UNCHANGED vars
       ELSE IF Anyone("raised") \/ outer.pending \in {"fatal", "failure"}
       THEN \/ FatalStop /\ Ended("over")
            \/ ~CanRunStopped /\ Ended("aborted") /\ UNCHANGED vars
       ELSE IF outer.pending = "budget"
       THEN \/ BudgetStop /\ Ended("over")
            \/ ~CanRunStopped /\ Ended("aborted") /\ UNCHANGED vars
       ELSE \/ ~(Parallel /\ MustStop) /\ Ended("loop") /\ UNCHANGED vars
            \/ Parallel /\ MayStop /\ BudgetStop /\ Ended("over")
            \/ Parallel /\ MayStop /\ ~CanRunStopped /\ Ended("aborted") /\ UNCHANGED vars

\* The process dies between two appends, or while adapters work, and resume starts
\* over from the ledger: every lane and the deferred stop are forgotten.
Crash ==
    /\ outer.pc \notin {"over", "aborted", "paused"}
    /\ outer.crashes < MaxCrashes
    /\ lane' = [x \in Exps |-> NewLane]
    /\ outer' = [outer EXCEPT !.pc = "restart", !.pending = "none",
                             !.crashes = @ + 1]
    /\ UNCHANGED vars

\* Time, tokens or GPU seconds run out whenever they do.
BudgetExpires ==
    /\ Expiring /\ ~outer.expired
    /\ outer' = [outer EXCEPT !.expired = TRUE]
    /\ UNCHANGED <<vars, lane>>

OuterStep ==
    Bootstrap \/ Loop \/ PlannerFails \/ PlannerStops \/ Propose \/ EndRound

HNext == OuterStep \/ Resume \/ Crash \/ BudgetExpires \/ \E x \in Exps : LaneStep(x)

\* asyncio runs every lane that can run, and every adapter call ends.
HFairness == WF_hvars(OuterStep) /\ \A x \in Exps : WF_hvars(LaneStep(x))

HSpec == HInit /\ [][HNext]_hvars
FairHSpec == HSpec /\ HFairness

-----------------------------------------------------------------------------
(***************************************************************************)
(* Properties.                                                             *)
(***************************************************************************)

\* The status of the ledger at which the controller makes each of its calls.
StatusFor ==
    [coder |-> {"proposed"}, gate |-> {"patch_ready"}, regate |-> {"patch_ready"},
     repair |-> {"recovering", "proposed"}, launch |-> {"ready_to_run"},
     run |-> {"running"}, outgate |-> {"output_ready"},
     smoke |-> {"output_verified"}, lock |-> {"output_verified"},
     judge |-> {"output_verified"}, decide |-> {"evaluated"},
     best |-> {"accepted"}]

\* Wherever a lane stands, after any retry or repair, the ledger has its
\* experiment at the status that call belongs to: what _run_one_experiment resumes
\* from memory is what replaying the events would resume from.
ControllerAgreesWithLedger ==
    \A x \in Exps : lane[x].pc \in DOMAIN StatusFor =>
        node[x].status \in StatusFor[lane[x].pc]

\* A request sent to the evaluator for the first time carries the next unused
\* public query index for as long as the evaluator works on it: no other lane
\* takes a query in between (_evaluation_lock, router.py:1558).
QueryIndexIsFresh ==
    \A x \in Exps :
        /\ lane[x].pc = "judge" /\ lane[x].try = 0
        /\ evid[x].request.fidelity = "full"
        => lane[x].index = run.queries + 1

\* When a lane returns with an eligible acceptance the incumbent is at least as
\* good: no gain is lost to the lane beside it or to an older incumbent.
EveryAcceptedGainIsKept ==
    \A x \in Exps :
        /\ lane[x].pc = "returned"
        /\ node[x].status = "accepted" /\ node[x].eligible
        => best.score >= node[x].score

\* A round hands nothing over half-done: planning begins with every earlier
\* experiment closed, and where the loop comes round, or a resumable error leaves
\* it, the phase is one from which run_until_stopped goes on (docs/HARNESS.md:166).
RoundsEndResumable ==
    /\ outer.pc = "planning" => \A x \in Exps : node[x].status \notin Live
    /\ outer.pc \in {"loop", "paused"} /\ Accepting => Resumable

\* run_until_stopped always comes to an end: recoveries, repairs, confirmations
\* and rounds are all bounded.
RunEnds == []<>(outer.pc \in {"over", "aborted", "paused"})
=============================================================================
