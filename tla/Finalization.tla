---------------------------- MODULE Finalization ----------------------------
(***************************************************************************)
(* Sealed finalization of a stopped run (orchestrator/router.py, finalize; *)
(* orchestrator/finalize.py): the incumbent is run again from its commit,  *)
(* evaluated, used for inference, its submission checked, selected and     *)
(* recorded.  Every append is an event of Lifecycle.  An operator may call *)
(* finalize again after a failure or a crash; nothing of the attempt       *)
(* before survives but the ledger.                                         *)
(***************************************************************************)
EXTENDS Lifecycle, SequencesExt

CONSTANTS
    Candidate,    \* the experiment that may have become the incumbent
    Predictions,  \* distinct contents of a prediction file
    MaxFaults     \* bound: failed calls, mismatches and crashes

\* A seed 0 stands for no seed; the bounds admit the stopped runs below.
ASSUME FinalizationAssumption ==
    /\ Candidate \in Exps /\ Cardinality(Seeds) >= 2 /\ 0 \notin Seeds
    /\ MaxFaults \in Nat /\ MaxPatches >= 2 /\ MaxQueries >= 3

NoPrediction == "no_prediction"

VARIABLES
    fin,       \* finalize's own state: pc, command, attempt, seed, prediction
    history,   \* the full public evaluations of the candidate, in ledger order
    started,   \* the attempts of the candidate that were ever started
    inferred,  \* the outputs of final inference that Gate B accepted, in order
    sent,      \* what submission.checked records, and where it came from
    faults

fvars == <<run, node, evid, best, fin, history, started, inferred, sent, faults>>
ledger == <<run, node, evid, best>>
notes == <<history, started, inferred, sent>>

Idle == [pc |-> "idle", cmd |-> "none", attempt |-> 0, seed |-> 0,
         pred |-> NoPrediction, since |-> 0]
NothingSent == [pred |-> NoPrediction, checked |-> NoPrediction,
                inferredAt |-> 0, reproducedAt |-> 0]

Evaluated(attempt, commit, seed, score) ==
    [attempt |-> attempt, commit |-> commit, seed |-> seed, score |-> score,
     trust |-> "accepted"]

-----------------------------------------------------------------------------
(***************************************************************************)
(* Stopped runs.  The candidate was confirmed on two seeds of its commit;  *)
(* where it was repaired on the way, an earlier commit was evaluated too.  *)
(* Its score is that of the last seed, the one that was decided.           *)
(***************************************************************************)
Histories ==
    {h \in [c : 1..2, s : Seeds, t : Seeds, first : Scores, last : Scores,
            before : Scores, seed : Seeds] : h.s # h.t}

HistoryOf(h) ==
    (IF h.c = 2 THEN <<Evaluated(1, 1, h.seed, h.before)>> ELSE <<>>)
    \o <<Evaluated(h.c, h.c, h.s, h.first), Evaluated(h.c + 1, h.c, h.t, h.last)>>

StoppedRun(queries) ==
    [status |-> "stopped", phase |-> "stopped", active |-> NoExp,
     context |-> "planner", briefed |-> TRUE, fresh |-> FALSE,
     queries |-> queries]

WithBaseline ==
    /\ run = StoppedRun(0)
    /\ node = [x \in Exps |-> NewNode("absent", CHOOSE k \in Keys : TRUE, Baseline)]
    /\ evid = [x \in Exps |-> NewEvidence]
    /\ best = [exp |-> Baseline, commit |-> 0, score |-> BaselineScore]
    /\ history = <<>> /\ started = {}

WithCandidate(h) ==
    LET past == HistoryOf(h)
        seen == Len(past)
    IN
    /\ h.last > BaselineScore
    /\ run = StoppedRun(seen)
    /\ node = [x \in Exps |->
         IF x # Candidate
         THEN NewNode("absent", CHOOSE k \in Keys : TRUE, Baseline)
         ELSE [NewNode("accepted", CHOOSE k \in Keys : TRUE, Baseline)
                 EXCEPT !.commit = h.c, !.eligible = TRUE, !.score = h.last,
                        !.trust = "confirmed", !.fidelity = "full"]]
    /\ evid = [x \in Exps |->
         IF x # Candidate THEN NewEvidence
         ELSE [NewEvidence EXCEPT
                 !.receipt = [commit |-> h.c, accepted |-> TRUE],
                 !.request = [commit |-> h.c, fidelity |-> "full",
                              command |-> "candidate", seed |-> h.t],
                 !.finished = "success", !.output = "accepted",
                 !.outputOf = "candidate",
                 !.evals = {[commit |-> past[i].commit, seed |-> past[i].seed] :
                                i \in 1..seen}]]
    /\ best = [exp |-> Candidate, commit |-> h.c, score |-> h.last]
    /\ history = past /\ started = 1..seen

FInit ==
    /\ WithBaseline \/ \E h \in Histories : WithCandidate(h)
    /\ fin = Idle /\ inferred = <<>> /\ sent = NothingSent /\ faults = 0

-----------------------------------------------------------------------------
(***************************************************************************)
(* candidate_finalization_plan: the latest accepted evaluation of the      *)
(* incumbent's experiment with the incumbent's score names the seed.       *)
(***************************************************************************)
Supports(e) == e.trust \in AcceptedVerdicts /\ e.score = best.score

HasReceipt == evid[best.exp].receipt = [commit |-> best.commit, accepted |-> TRUE]
\* Mutant of HasEvidence: only the latest evaluation is considered.
LatestIsEvidence == history # <<>> /\ Supports(Last(history))

HasEvidence == \E i \in DOMAIN history : Supports(history[i])

HasPlan == HasReceipt /\ HasEvidence

\* Mutant of PlannedSeed: the first evaluation with the score is taken.
FirstSeedWithTheScore == history[SelectInSeq(history, Supports)].seed

PlannedSeed == history[SelectLastInSeq(history, Supports)].seed

\* Attempts are counted from the executions the ledger has seen start.
NextAttempt == Max(started \cup {0}) + 1

\* Every call that raises, and every check that fails, ends this finalize.
Fails ==
    /\ faults < MaxFaults /\ faults' = faults + 1
    /\ fin' = Idle

\* An event the ledger does not admit raises TransitionError.
Refused == fin' = [fin EXCEPT !.pc = "refused"]

FinalRequest(cmd, seed) ==
    [commit |-> best.commit, fidelity |-> "full", command |-> cmd, seed |-> seed]

\* _run_final_execution up to its await: execution.started, then the runner.
StartFinal(cmd, attempt, seed, pred, since) ==
    /\ IF CanExecutionStarted(best.exp, FinalRequest(cmd, seed))
       THEN /\ ExecutionStarted(best.exp, FinalRequest(cmd, seed))
            /\ fin' = [pc |-> "run", cmd |-> cmd, attempt |-> attempt,
                       seed |-> seed, pred |-> pred, since |-> since]
            /\ started' = started \cup {attempt}
       ELSE Refused /\ UNCHANGED <<ledger, started>>
    /\ UNCHANGED <<history, inferred, sent>>

Finalize ==
    /\ fin.pc = "idle" /\ run.status = "stopped" /\ best.exp = Candidate
    /\ HasPlan
    /\ StartFinal("clean_reproduce", NextAttempt, PlannedSeed, NoPrediction,
                  NextAttempt)
    /\ UNCHANGED faults

\* The input the ledger resolves for a submission check: the latest accepted
\* inference (LedgerSubmissionArtifactResolver).
ResolvedInput == Last(inferred).pred

\* The runner returns: a failed run, or one whose artifact is p.  The artifact
\* of a submission check is the prediction it has read.
RunReturns(success, p) ==
    /\ fin.pc = "run"
    /\ fin.cmd = "submission_check" => p = ResolvedInput \/ faults < MaxFaults
    /\ ExecutionFinished(best.exp, success)
    /\ IF success
       THEN /\ fin' = IF fin.cmd = "submission_check"
                      THEN [fin EXCEPT !.pc = "compare"]
                      ELSE [fin EXCEPT !.pc = "gate"]
            /\ UNCHANGED faults
       ELSE Fails
    /\ sent' = [sent EXCEPT !.checked = IF fin.cmd = "submission_check" /\ success
                                        THEN p ELSE NoPrediction]
    /\ UNCHANGED <<history, started, inferred>>

\* Gate B on the run's prediction p: _check_final_output.  After inference the
\* output is kept and its submission check is started at once.
ReproductionChecked(accepted) ==
    /\ fin.pc = "gate" /\ fin.cmd = "clean_reproduce"
    /\ OutputChecked(best.exp, accepted)
    /\ IF accepted THEN fin' = [fin EXCEPT !.pc = "judge"] /\ UNCHANGED faults
                   ELSE Fails
    /\ UNCHANGED notes

InferenceChecked(accepted, p) ==
    /\ fin.pc = "gate" /\ fin.cmd = "candidate_final_infer"
    /\ OutputChecked(best.exp, accepted)
    /\ IF accepted
       THEN /\ fin' = [fin EXCEPT !.pc = "check", !.pred = p]
            /\ inferred' = Append(inferred, [attempt |-> fin.attempt, pred |-> p])
            /\ UNCHANGED faults
       ELSE Fails /\ UNCHANGED inferred
    /\ UNCHANGED <<history, started, sent>>

\* Mutant of Reproduced: a clean evaluation will do, whatever its score.
CleanlyEvaluated(trust, score) == trust \in CleanVerdicts

Reproduced(trust, score) == trust \in CleanVerdicts /\ score = best.score

(***************************************************************************)
(* The protected evaluation of the reproduction, recorded whatever it says *)
(* before finalize insists on a clean, accepted and exact result.          *)
(***************************************************************************)
ReproductionEvaluated(trust, score) ==
    /\ fin.pc = "judge"
    /\ IF CanEvaluationCompleted(best.exp, trust, run.queries + 1)
       THEN /\ EvaluationCompleted(best.exp, trust, score, run.queries + 1)
            /\ history' = Append(history,
                 [Evaluated(fin.attempt, best.commit, fin.seed, score)
                    EXCEPT !.trust = trust])
            /\ IF Reproduced(trust, score)
               THEN fin' = [fin EXCEPT !.pc = "infer"] /\ UNCHANGED faults
               ELSE Fails
       ELSE Refused /\ UNCHANGED <<ledger, history, faults>>
    /\ UNCHANGED <<started, inferred, sent>>

StartInference ==
    /\ fin.pc = "infer"
    /\ StartFinal("candidate_final_infer", fin.attempt + 1, fin.seed,
                  NoPrediction, fin.since)
    /\ UNCHANGED faults

StartSubmissionCheck ==
    /\ fin.pc = "check"
    /\ StartFinal("submission_check", fin.attempt + 1, fin.seed, fin.pred,
                  fin.since)
    /\ UNCHANGED faults

\* Mutant of ConsumedFinalPrediction: what the checker read is not compared.
AnyCheckedPrediction == fin.cmd = "submission_check"

ConsumedFinalPrediction == sent.checked = fin.pred

\* final.selected is admitted if the reproduction it cites, the one of this
\* finalize, has the score of the incumbent.
CitesReproduction ==
    \E i \in DOMAIN history :
        /\ history[i].attempt = fin.since /\ history[i].trust \in CleanVerdicts
        /\ history[i].commit = best.commit /\ history[i].score = best.score

\* final.selected, once the checker has consumed the accepted prediction.
Select ==
    /\ fin.pc = "compare"
    /\ IF ~ConsumedFinalPrediction
       THEN Fails /\ UNCHANGED <<ledger, sent>>
       ELSE /\ IF CanFinalSelected /\ CitesReproduction
               THEN /\ FinalSelected
                    /\ fin' = [fin EXCEPT !.pc = "submit"]
                    /\ sent' = [sent EXCEPT !.inferredAt = fin.attempt - 1,
                                            !.reproducedAt = fin.since]
               ELSE Refused /\ UNCHANGED <<ledger, sent>>
            /\ UNCHANGED faults
    /\ UNCHANGED <<history, started, inferred>>

\* The baseline is its own reproduction: its protected submission is prepared,
\* then selected.
SelectBaseline ==
    /\ fin.pc = "idle" /\ run.status = "stopped" /\ best.exp = Baseline
    /\ \/ /\ FinalSelected
          /\ fin' = [fin EXCEPT !.pc = "submit"]
          /\ UNCHANGED faults
       \/ Fails /\ UNCHANGED ledger
    /\ UNCHANGED notes

Submit ==
    /\ fin.pc = "submit"
    /\ SubmissionChecked(TRUE)
    /\ fin' = Idle
    /\ sent' = [sent EXCEPT !.pred = fin.pred]
    /\ UNCHANGED <<history, started, inferred, faults>>

\* An adapter raises, or the process dies, at any point of finalize: what it has
\* recorded stays, the rest is forgotten.
Interrupted ==
    /\ fin.pc \notin {"idle", "refused"}
    /\ Fails
    /\ UNCHANGED <<ledger, notes>>

Step ==
    \/ Finalize \/ SelectBaseline
    \/ \E success \in BOOLEAN, p \in Predictions \cup {NoPrediction} :
          /\ fin.cmd # "submission_check" => p = NoPrediction
          /\ RunReturns(success, p)
    \/ \E accepted \in BOOLEAN : ReproductionChecked(accepted)
    \/ \E accepted \in BOOLEAN, p \in Predictions : InferenceChecked(accepted, p)
    \/ \E trust \in Trusts \ {"confirmed"}, score \in Scores :
          ReproductionEvaluated(trust, score)
    \/ StartInference \/ StartSubmissionCheck \/ Select \/ Submit

FNext == Step \/ Interrupted

\* finalize makes progress and its operator calls it again; faults are bounded.
FSpec == FInit /\ [][FNext]_fvars /\ WF_fvars(Step)

-----------------------------------------------------------------------------
(***************************************************************************)
(* Properties.                                                             *)
(***************************************************************************)

\* The controller and the validator were written apart: whatever failed or was
\* forgotten before, the ledger refuses no event of finalize.
NeverRefused == fin.pc # "refused"

\* The plan rests on the evidence that made the candidate the incumbent: its
\* seed produced the best score on the best commit, never only on a commit that
\* a repair has replaced, however many reproductions have been recorded since.
PlanNamesBestEvidence ==
    best.exp = Candidate /\ run.status = "stopped" =>
        /\ HasPlan
        /\ \E i \in DOMAIN history :
              /\ Supports(history[i]) /\ history[i].seed = PlannedSeed
              /\ history[i].commit = best.commit

\* What is submitted is what the official check read: the output of an inference
\* that Gate B accepted, made after the reproduction of this same finalize, not
\* of an interrupted one before it.
SubmissionIsChecked ==
    run.status = "finalized" /\ best.exp = Candidate =>
        /\ sent.pred = sent.checked
        /\ [attempt |-> sent.inferredAt, pred |-> sent.pred] = Last(inferred)
        /\ sent.inferredAt > sent.reproducedAt
        /\ \E i \in DOMAIN history :
              /\ history[i].attempt = sent.reproducedAt
              /\ history[i].commit = best.commit /\ history[i].score = best.score

\* No failure, mismatch or crash before final.selected costs the run: with
\* finitely many of them and an operator who calls finalize again, the run is
\* finalized.  A crash after final.selected leaves it finalizing for good.
RetriesFinalize ==
    <>[](run.status = "finalized" \/ (run.status = "finalizing" /\ fin.pc = "idle"))
=============================================================================
