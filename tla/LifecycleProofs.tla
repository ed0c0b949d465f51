-------------------------- MODULE LifecycleProofs --------------------------
(***************************************************************************)
(* What the ledger of Lifecycle guarantees for any number of experiments,  *)
(* keys, seeds and scores and any budgets: its projection is well typed,   *)
(* and the inductive invariant IInv yields every safety property of        *)
(* Lifecycle, KeysAreSpentOnce with an induction of its own.               *)
(***************************************************************************)
EXTENDS LifecycleInductive, TLAPS, FiniteSetTheorems

-----------------------------------------------------------------------------
(***************************************************************************)
(* Type correctness.                                                       *)
(***************************************************************************)
\* Every status and context role of project has a phase of its own vocabulary.
LEMMA PhaseTyped ==
    /\ \A s \in Live \cup Closed : PhaseOf[s] \in Phases
    /\ \A r \in Roles : ContextPhase[r] \in Phases
  BY DEF Live, Closed, PhaseOf, Phases, Roles, ContextPhase

\* An empty ledger projects to a well-typed state.
LEMMA InitType == Init => TypeOK
  <1> SUFFICES ASSUME Init PROVE TypeOK
    OBVIOUS
  <1> USE BoundsAssumption, DomainAssumption DEF Init
  <1>1. run \in RunType
    BY DEF RunType, RunStatuses, Phases
  <1>2. node \in [Exps -> NodeType]
    BY DEF NewNode, NodeType, ExperimentStatuses, Commits, Trusts, Fidelities, MaxSameCommitRetries
  <1>3. evid \in [Exps -> EvidenceType]
    BY DEF NewEvidence, EvidenceType, NoReceipt, NoRequest, Receipts, Commits, Fidelities, Commands, Failures, RecoveryActions
  <1>4. best \in BestType
    BY DEF BestType, Commits
  <1> QED BY <1>1, <1>2, <1>3, <1>4 DEF TypeOK

\* The run-level branches of project keep the projection well typed.
LEMMA RunEventType == TypeOK /\ RunEvent => TypeOK'
  <1> SUFFICES ASSUME TypeOK, RunEvent PROVE TypeOK'
    OBVIOUS
  <1> USE BoundsAssumption, DomainAssumption DEF TypeOK
  <1>1. CASE RunStarted BY <1>1 DEF RunStarted, RunType, Phases
  <1>2. CASE ContractVerified BY <1>2 DEF ContractVerified, RunType, Phases
  <1>3. CASE BaselineVerified 
    <2>1. run' \in RunType
      BY <1>3 DEF BaselineVerified, RunType, Phases, RunStatuses
    <2>2. best' \in BestType
      BY <1>3 DEF BaselineVerified, BestType, Commits
    <2> QED BY <1>3, <2>1, <2>2 DEF BaselineVerified
  <1>4. ASSUME NEW role \in Roles, ContextCreated(role) PROVE TypeOK'
    BY <1>4, PhaseTyped DEF ContextCreated, RunType
  <1>5. CASE PlannerRecommended BY <1>5 DEF PlannerRecommended, RunType
  <1>6. CASE PlanningFailed BY <1>6 DEF PlanningFailed, RunType, Phases
  <1>7. ASSUME NEW reason, RunStopped(reason) PROVE TypeOK'
    BY <1>7 DEF RunStopped, RunType, Phases, RunStatuses
  <1>8. CASE FinalSelected BY <1>8 DEF FinalSelected, RunType, Phases, RunStatuses
  <1>9. ASSUME NEW accepted \in BOOLEAN, SubmissionChecked(accepted) PROVE TypeOK'
    BY <1>9 DEF SubmissionChecked, RunType, Phases, RunStatuses
  <1> QED BY <1>1, <1>2, <1>3, <1>4, <1>5, <1>6, <1>7, <1>8, <1>9 DEF RunEvent

\* So do the branches from proposal to Gate B: a patch commit stays within its
\* bound, and each branch pairs a status with its phase.
LEMMA WorkEventType == ASSUME TypeOK, NEW x \in Exps, WorkEvent(x) PROVE TypeOK'
  <1> USE BoundsAssumption, DomainAssumption DEF TypeOK, MoveTo, Recorded
  <1>n. node[x] \in NodeType /\ evid[x] \in EvidenceType
    OBVIOUS
  <1>1. ASSUME NEW k \in Keys, NEW parent \in Exps \cup {Baseline},
               ExperimentProposed(x, k, parent)
        PROVE  TypeOK'
    <2>1. NewNode("proposed", k, parent) \in NodeType
      BY DEF NewNode, NodeType, ExperimentStatuses, Live, Commits, Trusts, Fidelities, MaxSameCommitRetries
    <2>2. run' \in RunType
      BY <1>1 DEF ExperimentProposed, RunType, RunStatuses, Phases
    <2> QED BY <1>1, <2>1, <2>2 DEF ExperimentProposed
  <1>2. CASE PatchCreated(x)
    <2>1. /\ node[x].commit \in Nat /\ node[x].commit < MaxPatches
          /\ node[x].commit + 1 \in Commits
      BY <1>n, <1>2 DEF PatchCreated, NodeType, Commits
    <2>2. [node[x] EXCEPT !.status = "patch_ready", !.commit = @ + 1, !.retries = 0]
             \in NodeType
      <3>1. "patch_ready" \in ExperimentStatuses
        BY DEF ExperimentStatuses, Live
      <3>2. 0 \in 0..MaxSameCommitRetries
        BY DEF MaxSameCommitRetries
      <3> DEFINE c == node[x].commit + 1
      <3>3. c \in Commits
        BY <2>1
      <3> HIDE DEF c
      <3>4. [node[x] EXCEPT !.status = "patch_ready", !.commit = c, !.retries = 0]
               \in NodeType
        BY ONLY <1>n, <3>1, <3>2, <3>3 DEF NodeType
      <3> QED BY <3>4 DEF c
    <2>3. run' \in RunType
      BY <1>2 DEF PatchCreated, PhaseOf, RunType, Phases
    <2> QED BY <1>2, <2>2, <2>3 DEF PatchCreated
  <1>3. ASSUME NEW accepted \in BOOLEAN, PatchChecked(x, accepted) PROVE TypeOK'
    <2> DEFINE s == IF accepted THEN "ready_to_run" ELSE "recovering"
    <2>1. s \in Live BY DEF Live
    <2>2. [node[x] EXCEPT !.status = s] \in NodeType
      BY <1>n, <2>1 DEF NodeType, ExperimentStatuses
    <2>3. run' \in RunType
      BY <1>3, <2>1, PhaseTyped DEF PatchChecked, RunType
    <2>4. [evid[x] EXCEPT
             !.receipt = [commit |-> node[x].commit, accepted |-> accepted],
             !.failure = IF accepted THEN @ ELSE "patch_rejected"] \in EvidenceType
      BY <1>n DEF EvidenceType, Receipts, NodeType, Failures
    <2> QED BY <1>3, <2>2, <2>3, <2>4 DEF PatchChecked
  <1>4. ASSUME NEW rq \in Requests, ExecutionStarted(x, rq) PROVE TypeOK'
    <2>1. [node[x] EXCEPT !.status = "running"] \in NodeType
      BY <1>n DEF NodeType, ExperimentStatuses, Live
    <2>2. run' \in RunType
      BY <1>4 DEF ExecutionStarted, PhaseOf, RunType, Phases
    <2>3. rq \in [commit : Commits, fidelity : Fidelities, command : Commands,
                  seed : Seeds \cup {0}]
      BY DEF Requests, Commits
    <2>4. [evid[x] EXCEPT !.request = rq, !.finished = "none", !.output = "none"]
             \in EvidenceType
      BY <1>n, <2>3 DEF EvidenceType
    <2> QED BY <1>4, <2>1, <2>2, <2>4 DEF ExecutionStarted
  <1>5. ASSUME NEW success \in BOOLEAN, ExecutionFinished(x, success) PROVE TypeOK'
    <2> DEFINE s == IF success THEN "output_ready" ELSE "recovering"
    <2>1. s \in Live BY DEF Live
    <2>2. [node[x] EXCEPT !.status = s] \in NodeType
      BY <1>n, <2>1 DEF NodeType, ExperimentStatuses
    <2>3. run' \in RunType
      BY <1>5, <2>1, PhaseTyped DEF ExecutionFinished, RunType
    <2>4. [evid[x] EXCEPT
             !.finished = IF success THEN "success" ELSE "failed",
             !.failure = IF success THEN @ ELSE "run_failed"] \in EvidenceType
      BY <1>n DEF EvidenceType, Failures
    <2> QED BY <1>5, <2>2, <2>3, <2>4 DEF ExecutionFinished
  <1>6. ASSUME NEW accepted \in BOOLEAN, OutputChecked(x, accepted) PROVE TypeOK'
    <2> DEFINE s == IF accepted THEN "output_verified" ELSE "recovering"
    <2>1. s \in Live BY DEF Live
    <2>2. [node[x] EXCEPT !.status = s] \in NodeType
      BY <1>n, <2>1 DEF NodeType, ExperimentStatuses
    <2>3. run' \in RunType
      BY <1>6, <2>1, PhaseTyped DEF OutputChecked, RunType
    <2>4. [evid[x] EXCEPT
             !.output = IF accepted THEN "accepted" ELSE "rejected",
             !.outputOf = IF accepted THEN evid[x].request.command ELSE @,
             !.failure = IF accepted THEN @ ELSE "output_rejected"] \in EvidenceType
      BY <1>n DEF EvidenceType, Failures
    <2> QED BY <1>6, <2>2, <2>3, <2>4 DEF OutputChecked
  <1> QED
    BY <1>1, <1>2, <1>3, <1>4, <1>5, <1>6 DEF WorkEvent

\* So do evaluation, failure, recovery and decision: the counters recovery and
\* confirmation increment stay within the budgets their guards check.
LEMMA JudgeEventType == ASSUME TypeOK, NEW x \in Exps, JudgeEvent(x) PROVE TypeOK'
  <1> USE BoundsAssumption, DomainAssumption DEF TypeOK, MoveTo, Recorded
  <1>n. node[x] \in NodeType /\ evid[x] \in EvidenceType
    OBVIOUS
  <1>1. ASSUME NEW trust \in Trusts, NEW score \in Scores, NEW index \in 0..MaxQueries,
               EvaluationCompleted(x, trust, score, index)
        PROVE  TypeOK'
    <2> DEFINE rq == evid[x].request
               s == IF trust = "no_op" THEN "recovering" ELSE "evaluated"
               full == rq.fidelity = "full"
               reproduced == /\ full /\ trust \in CleanVerdicts
                             /\ rq.command = "clean_reproduce"
    <2>1. s \in Live BY DEF Live
    <2>2. rq \in [commit : Commits, fidelity : Fidelities, command : Commands,
                  seed : Seeds \cup {0}]
      BY <1>n DEF EvidenceType
    <2>3. [node[x] EXCEPT !.status = s, !.score = score, !.trust = trust,
                          !.fidelity = rq.fidelity] \in NodeType
      BY <1>n, <2>1, <2>2 DEF NodeType, ExperimentStatuses
    <2>4. run' \in RunType
      <3>1. run.queries < MaxQueries /\ run.queries \in Nat
        BY <1>1 DEF EvaluationCompleted, RunType
      <3>2. (IF full THEN run.queries + 1 ELSE run.queries) \in 0..MaxQueries
        BY <3>1
      <3>3. run' = [run EXCEPT !.phase = PhaseOf[s],
                      !.queries = IF full THEN run.queries + 1 ELSE run.queries]
        BY <1>1 DEF EvaluationCompleted
      <3> HIDE DEF s, full
      <3> QED BY <3>2, <3>3, <2>1, PhaseTyped DEF RunType
    <2>5. [evid[x] EXCEPT
             !.failure = IF trust = "no_op" THEN "no_op" ELSE @,
             !.evals = IF full
                 THEN @ \cup {[commit |-> rq.commit, seed |-> rq.seed]} ELSE @,
             !.reproductions = IF reproduced
                 THEN @ \cup {[commit |-> rq.commit, score |-> score]} ELSE @]
             \in EvidenceType
      <3>1. [commit |-> rq.commit, seed |-> rq.seed] \in [commit : Commits, seed : Seeds \cup {0}]
        BY <2>2
      <3>2. [commit |-> rq.commit, score |-> score] \in [commit : Commits, score : Scores]
        BY <2>2
      <3> DEFINE f == IF trust = "no_op" THEN "no_op" ELSE evid[x].failure
                 E == IF full THEN evid[x].evals
                              \cup {[commit |-> rq.commit, seed |-> rq.seed]}
                      ELSE evid[x].evals
                 R == IF reproduced THEN evid[x].reproductions
                              \cup {[commit |-> rq.commit, score |-> score]}
                      ELSE evid[x].reproductions
      <3>3. f \in Failures \cup {"none"}
        BY <1>n DEF EvidenceType, Failures
      <3>4. E \in SUBSET [commit : Commits, seed : Seeds \cup {0}]
        BY <1>n, <3>1 DEF EvidenceType
      <3>5. R \in SUBSET [commit : Commits, score : Scores]
        BY <1>n, <3>2 DEF EvidenceType
      <3> HIDE DEF f, E, R
      <3>6. [evid[x] EXCEPT !.failure = f, !.evals = E, !.reproductions = R]
               \in EvidenceType
        BY ONLY <1>n, <3>3, <3>4, <3>5 DEF EvidenceType
      <3> QED BY <3>6 DEF f, E, R
    <2> QED BY <1>1, <2>3, <2>4, <2>5 DEF EvaluationCompleted
  <1>2. ASSUME NEW stage \in AdapterStages, AdapterFailed(x, stage) PROVE TypeOK'
    <2>1. [node[x] EXCEPT !.status = "recovering"] \in NodeType
      BY <1>n DEF NodeType, ExperimentStatuses, Live
    <2>2. run' \in RunType
      BY <1>2 DEF AdapterFailed, PhaseOf, RunType, Phases
    <2>3. [evid[x] EXCEPT !.failure = stage] \in EvidenceType
      BY <1>n DEF EvidenceType, Failures
    <2> QED BY <1>2, <2>1, <2>2, <2>3 DEF AdapterFailed
  <1>3. ASSUME NEW action \in RecoveryActions, RecoveryDecided(x, action) PROVE TypeOK'
    <2> DEFINE s == RecoveredStatus(evid[x].failure, action)
    <2>1. s \in Live \cup Closed
      BY DEF RecoveredStatus, RetryStatus, Live, Closed
    <2>2. (IF action \in CodeActions THEN Higher(node[x].repairs, RepairAttempt(x))
                                     ELSE node[x].repairs) \in 0..MaxRepairs
      BY <1>n, <1>3 DEF RecoveryDecided, CanRecoveryDecided, NodeType, RepairAttempt, Higher, Lower
    <2>3. (IF action = "retry_same_commit" THEN node[x].retries + 1
                                           ELSE node[x].retries) \in 0..MaxSameCommitRetries
      BY <1>n, <1>3 DEF RecoveryDecided, CanRecoveryDecided, NodeType, MaxSameCommitRetries
    <2>4. [node[x] EXCEPT
             !.status = s,
             !.repairs = IF action \in CodeActions
                         THEN Higher(@, RepairAttempt(x)) ELSE @,
             !.retries = IF action = "retry_same_commit" THEN @ + 1 ELSE @] \in NodeType
      <3> HIDE DEF s
      <3> QED BY <1>n, <2>1, <2>2, <2>3 DEF NodeType, ExperimentStatuses
    <2>5. run' \in RunType
      <3>1. run' = [run EXCEPT !.phase = PhaseOf[s],
                               !.active = IF s = "invalid" THEN NoExp ELSE @]
        BY <1>3 DEF RecoveryDecided
      <3> HIDE DEF s
      <3> QED BY <2>1, <3>1, PhaseTyped DEF RunType
    <2>6. [evid[x] EXCEPT !.recovery = action] \in EvidenceType
      BY <1>n DEF EvidenceType
    <2> QED BY <1>3, <2>4, <2>5, <2>6 DEF RecoveryDecided
  <1>4. ASSUME NEW kind \in DecisionKinds, NEW fidelity \in Fidelities,
               NEW next \in Fidelities, NEW eligible \in BOOLEAN,
               ExperimentDecided(x, kind, fidelity, eligible, next)
        PROVE  TypeOK'
    <2> DEFINE s == DecidedStatus[kind]
               confirming == kind = "promote" /\ fidelity = "full" /\ next = "full"
    <2>1. s \in Live \cup Closed
      BY DEF DecidedStatus, DecisionKinds, Live, Closed
    <2>2. (IF confirming THEN node[x].confirms + 1 ELSE node[x].confirms) \in 0..MaxConfirm
      BY <1>n, <1>4 DEF ExperimentDecided, CanExperimentDecided, NodeType
    <2>3. [node[x] EXCEPT !.status = s, !.eligible = eligible,
             !.confirms = IF confirming THEN @ + 1 ELSE @] \in NodeType
      <3> HIDE DEF s, confirming
      <3> QED BY <1>n, <2>1, <2>2 DEF NodeType, ExperimentStatuses
    <2>4. run' \in RunType
      <3>1. run' = [run EXCEPT !.phase = PhaseOf[s],
                               !.active = IF kind = "promote" THEN @ ELSE NoExp]
        BY <1>4 DEF ExperimentDecided
      <3> HIDE DEF s
      <3> QED BY <2>1, <3>1, PhaseTyped DEF RunType
    <2> QED BY <1>4, <2>3, <2>4 DEF ExperimentDecided
  <1>5. CASE BestUpdated(x)
    <2>1. best' \in BestType
      BY <1>n, <1>5 DEF BestUpdated, BestType, NodeType
    <2>2. run' \in RunType BY <1>5 DEF BestUpdated, RunType
    <2> QED BY <1>5, <2>1, <2>2 DEF BestUpdated
  <1> QED
    BY <1>1, <1>2, <1>3, <1>4, <1>5 DEF JudgeEvent

\* Every event the validator admits keeps the projection well typed.
LEMMA TypePreserved == TypeOK /\ [Next]_vars => TypeOK'
  <1> SUFFICES ASSUME TypeOK, [Next]_vars PROVE TypeOK'
    OBVIOUS
  <1>1. CASE RunEvent
    BY <1>1, RunEventType
  <1>2. ASSUME NEW x \in Exps, WorkEvent(x) PROVE TypeOK'
    BY <1>2, WorkEventType
  <1>3. ASSUME NEW x \in Exps, JudgeEvent(x) PROVE TypeOK'
    BY <1>3, JudgeEventType
  <1>4. CASE UNCHANGED vars
    BY <1>4 DEF vars, TypeOK
  <1> QED BY <1>1, <1>2, <1>3, <1>4 DEF Next

\* The fields of the projection keep their ranges; in particular no sequence of
\* legal events overruns the repair, retry and confirmation budgets that
\* validate_transition guards and project counts.
THEOREM TypeCorrect == Spec => []TypeOK
  BY InitType, TypePreserved, PTL DEF Spec

-----------------------------------------------------------------------------
(***************************************************************************)
(* The inductive invariant, one lemma per event of an experiment.          *)
(***************************************************************************)
\* The empty ledger satisfies the inductive invariant.
LEMMA InitSound == Init => IInv
  <1> SUFFICES ASSUME Init PROVE IInv
    OBVIOUS
  <1>1. /\ \A x \in Exps : /\ node[x].status = "absent"
                           /\ evid[x].request.command = "candidate"
        /\ best.exp = NoExp /\ run.status = "initializing"
    BY DEF Init, NewNode, NewEvidence, NoRequest
  <1>2. \A x \in Exps : SoundAt(x)
    BY <1>1 DEF SoundAt, HoldsGatedCommit, Recoverable, AtVerdict,
       ConfirmedByTwoSeeds, FinalCommandsAreSealed, PastStart
  <1> QED BY <1>1, <1>2, DomainAssumption DEF IInv, NothingBeforeBaseline,
             BestIsVerified, BestIsSettled, FinalIsReproduced

\* What an event about x must establish of x for the invariant to survive.
LEMMA Frame ==
  ASSUME TypeOK, IInv, NEW x \in Exps, NEW n, NEW v,
         node' = [node EXCEPT ![x] = n], evid' = [evid EXCEPT ![x] = v],
         best' = best, run'.status = run.status,
         run.status \notin {"initializing", "finalizing", "finalized"},
         SoundAt(x)',
         x = best.exp =>
             /\ Gated(x)' /\ n.commit = node[x].commit
             /\ evid[x].evals \subseteq v.evals
             /\ n.status \in {"accepted", "recovering"} \cup PastStart
             /\ ~Accepting
  PROVE  IInv'
  <1>1. /\ node'[x] = n /\ evid'[x] = v
        /\ \A y \in Exps \ {x} : node'[y] = node[y] /\ evid'[y] = evid[y]
    BY DEF TypeOK
  <1>2. NothingBeforeBaseline' /\ FinalIsReproduced'
    BY DEF NothingBeforeBaseline, FinalIsReproduced
  <1>3. \A y \in Exps : SoundAt(y)'
    <2> SUFFICES ASSUME NEW y \in Exps, y # x PROVE SoundAt(y)'
      OBVIOUS
    <2> QED
      BY <1>1 DEF IInv, SoundAt, HoldsGatedCommit, Recoverable, Gated, AtVerdict,
         ConfirmedByTwoSeeds, TwoSeeds, FinalCommandsAreSealed, Researching
  <1>4. BestIsVerified' /\ BestIsSettled'
    <2>1. CASE best.exp = x
      BY <1>1, <2>1 DEF IInv, BestIsVerified, BestIsSettled, Gated, TwoSeeds, Accepting
    <2>2. CASE best.exp # x
      BY <1>1, <2>2 DEF IInv, BestIsVerified, BestIsSettled, Gated, TwoSeeds, Accepting
    <2> QED BY <2>1, <2>2
  <1> QED BY <1>2, <1>3, <1>4 DEF IInv

\* During research the incumbent rests: an event about an experiment that is not
\* accepted is about another one, and the run has been started.
LEMMA IncumbentRests ==
  ASSUME IInv, NEW x \in Exps, Researching,
         node[x].status \notin {"absent", "accepted"}
  PROVE  x # best.exp /\ Accepting
  BY DEF IInv, BestIsVerified, NothingBeforeBaseline, Researching, Accepting

\* A new patch leaves the set of statuses that need a gated commit.
LEMMA PatchCreatedSound ==
  ASSUME TypeOK, IInv, NEW x \in Exps, PatchCreated(x) PROVE IInv'
  <1>1. x # best.exp /\ Accepting
    BY IncumbentRests DEF PatchCreated, CanPatchCreated
  <1> DEFINE n == [node[x] EXCEPT !.status = "patch_ready", !.commit = @ + 1,
                                  !.retries = 0]
  <1>2. node' = [node EXCEPT ![x] = n] /\ evid' = [evid EXCEPT ![x] = evid[x]]
    BY DEF PatchCreated, MoveTo, TypeOK
  <1>3. run'.status = run.status /\ best' = best
    BY DEF PatchCreated, MoveTo, TypeOK, RunType
  <1>4. SoundAt(x)'
    BY <1>1, <1>2, <1>3 DEF IInv, SoundAt, HoldsGatedCommit, Recoverable, Gated, AtVerdict,
       ConfirmedByTwoSeeds, TwoSeeds, FinalCommandsAreSealed, Researching, TypeOK, NodeType, PastStart
  <1> QED BY <1>1, <1>2, <1>3, <1>4, Frame DEF Accepting

\* Gate A admits exactly the commit its receipt names.
LEMMA PatchCheckedSound ==
  ASSUME TypeOK, IInv, NEW x \in Exps, NEW accepted \in BOOLEAN,
         PatchChecked(x, accepted)
  PROVE  IInv'
  <1>1. x # best.exp /\ Accepting
    BY IncumbentRests DEF PatchChecked, CanPatchChecked
  <1> DEFINE n == [node[x] EXCEPT
                !.status = IF accepted THEN "ready_to_run" ELSE "recovering"]
             v == [evid[x] EXCEPT
                !.receipt = [commit |-> node[x].commit, accepted |-> accepted],
                !.failure = IF accepted THEN @ ELSE "patch_rejected"]
  <1>2. node' = [node EXCEPT ![x] = n] /\ evid' = [evid EXCEPT ![x] = v]
    BY DEF PatchChecked, MoveTo, Recorded
  <1>3. run'.status = run.status /\ best' = best
    BY DEF PatchChecked, MoveTo, TypeOK, RunType
  <1>4. /\ node'[x].status = IF accepted THEN "ready_to_run" ELSE "recovering"
        /\ node'[x].commit = node[x].commit
        /\ evid'[x].receipt = [commit |-> node[x].commit, accepted |-> accepted]
        /\ accepted \/ evid'[x].failure = "patch_rejected"
        /\ evid'[x].request = evid[x].request
    BY <1>2 DEF TypeOK, NodeType, EvidenceType
  <1>5. SoundAt(x)'
    BY <1>1, <1>3, <1>4 DEF IInv, SoundAt, HoldsGatedCommit, Recoverable, Gated, AtVerdict,
       ConfirmedByTwoSeeds, FinalCommandsAreSealed, Researching, PastStart, GatedFailures
  <1> QED BY <1>1, <1>2, <1>3, <1>5, Frame DEF Accepting

\* The same in a run that may have stopped: only then is x the incumbent.
LEMMA IncumbentMovesWhenSealed ==
  ASSUME IInv, NEW x \in Exps, Researching \/ Sealed,
         node[x].status \notin {"absent", "accepted"}
  PROVE  /\ run.status \in {"ready", "running", "stopped"}
         /\ x = best.exp => Sealed /\ ~Accepting
  BY IncumbentRests DEF IInv, NothingBeforeBaseline, Researching, Sealed, Accepting

\* The commit started is the node's latest, in research by its receipt and after
\* the stop because it is the sealed best.
LEMMA ExecutionStartedSound ==
  ASSUME TypeOK, IInv, NEW x \in Exps, NEW rq \in Requests,
         rq.command = "candidate" <=> ~Sealed, ExecutionStarted(x, rq)
  PROVE  IInv'
  <1> DEFINE n == [node[x] EXCEPT !.status = "running"]
             v == [evid[x] EXCEPT !.request = rq, !.finished = "none",
                                  !.output = "none"]
  <1>1. /\ evid[x].receipt = [commit |-> rq.commit, accepted |-> TRUE]
        /\ \/ Researching /\ node[x].status = "ready_to_run"
           \/ Sealed /\ x = best.exp /\ rq.commit = best.commit
    BY DEF ExecutionStarted, CanExecutionStarted
  <1>2. /\ run.status \in {"ready", "running", "stopped"}
        /\ x = best.exp => Sealed /\ ~Accepting
    BY <1>1, IncumbentMovesWhenSealed DEF Sealed, Accepting
  <1>3. node[x].commit = rq.commit
    <2>1. CASE Sealed
      BY <1>1, <2>1 DEF IInv, BestIsVerified, Researching, Sealed
    <2>2. CASE ~Sealed
      <3>1. Gated(x)
        BY <1>1, <2>2 DEF IInv, SoundAt, HoldsGatedCommit
      <3> QED BY <1>1, <3>1 DEF Gated
    <2> QED BY <2>1, <2>2
  <1>4. node' = [node EXCEPT ![x] = n] /\ evid' = [evid EXCEPT ![x] = v]
    BY DEF ExecutionStarted, MoveTo, Recorded
  <1>5. run'.status = run.status /\ best' = best
    BY DEF ExecutionStarted, MoveTo, TypeOK, RunType
  <1>6. /\ node'[x].status = "running" /\ n.status = "running"
        /\ node'[x].commit = node[x].commit /\ n.commit = node[x].commit
        /\ evid'[x].receipt = evid[x].receipt
        /\ evid'[x].request = rq
        /\ evid'[x].evals = evid[x].evals /\ v.evals = evid[x].evals
    BY <1>4 DEF TypeOK, NodeType, EvidenceType
  <1>7. Gated(x)'
    BY <1>1, <1>3, <1>6 DEF Gated
  <1>8. SoundAt(x)'
    BY <1>1, <1>2, <1>3, <1>5, <1>6, <1>7 DEF SoundAt, HoldsGatedCommit, Recoverable,
       AtVerdict, ConfirmedByTwoSeeds, FinalCommandsAreSealed, Researching, Sealed, PastStart
  <1> HIDE DEF n, v
  <1> QED BY <1>2, <1>4, <1>5, <1>6, <1>7, <1>8, Frame DEF PastStart

\* A finished run is still about the requested, gated commit.
LEMMA ExecutionFinishedSound ==
  ASSUME TypeOK, IInv, NEW x \in Exps, NEW success \in BOOLEAN,
         ExecutionFinished(x, success)
  PROVE  IInv'
  <1> DEFINE s == IF success THEN "output_ready" ELSE "recovering"
             n == [node[x] EXCEPT !.status = s]
             v == [evid[x] EXCEPT
                !.finished = IF success THEN "success" ELSE "failed",
                !.failure = IF success THEN @ ELSE "run_failed"]
  <1>1. (Researching \/ Sealed) /\ node[x].status = "running"
    BY DEF ExecutionFinished, CanExecutionFinished
  <1>2. /\ run.status \in {"ready", "running", "stopped"}
        /\ x = best.exp => Sealed /\ ~Accepting
    BY <1>1, IncumbentMovesWhenSealed
  <1>3. node' = [node EXCEPT ![x] = n] /\ evid' = [evid EXCEPT ![x] = v]
    BY DEF ExecutionFinished, MoveTo, Recorded
  <1>4. run'.status = run.status /\ best' = best
    BY DEF ExecutionFinished, MoveTo, TypeOK, RunType
  <1>5. /\ node'[x].status = s /\ n.status = s
        /\ node'[x].commit = node[x].commit /\ n.commit = node[x].commit
        /\ evid'[x].receipt = evid[x].receipt
        /\ evid'[x].request = evid[x].request
        /\ success \/ evid'[x].failure = "run_failed"
        /\ evid'[x].evals = evid[x].evals /\ v.evals = evid[x].evals
    BY <1>3 DEF TypeOK, NodeType, EvidenceType
  <1>6. Gated(x)' /\ evid[x].request.commit = node[x].commit
    BY <1>1, <1>5 DEF IInv, SoundAt, HoldsGatedCommit, Gated, PastStart
  <1>7. SoundAt(x)'
    BY <1>1, <1>2, <1>4, <1>5, <1>6 DEF IInv, SoundAt, HoldsGatedCommit, Recoverable,
       AtVerdict, ConfirmedByTwoSeeds, FinalCommandsAreSealed, Researching, PastStart
  <1> HIDE DEF n, v
  <1> QED BY <1>2, <1>3, <1>4, <1>5, <1>6, <1>7, Frame DEF PastStart

\* So is a checked output.
LEMMA OutputCheckedSound ==
  ASSUME TypeOK, IInv, NEW x \in Exps, NEW accepted \in BOOLEAN,
         OutputChecked(x, accepted)
  PROVE  IInv'
  <1> DEFINE s == IF accepted THEN "output_verified" ELSE "recovering"
             n == [node[x] EXCEPT !.status = s]
             v == [evid[x] EXCEPT
                !.output = IF accepted THEN "accepted" ELSE "rejected",
                !.outputOf = IF accepted THEN evid[x].request.command ELSE @,
                !.failure = IF accepted THEN @ ELSE "output_rejected"]
  <1>1. (Researching \/ Sealed) /\ node[x].status = "output_ready"
    BY DEF OutputChecked, CanOutputChecked
  <1>2. /\ run.status \in {"ready", "running", "stopped"}
        /\ x = best.exp => Sealed /\ ~Accepting
    BY <1>1, IncumbentMovesWhenSealed
  <1>3. node' = [node EXCEPT ![x] = n] /\ evid' = [evid EXCEPT ![x] = v]
    BY DEF OutputChecked, MoveTo, Recorded
  <1>4. run'.status = run.status /\ best' = best
    BY DEF OutputChecked, MoveTo, TypeOK, RunType
  <1>5. /\ node'[x].status = s /\ n.status = s
        /\ node'[x].commit = node[x].commit /\ n.commit = node[x].commit
        /\ evid'[x].receipt = evid[x].receipt
        /\ evid'[x].request = evid[x].request
        /\ accepted \/ evid'[x].failure = "output_rejected"
        /\ evid'[x].evals = evid[x].evals /\ v.evals = evid[x].evals
    BY <1>3 DEF TypeOK, NodeType, EvidenceType
  <1>6. Gated(x)' /\ evid[x].request.commit = node[x].commit
    BY <1>1, <1>5 DEF IInv, SoundAt, HoldsGatedCommit, Gated, PastStart
  <1>7. SoundAt(x)'
    BY <1>1, <1>2, <1>4, <1>5, <1>6 DEF IInv, SoundAt, HoldsGatedCommit, Recoverable,
       AtVerdict, ConfirmedByTwoSeeds, FinalCommandsAreSealed, Researching, PastStart
  <1> HIDE DEF n, v
  <1> QED BY <1>2, <1>3, <1>4, <1>5, <1>6, <1>7, Frame DEF PastStart

\* A confirmed verdict adds a second seed of the commit it judges.
LEMMA EvaluationCompletedSound ==
  ASSUME TypeOK, IInv, NEW x \in Exps, NEW trust \in Trusts, NEW score \in Scores,
         NEW index, EvaluationCompleted(x, trust, score, index)
  PROVE  IInv'
  <1> DEFINE rq == evid[x].request
             full == rq.fidelity = "full"
             reproduced == /\ full /\ trust \in CleanVerdicts
                           /\ rq.command = "clean_reproduce"
             s == IF trust = "no_op" THEN "recovering" ELSE "evaluated"
             n == [node[x] EXCEPT !.status = s, !.score = score, !.trust = trust,
                                  !.fidelity = rq.fidelity]
             v == [evid[x] EXCEPT
                !.failure = IF trust = "no_op" THEN "no_op" ELSE @,
                !.evals = IF full
                    THEN @ \cup {[commit |-> rq.commit, seed |-> rq.seed]} ELSE @,
                !.reproductions = IF reproduced
                    THEN @ \cup {[commit |-> rq.commit, score |-> score]} ELSE @]
  <1>1. /\ Researching \/ Sealed
        /\ node[x].status = "output_verified"
        /\ trust = "confirmed" => full /\ HasSeedEvidence(x, rq)
    BY DEF EvaluationCompleted, CanEvaluationCompleted
  <1>2. /\ run.status \in {"ready", "running", "stopped"}
        /\ x = best.exp => Sealed /\ ~Accepting
    BY <1>1, IncumbentMovesWhenSealed
  <1>3. node' = [node EXCEPT ![x] = n] /\ evid' = [evid EXCEPT ![x] = v]
    BY DEF EvaluationCompleted, Recorded
  <1>4. run'.status = run.status /\ best' = best
    BY DEF EvaluationCompleted, TypeOK, RunType
  <1>5. /\ node'[x].status = s /\ n.status = s /\ node'[x].trust = trust
        /\ node'[x].commit = node[x].commit /\ n.commit = node[x].commit
        /\ evid'[x].receipt = evid[x].receipt
        /\ evid'[x].request = evid[x].request
        /\ trust = "no_op" => evid'[x].failure = "no_op"
        /\ evid'[x].evals = v.evals
        /\ v.evals = IF full
             THEN evid[x].evals \cup {[commit |-> rq.commit, seed |-> rq.seed]}
             ELSE evid[x].evals
    BY <1>3 DEF TypeOK, NodeType, EvidenceType
  <1>6. Gated(x)' /\ rq.commit = node[x].commit
    BY <1>1, <1>5 DEF IInv, SoundAt, HoldsGatedCommit, Gated, PastStart
  <1>7. ASSUME trust = "confirmed" PROVE TwoSeeds(x, node[x].commit)'
    <2>1. PICK e \in evid[x].evals : e.commit = rq.commit /\ e.seed # rq.seed
      BY <1>1, <1>7 DEF HasSeedEvidence
    <2> DEFINE f == [commit |-> rq.commit, seed |-> rq.seed]
    <2>2. e \in evid'[x].evals /\ f \in evid'[x].evals
      BY <1>1, <1>5, <1>7, <2>1
    <2>3. f.commit = rq.commit /\ f.seed = rq.seed
      OBVIOUS
    <2> HIDE DEF f
    <2> QED BY <1>5, <1>6, <2>1, <2>2, <2>3 DEF TwoSeeds
  <1>8. SoundAt(x)'
    <2>1. HoldsGatedCommit(x)'
      BY <1>5, <1>6 DEF HoldsGatedCommit
    <2>2. ConfirmedByTwoSeeds(x)'
      BY <1>5, <1>7 DEF ConfirmedByTwoSeeds, AtVerdict
    <2>3. FinalCommandsAreSealed(x)'
      BY <1>2, <1>4, <1>5 DEF IInv, SoundAt, FinalCommandsAreSealed, Researching
    <2> QED BY <2>1, <2>2, <2>3 DEF SoundAt
  <1>9. evid[x].evals \subseteq v.evals
    BY <1>5
  <1> HIDE DEF n, v, rq, full
  <1> QED BY <1>2, <1>3, <1>4, <1>5, <1>6, <1>8, <1>9, Frame DEF PastStart

\* An adapter failure past Gate A keeps the gated commit and what was requested.
LEMMA AdapterFailedSound ==
  ASSUME TypeOK, IInv, NEW x \in Exps, NEW stage \in AdapterStages,
         AdapterFailed(x, stage)
  PROVE  IInv'
  <1> DEFINE n == [node[x] EXCEPT !.status = "recovering"]
             v == [evid[x] EXCEPT !.failure = stage]
  <1>1. /\ Researching
        /\ \/ node[x].status \in AdapterAt[stage]
           \/ stage = "coding" /\ node[x].status = "ready_to_run"
    BY DEF AdapterFailed, CanAdapterFailed
  <1>2. /\ node[x].status \notin {"absent", "accepted"}
        /\ stage \in GatedFailures => node[x].status \in PastStart
        /\ stage = "decision" => node[x].status = "evaluated"
    BY <1>1 DEF AdapterAt, AdapterStages, GatedFailures, PastStart
  <1>3. x # best.exp /\ Accepting
    BY <1>1, <1>2, IncumbentRests
  <1>4. node' = [node EXCEPT ![x] = n] /\ evid' = [evid EXCEPT ![x] = v]
    BY DEF AdapterFailed, MoveTo, Recorded
  <1>5. run'.status = run.status /\ best' = best
    BY DEF AdapterFailed, MoveTo, TypeOK, RunType
  <1>6. /\ node'[x].status = "recovering" /\ evid'[x].failure = stage
        /\ node'[x].commit = node[x].commit /\ node'[x].trust = node[x].trust
        /\ evid'[x].receipt = evid[x].receipt /\ evid'[x].request = evid[x].request
        /\ evid'[x].evals = evid[x].evals
    BY <1>4 DEF TypeOK, NodeType, EvidenceType
  <1>7. SoundAt(x)'
    BY <1>2, <1>3, <1>5, <1>6 DEF IInv, SoundAt, HoldsGatedCommit, Recoverable, Gated,
       AtVerdict, ConfirmedByTwoSeeds, TwoSeeds, FinalCommandsAreSealed, Researching,
       PastStart
  <1> HIDE DEF n, v
  <1> QED BY <1>3, <1>4, <1>5, <1>7, Frame DEF Accepting

\* An answered failure sends its experiment to a stage that needs the gated
\* commit only if the failure was one of the gated commit.
LEMMA RecoveredStatusSound ==
  ASSUME NEW f \in Failures, NEW action \in Policy[f], action \in RecoveryActions
  PROVE  LET s == RecoveredStatus(f, action) IN
         /\ s # "accepted"
         /\ s \in {"ready_to_run"} \cup PastStart => f \in GatedFailures
         /\ s = "evaluated" => f = "decision"
  <1>1. CASE action \notin {"retry_same_commit", "adjust_approved_runtime_setting"}
    BY <1>1 DEF RecoveredStatus, PastStart
  <1>2. CASE action = "adjust_approved_runtime_setting"
    BY <1>2, PolicyAssumption DEF RecoveredStatus, GatedFailures, PastStart
  <1>3. CASE action = "retry_same_commit"
    <2>1. f \notin {"patch_rejected", "recovery"}
      BY <1>3, PolicyAssumption
    <2>2. RecoveredStatus(f, action) = RetryStatus(f)
      BY <1>3 DEF RecoveredStatus
    <2> QED BY <2>1, <2>2 DEF RetryStatus, Failures, AdapterStages, GatedFailures, PastStart
  <1> QED BY <1>1, <1>2, <1>3

\* The recovery policy's answers resume only where the failed commit may go.
LEMMA RecoveryDecidedSound ==
  ASSUME TypeOK, IInv, NEW x \in Exps, NEW action \in RecoveryActions,
         RecoveryDecided(x, action)
  PROVE  IInv'
  <1> DEFINE f == evid[x].failure
             s == RecoveredStatus(f, action)
             n == [node[x] EXCEPT
                !.status = s,
                !.repairs = IF action \in CodeActions
                            THEN Higher(@, RepairAttempt(x)) ELSE @,
                !.retries = IF action = "retry_same_commit" THEN @ + 1 ELSE @]
             v == [evid[x] EXCEPT !.recovery = action]
  <1>1. /\ Researching /\ node[x].status = "recovering"
        /\ f \in Failures /\ action \in Policy[f]
    BY DEF RecoveryDecided, CanRecoveryDecided, TypeOK, EvidenceType
  <1>2. x # best.exp /\ Accepting
    BY <1>1, IncumbentRests
  <1>3. node' = [node EXCEPT ![x] = n] /\ evid' = [evid EXCEPT ![x] = v]
    BY DEF RecoveryDecided, Recorded
  <1>4. run'.status = run.status /\ best' = best
    BY DEF RecoveryDecided, TypeOK, RunType
  <1>5. /\ node'[x].status = s /\ evid'[x].failure = f
        /\ node'[x].commit = node[x].commit /\ node'[x].trust = node[x].trust
        /\ evid'[x].receipt = evid[x].receipt /\ evid'[x].request = evid[x].request
        /\ evid'[x].evals = evid[x].evals
    BY <1>3 DEF TypeOK, NodeType, EvidenceType
  <1>6. /\ s # "accepted"
        /\ s \in {"ready_to_run"} \cup PastStart => f \in GatedFailures
        /\ s = "evaluated" => f = "decision"
    BY <1>1, RecoveredStatusSound
  <1> HIDE DEF n, v, s, f
  <1>7. SoundAt(x)'
    <2>1. HoldsGatedCommit(x)'
      BY <1>1, <1>5, <1>6 DEF IInv, SoundAt, HoldsGatedCommit, Recoverable, Gated,
         PastStart, f
    <2>2. ConfirmedByTwoSeeds(x)'
      BY <1>1, <1>5, <1>6 DEF IInv, SoundAt, AtVerdict, ConfirmedByTwoSeeds, TwoSeeds, f
    <2>3. FinalCommandsAreSealed(x)'
      BY <1>2, <1>4, <1>5 DEF IInv, SoundAt, FinalCommandsAreSealed, Researching
    <2> QED BY <2>1, <2>2, <2>3 DEF SoundAt
  <1> QED BY <1>2, <1>3, <1>4, <1>7, Frame DEF Accepting

\* An eligible acceptance inherits the two seeds of its confirmed verdict.
LEMMA ExperimentDecidedSound ==
  ASSUME TypeOK, IInv, NEW x \in Exps, NEW kind \in DecisionKinds,
         NEW fidelity \in Fidelities, NEW next \in Fidelities, NEW eligible \in BOOLEAN,
         ExperimentDecided(x, kind, fidelity, eligible, next)
  PROVE  IInv'
  <1> DEFINE s == DecidedStatus[kind]
             confirming == kind = "promote" /\ fidelity = "full" /\ next = "full"
             n == [node[x] EXCEPT !.status = s, !.eligible = eligible,
                !.confirms = IF confirming THEN @ + 1 ELSE @]
  <1>1. /\ Researching
        /\ node[x].status \in {"output_verified", "evaluated"}
        /\ eligible => node[x].status = "evaluated" /\ node[x].trust = "confirmed"
    BY DEF ExperimentDecided, CanExperimentDecided
  <1>2. x # best.exp /\ Accepting
    BY <1>1, IncumbentRests
  <1>3. node' = [node EXCEPT ![x] = n] /\ evid' = [evid EXCEPT ![x] = evid[x]]
    BY DEF ExperimentDecided, TypeOK
  <1>4. run'.status = run.status /\ best' = best
    BY DEF ExperimentDecided, TypeOK, RunType
  <1>5. /\ node'[x].status = s /\ node'[x].eligible = eligible
        /\ node'[x].commit = node[x].commit /\ evid'[x] = evid[x]
    BY <1>3 DEF TypeOK, NodeType, EvidenceType
  <1>6. s \in {"ready_to_run"} \cup Closed
    BY DEF DecidedStatus, DecisionKinds, Closed
  <1>7. SoundAt(x)'
    <2> HIDE DEF s
    <2>1. Gated(x)
      BY <1>1 DEF IInv, SoundAt, HoldsGatedCommit, PastStart
    <2>2. HoldsGatedCommit(x)'
      BY <2>1, <1>5, <1>6 DEF HoldsGatedCommit, Recoverable, Gated, PastStart, Closed
    <2>3. ConfirmedByTwoSeeds(x)'
      BY <1>1, <1>5, <1>6 DEF IInv, SoundAt, AtVerdict, ConfirmedByTwoSeeds, TwoSeeds, Closed
    <2>4. FinalCommandsAreSealed(x)'
      BY <1>2, <1>4, <1>5 DEF IInv, SoundAt, FinalCommandsAreSealed, Researching
    <2> QED BY <2>2, <2>3, <2>4 DEF SoundAt
  <1> HIDE DEF n
  <1> QED BY <1>2, <1>3, <1>4, <1>7, Frame DEF Accepting

\* A proposal starts from nothing and is never the incumbent.
LEMMA ExperimentProposedSound ==
  ASSUME TypeOK, IInv, NEW x \in Exps, NEW k, NEW parent,
         ExperimentProposed(x, k, parent)
  PROVE  IInv'
  <1>1. /\ Accepting /\ node[x].status = "absent"
        /\ run'.status = "running" /\ best' = best /\ evid' = evid
        /\ node'[x].status = "proposed"
        /\ \A y \in Exps \ {x} : node'[y] = node[y]
    BY DEF ExperimentProposed, CanPropose, NewNode, TypeOK, RunType
  <1>2. x # best.exp
    BY <1>1 DEF IInv, BestIsSettled, PastStart
  <1>3. \A y \in Exps : SoundAt(y)'
    <2>1. SoundAt(x)'
      BY <1>1 DEF IInv, SoundAt, HoldsGatedCommit, Recoverable, AtVerdict, PastStart,
         ConfirmedByTwoSeeds, FinalCommandsAreSealed, Researching, Accepting
    <2>2. ASSUME NEW y \in Exps \ {x} PROVE SoundAt(y)'
      BY <1>1 DEF IInv, SoundAt, HoldsGatedCommit, Recoverable, Gated, AtVerdict,
         ConfirmedByTwoSeeds, TwoSeeds, FinalCommandsAreSealed, Researching, Accepting
    <2> QED BY <2>1, <2>2
  <1>4. BestIsVerified' /\ BestIsSettled'
    BY <1>1, <1>2 DEF IInv, BestIsVerified, BestIsSettled, Gated, TwoSeeds, Accepting
  <1> QED BY <1>1, <1>3, <1>4 DEF IInv, NothingBeforeBaseline, FinalIsReproduced

\* The new incumbent is accepted, gated and two-seeded.
LEMMA BestUpdatedSound ==
  ASSUME TypeOK, IInv, NEW x \in Exps, BestUpdated(x) PROVE IInv'
  <1>1. /\ Researching /\ node[x].status = "accepted" /\ node[x].eligible
        /\ best' = [exp |-> x, commit |-> node[x].commit, score |-> node[x].score]
        /\ run'.status = run.status /\ node' = node /\ evid' = evid
    BY DEF BestUpdated, CanBestUpdated, TypeOK, RunType
  <1>2. Accepting
    BY <1>1 DEF IInv, NothingBeforeBaseline, Researching, Accepting
  <1>3. Gated(x) /\ TwoSeeds(x, node[x].commit)
    BY <1>1 DEF IInv, SoundAt, HoldsGatedCommit, ConfirmedByTwoSeeds
  <1>4. BestIsVerified' /\ BestIsSettled'
    BY <1>1, <1>3 DEF BestIsVerified, BestIsSettled, Gated, TwoSeeds
  <1>5. \A y \in Exps : SoundAt(y)'
    BY <1>1 DEF IInv, SoundAt, HoldsGatedCommit, Recoverable, Gated, AtVerdict,
       ConfirmedByTwoSeeds, TwoSeeds, FinalCommandsAreSealed, Researching
  <1> QED
    BY <1>1, <1>2, <1>4, <1>5 DEF IInv, NothingBeforeBaseline, FinalIsReproduced, Accepting

\* Run-level events touch no experiment; selection needs the reproduction.
LEMMA RunEventSound == ASSUME TypeOK, IInv, RunEvent PROVE IInv'
  <1>1. node' = node /\ evid' = evid
    BY DEF RunEvent, RunStarted, ContractVerified, BaselineVerified, ContextCreated,
       PlannerRecommended, PlanningFailed, RunStopped, FinalSelected, SubmissionChecked
  <1>2. ASSUME best' = best,
               run'.status = run.status \/ ~Researching',
               run'.status # "initializing" \/ run.status = "initializing",
               run'.status \in {"finalizing", "finalized"} => FinalIsReproduced'
        PROVE  IInv'
    BY <1>1, <1>2 DEF IInv, NothingBeforeBaseline, SoundAt, HoldsGatedCommit, Recoverable,
       Gated, AtVerdict, ConfirmedByTwoSeeds, TwoSeeds, FinalCommandsAreSealed,
       Researching, Accepting, BestIsVerified, BestIsSettled, FinalIsReproduced
  <1>3. CASE BaselineVerified
    <2>1. /\ run.status = "initializing" /\ run'.status = "ready"
          /\ best'.exp = Baseline
      BY <1>3 DEF BaselineVerified, TypeOK, RunType
    <2>2. \A x \in Exps : SoundAt(x)'
      BY <1>1, <2>1 DEF IInv, NothingBeforeBaseline, SoundAt, HoldsGatedCommit, Recoverable,
         AtVerdict, ConfirmedByTwoSeeds, FinalCommandsAreSealed, Researching, PastStart
    <2> QED BY <2>1, <2>2, DomainAssumption DEF IInv, NothingBeforeBaseline, BestIsVerified,
               BestIsSettled, FinalIsReproduced
  <1>4. CASE FinalSelected
    <2>1. /\ run.status = "stopped" /\ run'.status = "finalizing" /\ best' = best
      BY <1>4 DEF FinalSelected, CanFinalSelected, Sealed, TypeOK, RunType
    <2>2. FinalIsReproduced'
      BY <1>1, <1>4, <2>1 DEF FinalSelected, CanFinalSelected, IInv, BestIsVerified,
         FinalIsReproduced, Gated
    <2> QED BY <1>2, <2>1, <2>2 DEF Researching
  <1>5. ASSUME NEW accepted \in BOOLEAN, SubmissionChecked(accepted) PROVE IInv'
    <2>1. /\ run.status = "finalizing" /\ run'.status \in {"finalized", "failed"}
          /\ best' = best
      BY <1>5 DEF SubmissionChecked, TypeOK, RunType
    <2>2. FinalIsReproduced'
      BY <1>1, <2>1 DEF IInv, FinalIsReproduced, Gated
    <2> QED BY <1>2, <2>1, <2>2 DEF Researching
  <1>6. ASSUME NEW reason, RunStopped(reason) PROVE IInv'
    <2>1. run'.status \in {"stopped", "failed"} /\ best' = best
      BY <1>6 DEF RunStopped, TypeOK, RunType
    <2> QED BY <1>2, <2>1 DEF Researching
  <1>7. CASE \/ RunStarted \/ ContractVerified \/ PlannerRecommended \/ PlanningFailed
             \/ \E role \in Roles : ContextCreated(role)
    <2>1. run'.status = run.status /\ best' = best
      BY <1>7 DEF RunStarted, ContractVerified, PlannerRecommended, PlanningFailed,
         ContextCreated, TypeOK, RunType
    <2>2. run.status \in {"finalizing", "finalized"} => FinalIsReproduced'
      BY <1>1, <2>1 DEF IInv, FinalIsReproduced, Gated
    <2> QED BY <1>2, <2>1, <2>2
  <1> QED BY <1>3, <1>4, <1>5, <1>6, <1>7 DEF RunEvent

\* Every event the validator admits preserves the invariant.
LEMMA NextSound == TypeOK /\ IInv /\ [Next]_vars => IInv'
  <1> SUFFICES ASSUME TypeOK, IInv, [Next]_vars PROVE IInv'
    OBVIOUS
  <1>1. CASE RunEvent
    BY <1>1, RunEventSound
  <1>2. ASSUME NEW x \in Exps, WorkEvent(x) PROVE IInv'
    BY <1>2, ExperimentProposedSound, PatchCreatedSound, PatchCheckedSound,
       ExecutionStartedSound, ExecutionFinishedSound, OutputCheckedSound DEF WorkEvent
  <1>3. ASSUME NEW x \in Exps, JudgeEvent(x) PROVE IInv'
    BY <1>3, EvaluationCompletedSound, AdapterFailedSound, RecoveryDecidedSound,
       ExperimentDecidedSound, BestUpdatedSound DEF JudgeEvent
  <1>4. CASE UNCHANGED vars
    BY <1>4 DEF vars, IInv, NothingBeforeBaseline, SoundAt, HoldsGatedCommit, Recoverable,
       Gated, AtVerdict, ConfirmedByTwoSeeds, TwoSeeds, FinalCommandsAreSealed,
       Researching, Accepting, BestIsVerified, BestIsSettled, FinalIsReproduced
  <1> QED BY <1>1, <1>2, <1>3, <1>4 DEF Next

\* The projection of every legal ledger is well typed and satisfies the
\* inductive invariant of the validator and the reducer together.
THEOREM Invariance == Spec => [](TypeOK /\ IInv)
  <1>1. Init => TypeOK /\ IInv
    BY InitType, InitSound
  <1>2. TypeOK /\ IInv /\ [Next]_vars => (TypeOK /\ IInv)'
    BY TypePreserved, NextSound
  <1> QED BY <1>1, <1>2, PTL DEF Spec

-----------------------------------------------------------------------------
\* validate_transition and project never let a commit run, be judged or be held
\* that is not the one whose Gate A receipt was accepted.
THEOREM OnlyGatedCommitsRunTheorem == Spec => []OnlyGatedCommitsRun
  <1>1. IInv => OnlyGatedCommitsRun
    BY DEF IInv, SoundAt, HoldsGatedCommit, OnlyGatedCommitsRun
  <1> QED BY Invariance, <1>1, PTL

\* The incumbent recorded by best.updated is always gated, two-seeded and, until
\* the stop, still accepted with its winning score.
THEOREM BestIsVerifiedTheorem == Spec => []BestIsVerified
  <1>1. IInv => BestIsVerified
    BY DEF IInv
  <1> QED BY Invariance, <1>1, PTL

\* final.selected names only the baseline or a gated commit whose best score a
\* clean run reproduced exactly.
THEOREM FinalIsReproducedTheorem == Spec => []FinalIsReproduced
  <1>1. IInv => FinalIsReproduced
    BY DEF IInv
  <1> QED BY Invariance, <1>1, PTL

\* One step of ClosedStaysClosed.
LEMMA ClosedStep ==
  ASSUME TypeOK, IInv, [Next]_vars, NEW x \in Exps, node[x].status \in Closed,
         Researching \/ x # best.exp
  PROVE  node'[x] = node[x]
  <1> USE DEF Closed
  <1>1. CASE RunEvent
    BY <1>1 DEF RunEvent, RunStarted, ContractVerified, BaselineVerified, ContextCreated,
       PlannerRecommended, PlanningFailed, RunStopped, FinalSelected, SubmissionChecked
  <1>2. ASSUME NEW y \in Exps, WorkEvent(y) PROVE node'[x] = node[x]
    <2>1. ASSUME NEW k, NEW parent, ExperimentProposed(y, k, parent) PROVE node'[x] = node[x]
      BY <2>1 DEF ExperimentProposed, CanPropose, TypeOK
    <2>2. CASE PatchCreated(y)
      BY <2>2 DEF PatchCreated, CanPatchCreated, MoveTo, TypeOK
    <2>3. ASSUME NEW accepted, PatchChecked(y, accepted) PROVE node'[x] = node[x]
      BY <2>3 DEF PatchChecked, CanPatchChecked, MoveTo, TypeOK
    <2>4. ASSUME NEW rq, ExecutionStarted(y, rq) PROVE node'[x] = node[x]
      BY <2>4 DEF ExecutionStarted, CanExecutionStarted, MoveTo, TypeOK, Sealed, Researching
    <2>5. ASSUME NEW success, ExecutionFinished(y, success) PROVE node'[x] = node[x]
      BY <2>5 DEF ExecutionFinished, CanExecutionFinished, MoveTo, TypeOK
    <2>6. ASSUME NEW accepted, OutputChecked(y, accepted) PROVE node'[x] = node[x]
      BY <2>6 DEF OutputChecked, CanOutputChecked, MoveTo, TypeOK
    <2> QED BY <1>2, <2>1, <2>2, <2>3, <2>4, <2>5, <2>6 DEF WorkEvent
  <1>3. ASSUME NEW y \in Exps, JudgeEvent(y) PROVE node'[x] = node[x]
    <2>1. ASSUME NEW trust, NEW score, NEW index, EvaluationCompleted(y, trust, score, index)
          PROVE  node'[x] = node[x]
      BY <2>1 DEF EvaluationCompleted, CanEvaluationCompleted, TypeOK
    <2>2. ASSUME NEW stage \in AdapterStages, AdapterFailed(y, stage) PROVE node'[x] = node[x]
      BY <2>2 DEF AdapterFailed, CanAdapterFailed, AdapterAt, AdapterStages, MoveTo, TypeOK
    <2>3. ASSUME NEW action, RecoveryDecided(y, action) PROVE node'[x] = node[x]
      BY <2>3 DEF RecoveryDecided, CanRecoveryDecided, TypeOK
    <2>4. ASSUME NEW kind, NEW fidelity, NEW eligible, NEW next,
                 ExperimentDecided(y, kind, fidelity, eligible, next)
          PROVE  node'[x] = node[x]
      BY <2>4 DEF ExperimentDecided, CanExperimentDecided, TypeOK
    <2>5. CASE BestUpdated(y)
      BY <2>5 DEF BestUpdated
    <2> QED BY <1>3, <2>1, <2>2, <2>3, <2>4, <2>5 DEF JudgeEvent
  <1>4. CASE UNCHANGED vars
    BY <1>4 DEF vars
  <1> QED BY <1>1, <1>2, <1>3, <1>4 DEF Next

\* No event reopens an experiment that a decision or a recovery has closed.
THEOREM ClosedStaysClosedTheorem == Spec => ClosedStaysClosed
  <1>1. TypeOK /\ IInv /\ [Next]_vars =>
          [\A x \in Exps : node[x].status \in Closed /\ (Researching \/ x # best.exp)
              => node'[x] = node[x]]_vars
    BY ClosedStep
  <1> QED BY Invariance, <1>1, PTL DEF Spec, ClosedStaysClosed

\* One step of SealedQueries.
LEMMA SealedStep ==
  ASSUME TypeOK, IInv, [Next]_vars, Sealed
  PROVE  /\ best' = best
         /\ run'.queries # run.queries =>
                /\ best.exp \in Exps
                /\ evid[best.exp].request.commit = best.commit
                /\ \A x \in Exps \ {best.exp} : evid'[x] = evid[x]
  <1> USE DEF Sealed, Researching, Accepting
  <1>1. CASE RunEvent
    BY <1>1 DEF RunEvent, RunStarted, ContractVerified, BaselineVerified, ContextCreated,
       PlannerRecommended, PlanningFailed, RunStopped, FinalSelected, SubmissionChecked,
       CanContextCreated, CanPlanningFailed, CanRunStopped, TypeOK, RunType
  <1>2. ASSUME NEW y \in Exps, WorkEvent(y)
        PROVE  best' = best /\ run'.queries = run.queries
    BY <1>2 DEF WorkEvent, ExperimentProposed, CanPropose, PatchCreated, PatchChecked,
       ExecutionStarted, ExecutionFinished, OutputChecked, MoveTo, TypeOK, RunType
  <1>3. ASSUME NEW y \in Exps, NEW trust, NEW score, NEW index,
               EvaluationCompleted(y, trust, score, index)
        PROVE  /\ best' = best /\ y = best.exp
               /\ evid[best.exp].request.commit = best.commit
               /\ \A x \in Exps \ {best.exp} : evid'[x] = evid[x]
    <2>1. best' = best /\ evid[y].request.command = "clean_reproduce"
      BY <1>3 DEF EvaluationCompleted, CanEvaluationCompleted
    <2>2. y = best.exp /\ evid[y].request.commit = best.commit
      BY <2>1 DEF IInv, SoundAt, FinalCommandsAreSealed
    <2> QED BY <1>3, <2>1, <2>2 DEF EvaluationCompleted, Recorded, TypeOK
  <1>4. ASSUME NEW y \in Exps, JudgeEvent(y),
               ~\E trust \in Trusts, score \in Scores, index \in 0..MaxQueries :
                   EvaluationCompleted(y, trust, score, index)
        PROVE  FALSE
    BY <1>4 DEF JudgeEvent, AdapterFailed, CanAdapterFailed, RecoveryDecided,
       CanRecoveryDecided, ExperimentDecided, CanExperimentDecided, BestUpdated, CanBestUpdated
  <1>5. CASE UNCHANGED vars
    BY <1>5 DEF vars
  <1> QED BY <1>1, <1>2, <1>3, <1>4, <1>5 DEF Next

\* After run.stopped the incumbent is final and public queries are spent on its
\* commit alone, whatever lanes were still running.
THEOREM SealedQueriesTheorem == Spec => SealedQueries
  <1>1. TypeOK /\ IInv /\ [Next]_vars =>
          [Sealed =>
             /\ best' = best
             /\ run'.queries # run.queries =>
                   /\ best.exp \in Exps
                   /\ evid[best.exp].request.commit = best.commit
                   /\ \A x \in Exps \ {best.exp} : evid'[x] = evid[x]]_vars
    BY SealedStep
  <1> QED BY Invariance, <1>1, PTL DEF Spec, SealedQueries

-----------------------------------------------------------------------------
(***************************************************************************)
(* Duplicate keys bound re-exploration for any number of experiments and   *)
(* keys: KeysAreSpentOnce is inductive given IInv, because a failed        *)
(* experiment never revives (ClosedStep) and no event changes the key of   *)
(* an experiment or forgets that it was proposed.                          *)
(***************************************************************************)
Identity(x) == <<node[x].key, node[x].status = "absent">>

\* Every event but a proposal leaves keys and the set of proposals alone.
LEMMA IdentityKept ==
  ASSUME TypeOK, IInv, [Next]_vars,
         ~\E x \in Exps, k \in Keys, parent \in Exps \cup {Baseline} :
              x # parent /\ ExperimentProposed(x, k, parent),
         NEW x \in Exps
  PROVE  Identity(x)' = Identity(x)
  <1> USE DEF Identity
  <1>1. CASE RunEvent
    BY <1>1 DEF RunEvent, RunStarted, ContractVerified, BaselineVerified, ContextCreated,
       PlannerRecommended, PlanningFailed, RunStopped, FinalSelected, SubmissionChecked
  <1>2. ASSUME NEW y \in Exps, WorkEvent(y) PROVE Identity(x)' = Identity(x)
    <2>n. node[y] \in NodeType
      BY DEF TypeOK
    <2>1. CASE PatchCreated(y)
      BY <2>n, <2>1 DEF PatchCreated, CanPatchCreated, MoveTo, TypeOK, NodeType
    <2>2. ASSUME NEW accepted, PatchChecked(y, accepted) PROVE Identity(x)' = Identity(x)
      BY <2>n, <2>2 DEF PatchChecked, CanPatchChecked, MoveTo, TypeOK, NodeType
    <2>3. ASSUME NEW rq, ExecutionStarted(y, rq) PROVE Identity(x)' = Identity(x)
      <3>1. node[y].status # "absent"
        BY <2>3 DEF ExecutionStarted, CanExecutionStarted, IInv, BestIsSettled, PastStart
      <3> QED BY <2>n, <2>3, <3>1 DEF ExecutionStarted, MoveTo, TypeOK, NodeType
    <2>4. ASSUME NEW success, ExecutionFinished(y, success) PROVE Identity(x)' = Identity(x)
      BY <2>n, <2>4 DEF ExecutionFinished, CanExecutionFinished, MoveTo, TypeOK, NodeType
    <2>5. ASSUME NEW accepted, OutputChecked(y, accepted) PROVE Identity(x)' = Identity(x)
      BY <2>n, <2>5 DEF OutputChecked, CanOutputChecked, MoveTo, TypeOK, NodeType
    <2> QED BY <1>2, <2>1, <2>2, <2>3, <2>4, <2>5 DEF WorkEvent
  <1>3. ASSUME NEW y \in Exps, JudgeEvent(y) PROVE Identity(x)' = Identity(x)
    <2>n. node[y] \in NodeType
      BY DEF TypeOK
    <2>1. ASSUME NEW trust, NEW score, NEW index, EvaluationCompleted(y, trust, score, index)
          PROVE  Identity(x)' = Identity(x)
      BY <2>n, <2>1 DEF EvaluationCompleted, CanEvaluationCompleted, TypeOK, NodeType
    <2>2. ASSUME NEW stage \in AdapterStages, AdapterFailed(y, stage)
          PROVE  Identity(x)' = Identity(x)
      BY <2>n, <2>2 DEF AdapterFailed, CanAdapterFailed, AdapterAt, AdapterStages, MoveTo,
         TypeOK, NodeType
    <2>3. ASSUME NEW action, RecoveryDecided(y, action) PROVE Identity(x)' = Identity(x)
      <3>1. RecoveredStatus(evid[y].failure, action) # "absent"
        BY DEF RecoveredStatus, RetryStatus
      <3>2. node[y].status # "absent"
        BY <2>3 DEF RecoveryDecided, CanRecoveryDecided
      <3> QED BY <2>n, <2>3, <3>1, <3>2 DEF RecoveryDecided, TypeOK, NodeType
    <2>4. ASSUME NEW kind \in DecisionKinds, NEW fidelity, NEW eligible, NEW next,
                 ExperimentDecided(y, kind, fidelity, eligible, next)
          PROVE  Identity(x)' = Identity(x)
      <3>1. DecidedStatus[kind] # "absent"
        BY DEF DecidedStatus, DecisionKinds
      <3>2. node[y].status # "absent"
        BY <2>4 DEF ExperimentDecided, CanExperimentDecided
      <3> QED BY <2>n, <2>4, <3>1, <3>2 DEF ExperimentDecided, TypeOK, NodeType
    <2>5. CASE BestUpdated(y)
      BY <2>5 DEF BestUpdated
    <2> QED BY <1>3, <2>1, <2>2, <2>3, <2>4, <2>5 DEF JudgeEvent
  <1>4. CASE UNCHANGED vars
    BY <1>4 DEF vars
  <1> QED BY <1>1, <1>2, <1>3, <1>4 DEF Next

Failed(x) == node[x].status \in {"invalid", "no_op"}

\* A failed experiment stays failed: it is closed and never the incumbent.
LEMMA FailedStays ==
  ASSUME TypeOK, IInv, [Next]_vars, NEW x \in Exps, Failed(x) PROVE Failed(x)'
  <1>1. node[x].status \in Closed /\ x # best.exp
    BY DEF Failed, Closed, IInv, BestIsSettled, PastStart
  <1> QED BY <1>1, ClosedStep DEF Failed

\* A proposal adds its experiment to the holders of its key, all of which have
\* failed and are too few to exhaust it; other keys keep their holders.
LEMMA ProposalSpends ==
  ASSUME TypeOK, NEW x \in Exps, NEW k \in Keys, NEW parent,
         ExperimentProposed(x, k, parent)
  PROVE  /\ SameKey(k)' = SameKey(k) \cup {x}
         /\ \A j \in Keys \ {k} : SameKey(j)' = SameKey(j)
         /\ \A y \in SameKey(k) : Failed(y) /\ Failed(y)'
         /\ Cardinality(SameKey(k)) < MaxAttemptsPerKey
  <1>1. /\ node[x].status = "absent"
        /\ node'[x].status = "proposed" /\ node'[x].key = k
        /\ \A y \in Exps \ {x} : node'[y] = node[y]
    BY DEF ExperimentProposed, CanPropose, NewNode, TypeOK
  <1>2. /\ SameKey(k)' = SameKey(k) \cup {x}
        /\ \A j \in Keys \ {k} : SameKey(j)' = SameKey(j)
    BY <1>1 DEF SameKey, Proposed
  <1>3. \/ SameKey(k) = {}
        \/ \E y \in Exps : SameKey(k) = {y} /\ node[y].status = "no_op"
        \/ /\ Cardinality(SameKey(k)) < MaxAttemptsPerKey
           /\ \A y \in SameKey(k) : node[y].status \in {"invalid", "no_op"}
    BY DEF ExperimentProposed, CanPropose, AuthorizedNoOpReimplementation,
       AuthorizedReexploration
  <1>4. \A y \in SameKey(k) : Failed(y) /\ Failed(y)'
    BY <1>1, <1>3 DEF Failed, SameKey, Proposed
  <1>5. Cardinality(SameKey(k)) < MaxAttemptsPerKey
    <2>1. CASE SameKey(k) = {}
      BY <2>1, FS_EmptySet DEF MaxAttemptsPerKey
    <2>2. ASSUME NEW y \in Exps, SameKey(k) = {y}
          PROVE  Cardinality(SameKey(k)) < MaxAttemptsPerKey
      <3>1. Cardinality({y}) = 1
        BY FS_Singleton
      <3> QED BY <2>2, <3>1 DEF MaxAttemptsPerKey
    <2> QED BY <1>3, <2>1, <2>2
  <1> QED BY <1>2, <1>4, <1>5

\* Every event keeps KeysAreSpentOnce: proposals by ProposalSpends, others because
\* identities are kept and failures stay.
LEMMA KeysStep ==
  ASSUME TypeOK, IInv, KeysAreSpentOnce, [Next]_vars PROVE KeysAreSpentOnce'
  <1>f. \A k \in Keys : IsFiniteSet(SameKey(k)) /\ SameKey(k) \subseteq Exps
    BY DomainAssumption, FS_Subset DEF SameKey, Proposed
  <1>1. CASE ~\E x \in Exps, k \in Keys, parent \in Exps \cup {Baseline} :
                x # parent /\ ExperimentProposed(x, k, parent)
    <2>1. \A x \in Exps : Identity(x)' = Identity(x)
      BY <1>1, IdentityKept
    <2>2. \A k \in Keys : SameKey(k)' = SameKey(k)
      BY <2>1 DEF Identity, SameKey, Proposed
    <2>3. \A x \in Exps : Failed(x) => Failed(x)'
      BY FailedStays
    <2> QED BY <1>f, <2>2, <2>3 DEF KeysAreSpentOnce, Failed
  <1>2. ASSUME NEW x \in Exps, NEW k \in Keys, NEW parent, ExperimentProposed(x, k, parent)
        PROVE  KeysAreSpentOnce'
    <2>1. /\ SameKey(k)' = SameKey(k) \cup {x}
          /\ \A j \in Keys \ {k} : SameKey(j)' = SameKey(j)
          /\ \A y \in SameKey(k) : Failed(y) /\ Failed(y)'
          /\ Cardinality(SameKey(k)) < MaxAttemptsPerKey
      BY <1>2, ProposalSpends
    <2>2. Cardinality(SameKey(k)') <= MaxAttemptsPerKey
      <3>1. Cardinality(SameKey(k)) \in Nat
        BY <1>f, FS_CardinalityType
      <3>2. Cardinality(SameKey(k) \cup {x}) \in {Cardinality(SameKey(k)),
                                                 Cardinality(SameKey(k)) + 1}
        BY <1>f, <3>1, FS_AddElement
      <3> QED BY <2>1, <3>1, <3>2 DEF MaxAttemptsPerKey
    <2>3. \A y \in Exps : Failed(y) => Failed(y)'
      BY FailedStays
    <2>4. ASSUME NEW j \in Keys, NEW y \in SameKey(j)', NEW z \in SameKey(j)'
          PROVE  y = z \/ Failed(y)' \/ Failed(z)'
      <3>1. CASE j = k
        BY <2>1, <3>1
      <3>2. CASE j # k
        BY <1>f, <2>1, <2>3, <3>2 DEF KeysAreSpentOnce, Failed
      <3> QED BY <3>1, <3>2
    <2>5. \A j \in Keys : Cardinality(SameKey(j)') <= MaxAttemptsPerKey
      BY <2>1, <2>2 DEF KeysAreSpentOnce
    <2> QED BY <2>4, <2>5 DEF KeysAreSpentOnce, Failed
  <1> QED BY <1>1, <1>2

\* However often proposals repeat a key, state_machine.py admits at most three
\* holders of it, and never two of which neither has failed.
THEOREM KeysAreSpentOnceTheorem == Spec => []KeysAreSpentOnce
  <1>1. Init => KeysAreSpentOnce
    <2> SUFFICES ASSUME Init PROVE KeysAreSpentOnce
      OBVIOUS
    <2>1. \A k \in Keys : SameKey(k) = {}
      BY DEF Init, NewNode, SameKey, Proposed
    <2> QED BY <2>1, FS_EmptySet DEF KeysAreSpentOnce, MaxAttemptsPerKey
  <1> QED BY Invariance, <1>1, KeysStep, PTL DEF Spec
=============================================================================
