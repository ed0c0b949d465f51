-------------------------- MODULE ControllerProofs --------------------------
(***************************************************************************)
(* Two of the controller's dealings with the ledger, finalize and the      *)
(* briefing of its workers, are safe for any candidate, seeds and scores   *)
(* and for any number of experiments, failures, mismatches and crashes.    *)
(*                                                                         *)
(* Both append admitted events alone, so the projection keeps the          *)
(* inductive invariant of Lifecycle (TypeOK, IInv). FinalInv adds what     *)
(* finalize knows at each of its stages, BriefingInv of which commit the   *)
(* newest event of each type can be: a receipt on record is Gate A's last  *)
(* word on its commit (ReceiptIsTold), a repair in progress is of the      *)
(* failure it was ordered for (OrderStands), and an experiment that may go *)
(* back to the planner has no commit younger than its evaluation, because  *)
(* the repairs that could make one are spent (WiringIsTold).               *)
(***************************************************************************)
EXTENDS Finalization, Briefing, LifecycleProofs, SequenceTheorems

----------------------------------------------------------------------------
(* Finalization.                                                           *)

Contents == Predictions \cup {NoPrediction}
Stages == {"run", "gate", "judge", "infer", "check", "compare"}
Attempts == [pc : Stages \cup {"idle", "submit"}, cmd : FinalCommands \cup {"none"},
             attempt : Nat, seed : Seeds \cup {0}, pred : Contents, since : Nat]
Evaluations == [attempt : Nat, commit : Commits, seed : Seeds, score : Scores,
                trust : Trusts]
Outputs == [attempt : Nat, pred : Contents]
Sent == [pred : Contents, checked : Contents, inferredAt : Nat, reproducedAt : Nat]

FinalTypeOK ==
    /\ fin \in Attempts /\ history \in Seq(Evaluations) /\ started \subseteq Nat
    /\ inferred \in Seq(Outputs) /\ sent \in Sent

\* Finalization is of the baseline or of the candidate, and only a candidate is
\* run again; between finalize's stages the run stays stopped.
IncumbentIsFixed ==
    /\ best.exp \in {Baseline, Candidate}
    /\ run.status \in {"stopped", "finalizing", "finalized"}
    /\ best.exp = Candidate => best.commit > 0
    /\ fin.pc \in Stages => best.exp = Candidate /\ run.status = "stopped"
    /\ fin.pc = "submit" => run.status = "finalizing"

\* The attempts that were started have a latest one.
AttemptsAreBounded == \E m \in started \cup {0} : \A a \in started \cup {0} : m >= a

\* The last evaluation with the best score is of the best commit.
LastSupport(l) ==
    /\ l \in 1..Len(history) /\ Supports(history[l])
    /\ \A i \in 1..Len(history) : Supports(history[i]) => i <= l

BestHasEvidence ==
    best.exp = Candidate =>
        \E l \in 1..Len(history) :
            LastSupport(l) /\ history[l].commit = best.commit

\* The ledger is where finalize's stage left it.
LedgerIsAtStage ==
    /\ fin.pc \in Stages => fin.seed \in Seeds /\ fin.cmd \in FinalCommands
    /\ fin.pc \in {"run", "gate", "judge"} =>
         evid[Candidate].request = FinalRequest(fin.cmd, fin.seed)
    /\ fin.pc = "run" => node[Candidate].status = "running"
    /\ fin.pc = "gate" =>
         /\ fin.cmd # "submission_check"
         /\ node[Candidate].status = "output_ready"
         /\ evid[Candidate].finished = "success"
    /\ fin.pc = "judge" =>
         /\ fin.cmd = "clean_reproduce"
         /\ node[Candidate].status = "output_verified"
         /\ evid[Candidate].finished = "success"
         /\ evid[Candidate].output = "accepted"
    /\ fin.pc = "infer" => fin.cmd = "clean_reproduce"
    /\ fin.pc = "check" =>
         /\ fin.cmd = "candidate_final_infer"
         /\ evid[Candidate].outputOf = "candidate_final_infer"
    /\ fin.pc = "compare" => fin.cmd = "submission_check"
    /\ fin.pc = "submit" /\ best.exp = Candidate => fin.cmd = "submission_check"

Reproducing == fin.cmd = "clean_reproduce" /\ fin.pc \in {"run", "gate", "judge"}

\* From its evaluation on, this finalize's reproduction is in the ledger.
ReproductionIsRecorded ==
    fin.pc # "idle" /\ best.exp = Candidate /\ ~Reproducing =>
        /\ CitesReproduction
        /\ [commit |-> best.commit, score |-> best.score]
               \in evid[Candidate].reproductions

\* Reproduction, inference and check follow one another in this finalize, and
\* the check is of that inference.
StagesAreOrdered ==
    fin.pc # "idle" /\ best.exp = Candidate =>
        /\ fin.cmd = "clean_reproduce" => fin.attempt = fin.since
        /\ fin.cmd = "candidate_final_infer" => fin.attempt > fin.since
        /\ fin.pc = "check" => Last(inferred) = [attempt |-> fin.attempt, pred |-> fin.pred]
        /\ fin.cmd = "submission_check" =>
             /\ fin.attempt - 1 > fin.since
             /\ Last(inferred) = [attempt |-> fin.attempt - 1, pred |-> fin.pred]
        /\ fin.pc = "submit" =>
             /\ sent.checked = fin.pred /\ sent.inferredAt = fin.attempt - 1
             /\ sent.reproducedAt = fin.since

FinalInv ==
    /\ FinalTypeOK /\ IncumbentIsFixed /\ AttemptsAreBounded /\ BestHasEvidence
    /\ LedgerIsAtStage /\ ReproductionIsRecorded /\ StagesAreOrdered
    /\ SubmissionIsChecked

-----------------------------------------------------------------------------
(***************************************************************************)
(* What the operators of finalize compute.                                 *)
(***************************************************************************)

\* The next attempt is above every attempt that was started.
LEMMA NextAttemptIs ==
    ASSUME started \subseteq Nat, AttemptsAreBounded
    PROVE  NextAttempt \in Nat /\ \A a \in started : NextAttempt > a
<1> DEFINE S == started \cup {0}
<1>1. PICK m \in S : \A a \in S : m >= a
  BY DEF AttemptsAreBounded
<1>2. Max(S) \in S /\ \A a \in S : Max(S) >= a
  BY <1>1 DEF Max
<1>3. S \subseteq Nat /\ started \subseteq S /\ NextAttempt = Max(S) + 1
  BY DEF NextAttempt
<1> HIDE DEF S
<1>4. Max(S) \in Nat
  BY <1>2, <1>3
<1>5. ASSUME NEW a \in started PROVE NextAttempt > a
  <2>1. a \in Nat /\ Max(S) >= a
    BY <1>2, <1>3
  <2> QED
    BY <1>3, <1>4, <2>1
<1> QED
  BY <1>3, <1>4, <1>5

\* candidate_finalization_plan takes the seed of the latest supporting evaluation.
LEMMA PlannedSeedIs ==
    ASSUME history \in Seq(Evaluations), NEW l, LastSupport(l)
    PROVE  PlannedSeed = history[l].seed
<1> DEFINE I == {i \in 1..Len(history) : Supports(history[i])}
<1>1. l \in I /\ (\A i \in I : l >= i) /\ I \subseteq Int
  BY DEF LastSupport
<1>2. Max(I) = l
  <2> HIDE DEF I
  <2>1. Max(I) \in I /\ \A i \in I : Max(I) >= i
    BY <1>1 DEF Max
  <2>2. Max(I) \in Int /\ l \in Int /\ l >= Max(I) /\ Max(I) >= l
    BY <1>1, <2>1
  <2> QED
    BY <2>2
<1>3. SelectLastInSeq(history, Supports) = l
  BY <1>1, <1>2 DEF SelectLastInSeq
<1> QED
  BY <1>3 DEF PlannedSeed

\* A stopped run has the evaluations its candidate was confirmed by.
LEMMA HistoryIs ==
    ASSUME NEW h \in Histories
    PROVE  LET past == HistoryOf(h)
               n == h.c + 1
           IN  /\ past \in Seq(Evaluations) /\ Len(past) = n /\ n \in 2..3
               /\ past[n] = Evaluated(n, h.c, h.t, h.last)
               /\ past[n - 1].commit = h.c /\ past[n - 1].seed = h.s
<1>1. /\ h.c \in {1, 2} /\ h.s \in Seeds /\ h.t \in Seeds /\ h.seed \in Seeds
      /\ h.first \in Scores /\ h.last \in Scores /\ h.before \in Scores
  BY DEF Histories
<1>2. ASSUME NEW a \in Nat, NEW c \in {1, 2}, NEW s \in Seeds, NEW v \in Scores
      PROVE  /\ Evaluated(a, c, s, v) \in Evaluations
             /\ Evaluated(a, c, s, v).commit = c /\ Evaluated(a, c, s, v).seed = s
  BY FinalizationAssumption, BoundsAssumption
     DEF Evaluated, Evaluations, Commits, Trusts
<1> DEFINE e == Evaluated(1, 1, h.seed, h.before)
           f == Evaluated(h.c, h.c, h.s, h.first)
           g == Evaluated(h.c + 1, h.c, h.t, h.last)
<1>3. /\ e \in Evaluations /\ f \in Evaluations /\ g \in Evaluations
      /\ f.commit = h.c /\ f.seed = h.s
  BY <1>1, <1>2
<1>4. HistoryOf(h) = (IF h.c = 2 THEN <<e>> ELSE <<>>) \o <<f, g>>
  BY DEF HistoryOf
<1> HIDE DEF e, f, g
<1>5. CASE h.c = 1
  <2>1. HistoryOf(h) = <<f, g>>
    BY <1>3, <1>4, <1>5, EmptySeq
  <2> QED
    BY <1>3, <1>5, <2>1 DEF g
<1>6. CASE h.c = 2
  <2>1. <<e>> \in Seq(Evaluations) /\ <<f, g>> \in Seq(Evaluations)
    BY <1>3
  <2>2. HistoryOf(h) = <<e>> \o <<f, g>>
    BY <1>4, <1>6
  <2>3. /\ HistoryOf(h) \in Seq(Evaluations) /\ Len(HistoryOf(h)) = 3
        /\ HistoryOf(h)[2] = f /\ HistoryOf(h)[3] = g
    BY <2>1, <2>2, ConcatProperties
  <2> QED
    BY <1>3, <1>6, <2>3 DEF g
<1> QED
  BY <1>1, <1>5, <1>6

-----------------------------------------------------------------------------
(***************************************************************************)
(* A stopped run is a state of the ledger's lifecycle, and finalize has    *)
(* not begun.                                                              *)
(***************************************************************************)
LEMMA CandidateType ==
    ASSUME NEW h \in Histories, WithCandidate(h) PROVE TypeOK
<1> DEFINE past == HistoryOf(h)
           E == {[commit |-> past[i].commit, seed |-> past[i].seed] : i \in 1..Len(past)}
           n == [NewNode("accepted", CHOOSE k \in Keys : TRUE, Baseline)
                   EXCEPT !.commit = h.c, !.eligible = TRUE, !.score = h.last,
                          !.trust = "confirmed", !.fidelity = "full"]
           v == [NewEvidence EXCEPT
                   !.receipt = [commit |-> h.c, accepted |-> TRUE],
                   !.request = [commit |-> h.c, fidelity |-> "full",
                                command |-> "candidate", seed |-> h.t],
                   !.finished = "success", !.output = "accepted",
                   !.outputOf = "candidate", !.evals = E]
<1> USE BoundsAssumption, DomainAssumption, FinalizationAssumption
<1>1. h.c \in Commits /\ h.t \in Seeds /\ h.last \in Scores
  BY DEF Histories, Commits
<1>2. past \in Seq(Evaluations) /\ Len(past) \in 2..3
  BY HistoryIs DEF Histories
<1>7. /\ node = [x \in Exps |->
                   IF x # Candidate
                   THEN NewNode("absent", CHOOSE k \in Keys : TRUE, Baseline) ELSE n]
      /\ evid = [x \in Exps |-> IF x # Candidate THEN NewEvidence ELSE v]
      /\ run = StoppedRun(Len(past))
      /\ best = [exp |-> Candidate, commit |-> h.c, score |-> h.last]
  BY DEF WithCandidate
<1>3. E \in SUBSET [commit : Commits, seed : Seeds \cup {0}]
  <2> HIDE DEF past
  <2>1. \A i \in 1..Len(past) : past[i] \in Evaluations
    BY <1>2
  <2> QED
    BY <2>1 DEF Evaluations
<1> HIDE DEF past, E
<1>4. run \in RunType
  <2>1. Len(past) \in 0..MaxQueries
    <3>1. ASSUME NEW k \in 2..3 PROVE k \in 0..MaxQueries
      OBVIOUS
    <3> QED
      BY <1>2, <3>1
  <2> QED
    BY <1>7, <2>1 DEF StoppedRun, RunType, RunStatuses, Phases, Roles
<1>5. n \in NodeType
  <2> DEFINE m == NewNode("accepted", CHOOSE k \in Keys : TRUE, Baseline)
  <2>1. m \in NodeType
    BY DEF NewNode, NodeType, ExperimentStatuses, Closed, Trusts, Fidelities,
       MaxSameCommitRetries, Commits
  <2> HIDE DEF m
  <2>2. [m EXCEPT !.commit = h.c, !.eligible = TRUE, !.score = h.last] \in NodeType
    BY <1>1, <2>1 DEF NodeType
  <2>3. ASSUME NEW k \in NodeType
        PROVE  [k EXCEPT !.trust = "confirmed", !.fidelity = "full"] \in NodeType
    BY DEF NodeType, Trusts, Fidelities
  <2>4. n = [[m EXCEPT !.commit = h.c, !.eligible = TRUE, !.score = h.last]
                EXCEPT !.trust = "confirmed", !.fidelity = "full"]
    BY DEF m
  <2> QED
    BY <2>2, <2>3, <2>4
<1>6. v \in EvidenceType
  <2>1. NewEvidence \in EvidenceType
    BY DEF NewEvidence, EvidenceType, NoReceipt, NoRequest, Receipts, Commits,
       Fidelities, Commands, Failures, RecoveryActions
  <2>2. ASSUME NEW w \in EvidenceType
        PROVE  [w EXCEPT !.receipt = [commit |-> h.c, accepted |-> TRUE],
                         !.request = [commit |-> h.c, fidelity |-> "full",
                                      command |-> "candidate", seed |-> h.t],
                         !.finished = "success"] \in EvidenceType
    BY <1>1 DEF EvidenceType, Receipts, Fidelities, Commands
  <2>3. ASSUME NEW w \in EvidenceType
        PROVE  [w EXCEPT !.output = "accepted", !.outputOf = "candidate", !.evals = E]
                   \in EvidenceType
    BY <1>3 DEF EvidenceType, Commands
  <2>4. v = [[NewEvidence
                EXCEPT !.receipt = [commit |-> h.c, accepted |-> TRUE],
                       !.request = [commit |-> h.c, fidelity |-> "full",
                                    command |-> "candidate", seed |-> h.t],
                       !.finished = "success"]
                EXCEPT !.output = "accepted", !.outputOf = "candidate", !.evals = E]
    OBVIOUS
  <2> QED
    BY <2>1, <2>2, <2>3, <2>4
<1> HIDE DEF n, v
<1>8. node \in [Exps -> NodeType]
  BY <1>5, <1>7 DEF NewNode, NodeType, ExperimentStatuses, Commits, Trusts, Fidelities,
     MaxSameCommitRetries
<1>9. evid \in [Exps -> EvidenceType]
  BY <1>6, <1>7 DEF NewEvidence, EvidenceType, NoReceipt, NoRequest, Receipts, Commits,
     Fidelities, Commands, Failures, RecoveryActions
<1>10. best \in BestType
  BY <1>1, <1>7 DEF BestType
<1> QED
  BY <1>4, <1>8, <1>9, <1>10 DEF TypeOK

LEMMA BaselineType == WithBaseline => TypeOK
<1> SUFFICES ASSUME WithBaseline PROVE TypeOK
  OBVIOUS
<1> USE BoundsAssumption, DomainAssumption DEF WithBaseline
<1>1. run \in RunType
  BY DEF StoppedRun, RunType, RunStatuses, Phases, Roles
<1>2. node \in [Exps -> NodeType]
  BY DEF NewNode, NodeType, ExperimentStatuses, Commits, Trusts, Fidelities,
     MaxSameCommitRetries
<1>3. evid \in [Exps -> EvidenceType]
  BY DEF NewEvidence, EvidenceType, NoReceipt, NoRequest, Receipts, Commits, Fidelities,
     Commands, Failures, RecoveryActions
<1>4. best \in BestType
  BY DEF BestType, Commits
<1> QED
  BY <1>1, <1>2, <1>3, <1>4 DEF TypeOK

\* The incumbent of a stopped run was confirmed, so the ledger's own invariant holds.
LEMMA StoppedIsSound == FInit => TypeOK /\ IInv
<1> SUFFICES ASSUME FInit PROVE TypeOK /\ IInv
  OBVIOUS
<1>a. ASSUME NEW x \in Exps, node[x].status = "absent", evid[x] = NewEvidence
      PROVE  SoundAt(x)
  BY <1>a DEF SoundAt, HoldsGatedCommit, ConfirmedByTwoSeeds, FinalCommandsAreSealed,
     NewEvidence, NoRequest, PastStart, Recoverable, AtVerdict
<1>1. CASE WithBaseline
  <2>1. \A x \in Exps : node[x].status = "absent" /\ evid[x] = NewEvidence
    BY <1>1 DEF WithBaseline, NewNode
  <2>2. best.exp = Baseline /\ best.exp \notin Exps /\ run.status = "stopped"
    BY <1>1, DomainAssumption DEF WithBaseline, StoppedRun
  <2> QED
    BY <1>1, <1>a, <2>1, <2>2, BaselineType
       DEF IInv, NothingBeforeBaseline, BestIsVerified, BestIsSettled, FinalIsReproduced
<1>2. ASSUME NEW h \in Histories, WithCandidate(h)
      PROVE  TypeOK /\ IInv
  <2> DEFINE past == HistoryOf(h)
  <2>1. Candidate \in Exps
    BY FinalizationAssumption
  <2>2. \A x \in Exps \ {Candidate} : node[x].status = "absent" /\ evid[x] = NewEvidence
    BY <1>2 DEF WithCandidate, NewNode
  <2>3. /\ node[Candidate].status = "accepted" /\ node[Candidate].commit = h.c
        /\ node[Candidate].score = h.last
        /\ evid[Candidate].receipt = [commit |-> h.c, accepted |-> TRUE]
        /\ evid[Candidate].request.command = "candidate"
        /\ evid[Candidate].evals =
               {[commit |-> past[i].commit, seed |-> past[i].seed] : i \in 1..Len(past)}
        /\ best = [exp |-> Candidate, commit |-> h.c, score |-> h.last]
        /\ run.status = "stopped"
    BY <1>2, <2>1 DEF WithCandidate, NewNode, NewEvidence, StoppedRun
  <2>4. TwoSeeds(Candidate, h.c)
    <3>1. /\ past[h.c].commit = h.c /\ past[h.c].seed = h.s
          /\ past[h.c + 1].commit = h.c /\ past[h.c + 1].seed = h.t
          /\ h.c \in {1, 2} /\ Len(past) = h.c + 1
      <4>1. h.c \in {1, 2}
        BY DEF Histories
      <4>2. /\ Len(past) = h.c + 1 /\ past[h.c + 1] = Evaluated(h.c + 1, h.c, h.t, h.last)
            /\ past[(h.c + 1) - 1].commit = h.c /\ past[(h.c + 1) - 1].seed = h.s
        BY HistoryIs
      <4>3. (h.c + 1) - 1 = h.c
        BY <4>1
      <4> HIDE DEF past
      <4> QED
        BY <4>1, <4>2, <4>3 DEF Evaluated
    <3>2. h.s # h.t
      BY DEF Histories
    <3> DEFINE e == [commit |-> past[h.c].commit, seed |-> past[h.c].seed]
               f == [commit |-> past[h.c + 1].commit, seed |-> past[h.c + 1].seed]
    <3> HIDE DEF past
    <3>3. e \in evid[Candidate].evals /\ f \in evid[Candidate].evals
      BY <2>3, <3>1
    <3> QED
      BY <3>1, <3>2, <3>3 DEF TwoSeeds
  <2>5. SoundAt(Candidate)
    BY <2>3, <2>4 DEF SoundAt, HoldsGatedCommit, ConfirmedByTwoSeeds,
       FinalCommandsAreSealed, PastStart, Recoverable, AtVerdict, Gated
  <2>6. \A x \in Exps : SoundAt(x)
    BY <1>a, <2>2, <2>5
  <2> QED
    BY <1>2, <2>1, <2>3, <2>4, <2>6, CandidateType
       DEF IInv, NothingBeforeBaseline, BestIsVerified, BestIsSettled, FinalIsReproduced,
           Gated, Accepting
<1> QED
  BY <1>1, <1>2 DEF FInit

\* And finalize has what it starts from.
LEMMA FinalInit == FInit => FinalInv
<1> SUFFICES ASSUME FInit PROVE FinalInv
  OBVIOUS
<1>i. /\ Idle \in Attempts /\ Idle.pc = "idle" /\ NothingSent \in Sent
      /\ <<>> \in Seq(Outputs) /\ <<>> \in Seq(Evaluations)
  BY EmptySeq DEF Idle, Attempts, NothingSent, Sent, Contents
<1>s. fin = Idle /\ inferred = <<>> /\ sent = NothingSent /\ run.status = "stopped"
  <2>1. \E n : run = StoppedRun(n)
    BY DEF FInit, WithBaseline, WithCandidate
  <2> QED
    BY <2>1 DEF FInit, StoppedRun
<1>p. LedgerIsAtStage /\ ReproductionIsRecorded /\ StagesAreOrdered /\ SubmissionIsChecked
  BY <1>i, <1>s DEF LedgerIsAtStage, ReproductionIsRecorded, StagesAreOrdered,
     SubmissionIsChecked, Stages, Reproducing
<1>1. CASE WithBaseline
  <2>1. history = <<>> /\ started = {} /\ best.exp = Baseline /\ best.exp # Candidate
    BY <1>1, DomainAssumption, FinalizationAssumption DEF WithBaseline
  <2>2. AttemptsAreBounded
    BY <2>1 DEF AttemptsAreBounded
  <2> QED
    BY <1>i, <1>s, <1>p, <2>1, <2>2 DEF FinalInv, FinalTypeOK, IncumbentIsFixed,
       BestHasEvidence, Stages
<1>2. ASSUME NEW h \in Histories, WithCandidate(h)
      PROVE  FinalInv
  <2> DEFINE n == h.c + 1
  <2>1. /\ history \in Seq(Evaluations) /\ Len(history) = n /\ n \in 2..3
        /\ history[n] = Evaluated(n, h.c, h.t, h.last)
        /\ started = 1..n /\ best = [exp |-> Candidate, commit |-> h.c, score |-> h.last]
    BY <1>2, HistoryIs DEF WithCandidate
  <2>2. AttemptsAreBounded
    BY <2>1 DEF AttemptsAreBounded
  <2>3. LastSupport(n) /\ history[n].commit = best.commit
    BY <2>1 DEF LastSupport, Supports, Evaluated, AcceptedVerdicts
  <2>4. best.commit > 0
    BY <2>1 DEF Histories
  <2> QED
    BY <1>i, <1>s, <1>p, <2>1, <2>2, <2>3, <2>4 DEF FinalInv, FinalTypeOK, IncumbentIsFixed,
       BestHasEvidence, Stages
<1> QED
  BY <1>1, <1>2 DEF FInit

-----------------------------------------------------------------------------
(***************************************************************************)
(* What an event of the incumbent's finalization leaves in the ledger.     *)
(***************************************************************************)
FinalCommand(cmd, seed) ==
    cmd \in FinalCommands /\ seed \in Seeds /\ best.exp = Candidate /\ Sealed

\* The ledger admits the run of a final command on the best commit: Gate A
\* accepted it.
LEMMA RunIsAdmitted ==
    ASSUME TypeOK, IInv, NEW cmd, NEW seed, FinalCommand(cmd, seed),
           cmd = "candidate_final_infer" => evid[Candidate].reproductions # {},
           cmd = "submission_check" => evid[Candidate].outputOf = "candidate_final_infer"
    PROVE  CanExecutionStarted(best.exp, FinalRequest(cmd, seed))
<1>1. Candidate \in Exps
  BY FinalizationAssumption
<1>2. evid[Candidate].receipt = [commit |-> best.commit, accepted |-> TRUE]
  BY <1>1 DEF IInv, BestIsVerified, Gated, FinalCommand
<1> QED
  BY <1>2 DEF CanExecutionStarted, FinalRequest, FinalCommand

LEMMA RunStarts ==
    ASSUME TypeOK, NEW cmd, NEW seed, FinalCommand(cmd, seed), best.commit > 0,
           ExecutionStarted(best.exp, FinalRequest(cmd, seed))
    PROVE  /\ Next /\ best' = best /\ run'.status = run.status
           /\ node'[Candidate].status = "running"
           /\ evid'[Candidate].request = FinalRequest(cmd, seed)'
           /\ evid'[Candidate].reproductions = evid[Candidate].reproductions
<1> DEFINE rq == FinalRequest(cmd, seed)
<1>1. Candidate \in Exps /\ 0 \notin Seeds
  BY FinalizationAssumption
<1>2. best' = best /\ run'.status = run.status
  BY DEF ExecutionStarted, MoveTo, TypeOK, RunType
<1>3. rq \in Requests /\ ~(rq.command = "candidate") /\ Sealed
  <2>1. best.commit \in 1..MaxPatches
    BY BoundsAssumption DEF TypeOK, BestType, Commits
  <2> QED
    BY <1>1, <2>1 DEF FinalCommand, FinalRequest, Requests, Fidelities, Commands,
       FinalCommands
<1>4. Next
  <2>1. WorkEvent(Candidate)
    BY <1>3 DEF WorkEvent, FinalCommand
  <2> QED
    BY <1>1, <2>1 DEF Next
<1>5. /\ node'[Candidate].status = "running" /\ evid'[Candidate].request = rq
      /\ evid'[Candidate].reproductions = evid[Candidate].reproductions
  BY <1>1 DEF ExecutionStarted, MoveTo, Recorded, TypeOK, NodeType, EvidenceType,
     FinalCommand
<1>6. rq = FinalRequest(cmd, seed)'
  BY <1>2 DEF FinalRequest
<1> QED
  BY <1>2, <1>4, <1>5, <1>6

LEMMA RunFinishes ==
    ASSUME TypeOK, NEW success \in BOOLEAN, best.exp = Candidate,
           ExecutionFinished(best.exp, success)
    PROVE  /\ Next /\ best' = best /\ run'.status = run.status
           /\ evid'[Candidate].request = evid[Candidate].request
           /\ evid'[Candidate].reproductions = evid[Candidate].reproductions
           /\ success => /\ node'[Candidate].status = "output_ready"
                         /\ evid'[Candidate].finished = "success"
<1>1. Candidate \in Exps
  BY FinalizationAssumption
<1>2. Next
  BY <1>1 DEF Next, WorkEvent
<1> QED
  BY <1>1, <1>2 DEF ExecutionFinished, MoveTo, Recorded, TypeOK, RunType, NodeType,
     EvidenceType

LEMMA OutputPasses ==
    ASSUME TypeOK, NEW accepted \in BOOLEAN, best.exp = Candidate,
           OutputChecked(best.exp, accepted)
    PROVE  /\ Next /\ best' = best /\ run'.status = run.status
           /\ evid'[Candidate].request = evid[Candidate].request
           /\ evid'[Candidate].finished = evid[Candidate].finished
           /\ evid'[Candidate].reproductions = evid[Candidate].reproductions
           /\ accepted =>
                /\ node'[Candidate].status = "output_verified"
                /\ evid'[Candidate].output = "accepted"
                /\ evid'[Candidate].outputOf = evid[Candidate].request.command
<1>1. Candidate \in Exps
  BY FinalizationAssumption
<1>2. Next
  BY <1>1 DEF Next, WorkEvent
<1> QED
  BY <1>1, <1>2 DEF OutputChecked, MoveTo, Recorded, TypeOK, RunType, NodeType,
     EvidenceType

LEMMA ReproductionIsJudged ==
    ASSUME TypeOK, NEW trust \in Trusts, NEW score \in Scores, best.exp = Candidate,
           evid[Candidate].request.fidelity = "full",
           evid[Candidate].request.command = "clean_reproduce",
           EvaluationCompleted(best.exp, trust, score, run.queries + 1)
    PROVE  /\ Next /\ best' = best /\ run'.status = run.status
           /\ trust \in CleanVerdicts =>
                [commit |-> evid[Candidate].request.commit, score |-> score]
                    \in evid'[Candidate].reproductions
<1>1. Candidate \in Exps
  BY FinalizationAssumption
<1>2. run.queries + 1 \in 0..MaxQueries
  BY BoundsAssumption DEF EvaluationCompleted, TypeOK, RunType
<1>3. Next
  BY <1>1, <1>2 DEF Next, JudgeEvent
<1>4. best' = best /\ run'.status = run.status
  BY DEF EvaluationCompleted, TypeOK, RunType
<1>5. ASSUME trust \in CleanVerdicts
      PROVE  [commit |-> evid[Candidate].request.commit, score |-> score]
                 \in evid'[Candidate].reproductions
  BY <1>1, <1>5 DEF EvaluationCompleted, Recorded, TypeOK, EvidenceType
<1> QED
  BY <1>3, <1>4, <1>5

-----------------------------------------------------------------------------
(***************************************************************************)
(* The parts of the invariant, under the changes finalize makes.           *)
(***************************************************************************)

\* A call that gave up knows nothing.
LEMMA NothingIsKnownAtRest ==
    ASSUME fin' = Idle
    PROVE  /\ fin' \in Attempts /\ fin'.pc = "idle" /\ LedgerIsAtStage'
           /\ ReproductionIsRecorded' /\ StagesAreOrdered'
<1>1. Idle \in Attempts /\ Idle.pc = "idle"
  BY DEF Idle, Attempts, Contents
<1> QED
  BY <1>1 DEF LedgerIsAtStage, ReproductionIsRecorded, StagesAreOrdered, Stages,
     Reproducing

\* The evidence of the best stays in the history, and further evaluations of the
\* best commit do not hide it.
LEMMA EvidenceStays ==
    ASSUME BestHasEvidence, best' = best, history' = history
    PROVE  BestHasEvidence'
BY DEF BestHasEvidence, LastSupport, Supports

LEMMA EvidenceGrows ==
    ASSUME BestHasEvidence, best' = best, history \in Seq(Evaluations),
           NEW e \in Evaluations, e.commit = best.commit, history' = Append(history, e)
    PROVE  BestHasEvidence'
<1> SUFFICES ASSUME best.exp = Candidate
             PROVE  \E l \in 1..Len(history') :
                        LastSupport(l)' /\ history'[l].commit = best.commit
  BY DEF BestHasEvidence
<1>n. PICK n \in Nat : n = Len(history)
  BY LenProperties
<1>1. PICK l \in 1..n : LastSupport(l) /\ history[l].commit = best.commit
  BY <1>n DEF BestHasEvidence
<1>2. /\ Len(history') = n + 1 /\ history'[n + 1] = e
      /\ \A i \in 1..n : history'[i] = history[i]
  BY <1>n, AppendProperties
<1>3. CASE Supports(e)
  <2>1. LastSupport(n + 1)'
    BY <1>2, <1>3 DEF LastSupport, Supports
  <2> QED
    BY <1>2, <2>1
<1>4. CASE ~Supports(e)
  <2>1. LastSupport(l)'
    BY <1>n, <1>1, <1>2, <1>4 DEF LastSupport, Supports
  <2> QED
    BY <1>1, <1>2, <2>1
<1> QED
  BY <1>3, <1>4

\* A reproduction this finalize made stays cited.
LEMMA CitationStays ==
    ASSUME CitesReproduction, best' = best, fin'.since = fin.since, history' = history
    PROVE  CitesReproduction'
BY DEF CitesReproduction

-----------------------------------------------------------------------------
(***************************************************************************)
(* Every step of finalize is an admitted event or none, and keeps what     *)
(* finalize knows.                                                         *)
(***************************************************************************)
Incumbent == [commit |-> best.commit, score |-> best.score]

\* What finalize has before it starts one of its commands.
MayStart(cmd, attempt, seed, pred, since) ==
    /\ FinalCommand(cmd, seed)
    /\ attempt \in Nat /\ since \in Nat /\ pred \in Contents
    /\ cmd = "clean_reproduce" => attempt = since
    /\ cmd = "candidate_final_infer" => attempt > since
    /\ cmd = "submission_check" =>
         /\ attempt - 1 > since
         /\ Last(inferred) = [attempt |-> attempt - 1, pred |-> pred]
         /\ evid[Candidate].outputOf = "candidate_final_infer"
    /\ cmd # "clean_reproduce" =>
         /\ since = fin.since /\ CitesReproduction
         /\ Incumbent \in evid[Candidate].reproductions

LEMMA StartKeeps ==
    ASSUME TypeOK, IInv, FinalInv, NEW cmd, NEW attempt, NEW seed, NEW pred, NEW since,
           MayStart(cmd, attempt, seed, pred, since),
           StartFinal(cmd, attempt, seed, pred, since)
    PROVE  [Next]_vars /\ FinalInv'
<1> DEFINE rq == FinalRequest(cmd, seed)
<1>f. FinalCommand(cmd, seed) /\ cmd \in FinalCommands /\ best.exp = Candidate
  BY DEF MayStart, FinalCommand
<1>1. CanExecutionStarted(best.exp, rq)
  BY <1>f, RunIsAdmitted DEF MayStart, FinalCommands
<1>2. /\ ExecutionStarted(best.exp, rq)
      /\ fin' = [pc |-> "run", cmd |-> cmd, attempt |-> attempt,
                 seed |-> seed, pred |-> pred, since |-> since]
      /\ started' = started \cup {attempt} /\ UNCHANGED <<history, inferred, sent>>
  BY <1>1 DEF StartFinal
<1> HIDE DEF rq
<1>3. /\ Next /\ best' = best /\ run'.status = run.status
      /\ node'[Candidate].status = "running"
      /\ evid'[Candidate].request = FinalRequest(cmd, seed)'
      /\ evid'[Candidate].reproductions = evid[Candidate].reproductions
  BY <1>2, <1>f, RunStarts DEF FinalInv, IncumbentIsFixed, rq
<1>4. /\ fin'.pc = "run" /\ fin'.cmd = cmd /\ fin'.attempt = attempt /\ fin'.seed = seed
      /\ fin'.pred = pred /\ fin'.since = since
  BY <1>2
<1>5. FinalTypeOK'
  BY <1>2 DEF FinalInv, FinalTypeOK, MayStart, FinalCommand, Attempts, Stages
<1>6. IncumbentIsFixed' /\ SubmissionIsChecked'
  BY <1>3, <1>4, <1>f DEF FinalInv, IncumbentIsFixed, SubmissionIsChecked, FinalCommand,
     Stages, Sealed
<1>7. AttemptsAreBounded'
  <2>1. PICK m \in started \cup {0} : \A a \in started \cup {0} : m >= a
    BY DEF FinalInv, AttemptsAreBounded
  <2>2. attempt \in Nat /\ started \subseteq Nat /\ started' = started \cup {attempt}
    BY <1>2 DEF MayStart, FinalInv, FinalTypeOK
  <2>3. CASE m >= attempt
    BY <2>1, <2>2, <2>3 DEF AttemptsAreBounded
  <2>4. CASE attempt > m
    <3>1. \A a \in started' \cup {0} : attempt >= a
      BY <2>1, <2>2, <2>4
    <3> QED
      BY <2>2, <3>1 DEF AttemptsAreBounded
  <2> QED
    BY <2>1, <2>2, <2>3, <2>4
<1>8. BestHasEvidence'
  BY <1>2, <1>3, EvidenceStays DEF FinalInv
<1>9. LedgerIsAtStage'
  BY <1>3, <1>4, <1>f DEF LedgerIsAtStage, FinalCommand, Stages
<1>10. ReproductionIsRecorded'
  BY <1>2, <1>3, <1>4, CitationStays DEF ReproductionIsRecorded, Reproducing, MayStart,
     Incumbent
<1>11. StagesAreOrdered'
  BY <1>2, <1>4 DEF StagesAreOrdered, MayStart
<1> QED
  BY <1>3, <1>5, <1>6, <1>7, <1>8, <1>9, <1>10, <1>11 DEF FinalInv

\* A new finalize reproduces the incumbent on the seed of its evidence.
LEMMA FinalizeKeeps ==
    ASSUME TypeOK, IInv, FinalInv, Finalize PROVE [Next]_vars /\ FinalInv'
<1>1. NextAttempt \in Nat
  BY NextAttemptIs DEF FinalInv, FinalTypeOK
<1>2. PlannedSeed \in Seeds
  <2>1. PICK l \in 1..Len(history) : LastSupport(l)
    BY DEF FinalInv, BestHasEvidence, Finalize
  <2>2. history[l] \in Evaluations /\ PlannedSeed = history[l].seed
    BY <2>1, PlannedSeedIs DEF FinalInv, FinalTypeOK
  <2> QED
    BY <2>2 DEF Evaluations
<1>3. MayStart("clean_reproduce", NextAttempt, PlannedSeed, NoPrediction, NextAttempt)
  BY <1>1, <1>2 DEF MayStart, FinalCommand, FinalCommands, Finalize, Sealed, Contents
<1> QED
  BY <1>3, StartKeeps DEF Finalize

\* Inference follows the reproduction.
LEMMA StartInferenceKeeps ==
    ASSUME TypeOK, IInv, FinalInv, StartInference PROVE [Next]_vars /\ FinalInv'
<1>1. fin.pc = "infer" /\ fin \in Attempts
  BY DEF StartInference, FinalInv, FinalTypeOK
<1>2. fin.attempt = fin.since /\ FinalCommand("candidate_final_infer", fin.seed)
  BY <1>1 DEF FinalInv, StagesAreOrdered, LedgerIsAtStage, IncumbentIsFixed, FinalCommand,
     FinalCommands, Sealed, Stages
<1>3. CitesReproduction /\ Incumbent \in evid[Candidate].reproductions
  BY <1>1, <1>2 DEF FinalInv, ReproductionIsRecorded, Reproducing, Incumbent, FinalCommand
<1>4. MayStart("candidate_final_infer", fin.attempt + 1, fin.seed, NoPrediction, fin.since)
  BY <1>1, <1>2, <1>3 DEF MayStart, Attempts, Contents
<1> QED
  BY <1>4, StartKeeps DEF StartInference

\* The check follows the inference and reads its output.
LEMMA StartSubmissionCheckKeeps ==
    ASSUME TypeOK, IInv, FinalInv, StartSubmissionCheck PROVE [Next]_vars /\ FinalInv'
<1>1. fin.pc = "check" /\ fin \in Attempts
  BY DEF StartSubmissionCheck, FinalInv, FinalTypeOK
<1>2. /\ fin.attempt > fin.since /\ FinalCommand("submission_check", fin.seed)
      /\ Last(inferred) = [attempt |-> fin.attempt, pred |-> fin.pred]
      /\ evid[Candidate].outputOf = "candidate_final_infer"
  BY <1>1 DEF FinalInv, StagesAreOrdered, LedgerIsAtStage, IncumbentIsFixed, FinalCommand,
     FinalCommands, Sealed, Stages
<1>3. CitesReproduction /\ Incumbent \in evid[Candidate].reproductions
  BY <1>1, <1>2 DEF FinalInv, ReproductionIsRecorded, Reproducing, Incumbent, FinalCommand
<1>4. fin.attempt \in Nat /\ fin.since \in Nat /\ fin.pred \in Contents
  BY <1>1 DEF Attempts
<1>5. fin.attempt + 1 \in Nat /\ (fin.attempt + 1) - 1 = fin.attempt
  BY <1>4
<1>6. MayStart("submission_check", fin.attempt + 1, fin.seed, fin.pred, fin.since)
  BY <1>2, <1>3, <1>4, <1>5 DEF MayStart
<1> QED
  BY <1>6, StartKeeps DEF StartSubmissionCheck

\* What a step between two stages leaves alone.
LEMMA StillStopped ==
    ASSUME FinalInv, best' = best, run'.status = run.status, fin.pc \in Stages,
           fin'.pc \in Stages \cup {"idle"}, started' = started
    PROVE  /\ IncumbentIsFixed' /\ SubmissionIsChecked' /\ AttemptsAreBounded'
           /\ best.exp = Candidate /\ run.status = "stopped"
<1>1. best.exp = Candidate /\ run.status = "stopped"
  BY DEF FinalInv, IncumbentIsFixed
<1>2. IncumbentIsFixed' /\ SubmissionIsChecked'
  BY <1>1 DEF FinalInv, IncumbentIsFixed, SubmissionIsChecked, Stages
<1>3. AttemptsAreBounded'
  BY DEF FinalInv, AttemptsAreBounded
<1> QED
  BY <1>1, <1>2, <1>3

\* What finalize is doing, by its stage.
LEMMA StageIs ==
    ASSUME FinalInv, fin.pc \in Stages
    PROVE  /\ best.exp = Candidate /\ run.status = "stopped" /\ fin \in Attempts
           /\ fin.cmd \in FinalCommands /\ fin.seed \in Seeds
           /\ history \in Seq(Evaluations) /\ inferred \in Seq(Outputs) /\ sent \in Sent
           /\ started \subseteq Nat
BY DEF FinalInv, IncumbentIsFixed, FinalTypeOK, LedgerIsAtStage

LEMMA RunReturnsKeeps ==
    ASSUME TypeOK, IInv, FinalInv, NEW success \in BOOLEAN, NEW p \in Contents,
           RunReturns(success, p)
    PROVE  [Next]_vars /\ FinalInv'
<1>1. /\ fin.pc = "run" /\ ExecutionFinished(best.exp, success)
      /\ UNCHANGED <<history, started, inferred>>
  BY DEF RunReturns
<1>2. /\ best.exp = Candidate /\ fin \in Attempts /\ sent \in Sent
      /\ fin.cmd \in FinalCommands
  BY <1>1, StageIs DEF Stages
<1>3. /\ Next /\ best' = best /\ run'.status = run.status
      /\ evid'[Candidate].request = evid[Candidate].request
      /\ evid'[Candidate].reproductions = evid[Candidate].reproductions
      /\ success => /\ node'[Candidate].status = "output_ready"
                    /\ evid'[Candidate].finished = "success"
  BY <1>1, <1>2, RunFinishes
<1>4. sent' \in Sent
  BY <1>2 DEF RunReturns, Sent, Contents
<1>5. BestHasEvidence'
  BY <1>1, <1>3, EvidenceStays DEF FinalInv
<1>6. CASE ~success
  <2>1. fin' = Idle
    BY <1>6 DEF RunReturns, Fails
  <2>2. IncumbentIsFixed' /\ SubmissionIsChecked' /\ AttemptsAreBounded'
    BY <1>1, <1>3, <2>1, NothingIsKnownAtRest, StillStopped DEF Stages
  <2>3. FinalTypeOK'
    BY <1>1, <1>4, <2>1, NothingIsKnownAtRest DEF FinalInv, FinalTypeOK
  <2> QED
    BY <1>3, <1>5, <2>1, <2>2, <2>3, NothingIsKnownAtRest DEF FinalInv
<1>7. CASE success
  <2>1. PICK s \in {"compare", "gate"} :
            /\ fin' = [fin EXCEPT !.pc = s]
            /\ s = "compare" <=> fin.cmd = "submission_check"
    BY <1>7 DEF RunReturns
  <2>2. /\ fin' \in Attempts /\ fin'.pc = s /\ fin'.cmd = fin.cmd /\ fin'.seed = fin.seed
        /\ fin'.attempt = fin.attempt /\ fin'.since = fin.since /\ fin'.pred = fin.pred
    BY <1>2, <2>1 DEF Attempts, Stages
  <2>3. IncumbentIsFixed' /\ SubmissionIsChecked' /\ AttemptsAreBounded'
    BY <1>1, <1>3, <2>2, StillStopped DEF Stages
  <2>4. FinalTypeOK'
    BY <1>1, <1>4, <2>2 DEF FinalInv, FinalTypeOK
  <2>5. LedgerIsAtStage'
    <3>1. FinalRequest(fin.cmd, fin.seed)' = FinalRequest(fin.cmd, fin.seed)
      BY <1>3, <2>2 DEF FinalRequest
    <3> QED
      BY <1>1, <1>2, <1>3, <1>7, <2>1, <2>2, <3>1 DEF FinalInv, LedgerIsAtStage, Stages
  <2>6. ReproductionIsRecorded'
    BY <1>1, <1>2, <1>3, <2>1, <2>2, CitationStays
       DEF FinalInv, ReproductionIsRecorded, Reproducing
  <2>7. StagesAreOrdered'
    BY <1>1, <1>2, <2>1, <2>2 DEF FinalInv, StagesAreOrdered
  <2> QED
    BY <1>3, <1>5, <2>3, <2>4, <2>5, <2>6, <2>7 DEF FinalInv
<1> QED
  BY <1>6, <1>7

LEMMA ReproductionCheckedKeeps ==
    ASSUME TypeOK, IInv, FinalInv, NEW accepted \in BOOLEAN, ReproductionChecked(accepted)
    PROVE  [Next]_vars /\ FinalInv'
<1>1. /\ fin.pc = "gate" /\ fin.cmd = "clean_reproduce"
      /\ OutputChecked(best.exp, accepted)
      /\ UNCHANGED <<history, started, inferred, sent>>
  BY DEF ReproductionChecked, notes
<1>2. best.exp = Candidate /\ fin \in Attempts
  BY <1>1, StageIs DEF Stages
<1>3. /\ Next /\ best' = best /\ run'.status = run.status
      /\ evid'[Candidate].request = evid[Candidate].request
      /\ evid'[Candidate].finished = evid[Candidate].finished
      /\ accepted => /\ node'[Candidate].status = "output_verified"
                     /\ evid'[Candidate].output = "accepted"
  BY <1>1, <1>2, OutputPasses
<1>4. BestHasEvidence'
  BY <1>1, <1>3, EvidenceStays DEF FinalInv
<1>5. CASE ~accepted
  <2>1. fin' = Idle
    BY <1>5 DEF ReproductionChecked, Fails
  <2>2. IncumbentIsFixed' /\ SubmissionIsChecked' /\ AttemptsAreBounded'
    BY <1>1, <1>3, <2>1, NothingIsKnownAtRest, StillStopped DEF Stages
  <2>3. FinalTypeOK'
    BY <1>1, <2>1, NothingIsKnownAtRest DEF FinalInv, FinalTypeOK
  <2> QED
    BY <1>3, <1>4, <2>1, <2>2, <2>3, NothingIsKnownAtRest DEF FinalInv
<1>6. CASE accepted
  <2>1. fin' = [fin EXCEPT !.pc = "judge"]
    BY <1>6 DEF ReproductionChecked
  <2>2. /\ fin' \in Attempts /\ fin'.pc = "judge" /\ fin'.cmd = fin.cmd
        /\ fin'.seed = fin.seed /\ fin'.attempt = fin.attempt /\ fin'.since = fin.since
    BY <1>2, <2>1 DEF Attempts, Stages
  <2>3. IncumbentIsFixed' /\ SubmissionIsChecked' /\ AttemptsAreBounded'
    BY <1>1, <1>3, <2>2, StillStopped DEF Stages
  <2>4. FinalTypeOK'
    BY <1>1, <2>2 DEF FinalInv, FinalTypeOK
  <2>5. LedgerIsAtStage'
    <3>1. FinalRequest(fin.cmd, fin.seed)' = FinalRequest(fin.cmd, fin.seed)
      BY <1>3, <2>2 DEF FinalRequest
    <3> QED
      BY <1>1, <1>3, <1>6, <2>2, <3>1 DEF FinalInv, LedgerIsAtStage, Stages
  <2>6. ReproductionIsRecorded' /\ StagesAreOrdered'
    BY <1>1, <1>2, <2>2 DEF FinalInv, ReproductionIsRecorded, StagesAreOrdered, Reproducing
  <2> QED
    BY <1>3, <1>4, <2>3, <2>4, <2>5, <2>6 DEF FinalInv
<1> QED
  BY <1>5, <1>6

\* An accepted output is the last one inferred.
LEMMA InferenceCheckedKeeps ==
    ASSUME TypeOK, IInv, FinalInv, NEW accepted \in BOOLEAN, NEW p \in Predictions,
           InferenceChecked(accepted, p)
    PROVE  [Next]_vars /\ FinalInv'
<1>1. /\ fin.pc = "gate" /\ fin.cmd = "candidate_final_infer"
      /\ OutputChecked(best.exp, accepted)
      /\ UNCHANGED <<history, started, sent>>
  BY DEF InferenceChecked
<1>2. best.exp = Candidate /\ fin \in Attempts /\ inferred \in Seq(Outputs)
  BY <1>1, StageIs DEF Stages
<1>3. /\ Next /\ best' = best /\ run'.status = run.status
      /\ evid'[Candidate].reproductions = evid[Candidate].reproductions
      /\ accepted => evid'[Candidate].outputOf = evid[Candidate].request.command
  BY <1>1, <1>2, OutputPasses
<1>4. BestHasEvidence'
  BY <1>1, <1>3, EvidenceStays DEF FinalInv
<1>5. CASE ~accepted
  <2>1. fin' = Idle /\ inferred' = inferred
    BY <1>5 DEF InferenceChecked, Fails
  <2>2. IncumbentIsFixed' /\ SubmissionIsChecked' /\ AttemptsAreBounded'
    BY <1>1, <1>3, <2>1, NothingIsKnownAtRest, StillStopped DEF Stages
  <2>3. FinalTypeOK'
    BY <1>1, <2>1, NothingIsKnownAtRest DEF FinalInv, FinalTypeOK
  <2> QED
    BY <1>3, <1>4, <2>1, <2>2, <2>3, NothingIsKnownAtRest DEF FinalInv
<1>6. CASE accepted
  <2> DEFINE o == [attempt |-> fin.attempt, pred |-> p]
  <2>1. /\ fin' = [fin EXCEPT !.pc = "check", !.pred = p]
        /\ inferred' = Append(inferred, o)
    BY <1>6 DEF InferenceChecked
  <2>2. /\ fin' \in Attempts /\ fin'.pc = "check" /\ fin'.cmd = fin.cmd
        /\ fin'.seed = fin.seed /\ fin'.attempt = fin.attempt /\ fin'.since = fin.since
        /\ fin'.pred = p
    BY <1>2, <2>1 DEF Attempts, Stages, Contents
  <2>3. inferred' \in Seq(Outputs) /\ Last(inferred') = o
    <3>1. o \in Outputs
      BY <1>2 DEF Outputs, Attempts, Contents
    <3> HIDE DEF o
    <3> QED
      BY <1>2, <2>1, <3>1, AppendProperties DEF Last
  <2>4. IncumbentIsFixed' /\ SubmissionIsChecked' /\ AttemptsAreBounded'
    BY <1>1, <1>3, <2>2, StillStopped DEF Stages
  <2>5. FinalTypeOK'
    BY <1>1, <2>2, <2>3 DEF FinalInv, FinalTypeOK
  <2>6. LedgerIsAtStage'
    <3>1. evid[Candidate].request.command = "candidate_final_infer"
      BY <1>1 DEF FinalInv, LedgerIsAtStage, FinalRequest
    <3> QED
      BY <1>1, <1>3, <1>6, <2>2, <3>1 DEF FinalInv, LedgerIsAtStage, Stages
  <2>7. ReproductionIsRecorded'
    BY <1>1, <1>2, <1>3, <2>2, CitationStays DEF FinalInv, ReproductionIsRecorded,
       Reproducing
  <2>8. StagesAreOrdered'
    BY <1>1, <1>2, <2>2, <2>3 DEF FinalInv, StagesAreOrdered
  <2> QED
    BY <1>3, <1>4, <2>4, <2>5, <2>6, <2>7, <2>8 DEF FinalInv
<1> QED
  BY <1>5, <1>6

\* An exact, clean reproduction is in the ledger before inference starts.
LEMMA ReproductionEvaluatedKeeps ==
    ASSUME TypeOK, IInv, FinalInv, NEW trust \in Trusts \ {"confirmed"},
           NEW score \in Scores, ReproductionEvaluated(trust, score)
    PROVE  [Next]_vars /\ FinalInv'
<1>1. fin.pc = "judge" /\ UNCHANGED <<started, inferred, sent>>
  BY DEF ReproductionEvaluated
<1>2. /\ best.exp = Candidate /\ run.status = "stopped" /\ fin \in Attempts
      /\ fin.seed \in Seeds /\ history \in Seq(Evaluations)
  BY <1>1, StageIs DEF Stages
<1>3. /\ fin.cmd = "clean_reproduce" /\ fin.attempt = fin.since
      /\ evid[Candidate].request = FinalRequest("clean_reproduce", fin.seed)
  BY <1>1, <1>2 DEF FinalInv, LedgerIsAtStage, StagesAreOrdered
<1>4. CanEvaluationCompleted(best.exp, trust, run.queries + 1)
  BY <1>1, <1>2, <1>3 DEF FinalInv, LedgerIsAtStage, CanEvaluationCompleted, FinalRequest,
     Sealed
<1> DEFINE e == [Evaluated(fin.attempt, best.commit, fin.seed, score)
                   EXCEPT !.trust = trust]
<1>5. /\ EvaluationCompleted(best.exp, trust, score, run.queries + 1)
      /\ history' = Append(history, e)
      /\ IF Reproduced(trust, score) THEN fin' = [fin EXCEPT !.pc = "infer"]
                                     ELSE fin' = Idle
  BY <1>4 DEF ReproductionEvaluated, Fails
<1>6. /\ e = [attempt |-> fin.attempt, commit |-> best.commit, seed |-> fin.seed,
              score |-> score, trust |-> trust]
      /\ e \in Evaluations
  BY <1>2 DEF Evaluated, Evaluations, Attempts, TypeOK, BestType
<1>7. /\ Next /\ best' = best /\ run'.status = run.status
      /\ trust \in CleanVerdicts =>
           [commit |-> best.commit, score |-> score] \in evid'[Candidate].reproductions
  BY <1>2, <1>3, <1>5, ReproductionIsJudged DEF FinalRequest
<1> HIDE DEF e
<1>8. BestHasEvidence' /\ history' \in Seq(Evaluations)
  <2>1. e.commit = best.commit
    BY <1>6
  <2> QED
    BY <1>2, <1>5, <1>6, <1>7, <2>1, EvidenceGrows, AppendProperties DEF FinalInv
<1>9. CASE ~Reproduced(trust, score)
  <2>1. fin' = Idle
    BY <1>5, <1>9
  <2>2. IncumbentIsFixed' /\ SubmissionIsChecked' /\ AttemptsAreBounded'
    BY <1>1, <1>7, <2>1, NothingIsKnownAtRest, StillStopped DEF Stages
  <2>3. FinalTypeOK'
    BY <1>1, <1>8, <2>1, NothingIsKnownAtRest DEF FinalInv, FinalTypeOK
  <2> QED
    BY <1>7, <1>8, <2>1, <2>2, <2>3, NothingIsKnownAtRest DEF FinalInv
<1>10. CASE Reproduced(trust, score)
  <2>1. fin' = [fin EXCEPT !.pc = "infer"]
    BY <1>5, <1>10
  <2>2. /\ fin' \in Attempts /\ fin'.pc = "infer" /\ fin'.cmd = fin.cmd
        /\ fin'.seed = fin.seed /\ fin'.attempt = fin.attempt /\ fin'.since = fin.since
    BY <1>2, <2>1 DEF Attempts, Stages
  <2>3. IncumbentIsFixed' /\ SubmissionIsChecked' /\ AttemptsAreBounded'
    BY <1>1, <1>7, <2>2, StillStopped DEF Stages
  <2>4. FinalTypeOK'
    BY <1>1, <1>8, <2>2 DEF FinalInv, FinalTypeOK
  <2>5. LedgerIsAtStage' /\ StagesAreOrdered'
    BY <1>1, <1>2, <1>3, <2>2 DEF FinalInv, LedgerIsAtStage, StagesAreOrdered, Stages,
       FinalCommands
  <2>6. CitesReproduction'
    <3>1. PICK n \in Nat : n = Len(history)
      BY <1>2, LenProperties
    <3>2. /\ n + 1 \in DOMAIN history' /\ history'[n + 1] = e
      BY <1>2, <1>5, <1>6, <1>8, <3>1, AppendProperties, LenProperties
    <3> QED
      BY <1>3, <1>6, <1>7, <1>10, <2>2, <3>2 DEF CitesReproduction, Reproduced
  <2>7. ReproductionIsRecorded'
    BY <1>7, <1>10, <2>6 DEF ReproductionIsRecorded, Reproduced
  <2> QED
    BY <1>7, <1>8, <2>3, <2>4, <2>5, <2>7 DEF FinalInv
<1> QED
  BY <1>9, <1>10

\* final.selected cites this finalize's reproduction and is never refused.
LEMMA SelectKeeps ==
    ASSUME TypeOK, IInv, FinalInv, Select PROVE [Next]_vars /\ FinalInv'
<1>1. fin.pc = "compare" /\ UNCHANGED <<history, started, inferred>>
  BY DEF Select
<1>2. /\ best.exp = Candidate /\ run.status = "stopped" /\ fin \in Attempts
      /\ sent \in Sent
  BY <1>1, StageIs DEF Stages
<1>3. /\ fin.cmd = "submission_check" /\ CitesReproduction
      /\ Incumbent \in evid[Candidate].reproductions
      /\ fin.attempt - 1 > fin.since
      /\ Last(inferred) = [attempt |-> fin.attempt - 1, pred |-> fin.pred]
  BY <1>1, <1>2 DEF FinalInv, LedgerIsAtStage, ReproductionIsRecorded, StagesAreOrdered,
     Reproducing, Incumbent
<1>4. CASE ~ConsumedFinalPrediction
  <2>1. fin' = Idle /\ UNCHANGED <<ledger, sent>>
    BY <1>4 DEF Select, Fails
  <2>2. best' = best /\ run' = run /\ UNCHANGED vars
    BY <2>1 DEF ledger, vars
  <2>3. IncumbentIsFixed' /\ SubmissionIsChecked' /\ AttemptsAreBounded'
    BY <1>1, <2>1, <2>2, NothingIsKnownAtRest, StillStopped DEF Stages
  <2>4. FinalTypeOK' /\ BestHasEvidence'
    BY <1>1, <2>1, <2>2, NothingIsKnownAtRest, EvidenceStays DEF FinalInv, FinalTypeOK
  <2> QED
    BY <2>1, <2>2, <2>3, <2>4, NothingIsKnownAtRest DEF FinalInv
<1>5. CASE ConsumedFinalPrediction
  <2>1. CanFinalSelected
    BY <1>2, <1>3, FinalizationAssumption DEF CanFinalSelected, Incumbent, Sealed
  <2>2. /\ FinalSelected /\ fin' = [fin EXCEPT !.pc = "submit"]
        /\ sent' = [sent EXCEPT !.inferredAt = fin.attempt - 1,
                                !.reproducedAt = fin.since]
    BY <1>3, <1>5, <2>1 DEF Select
  <2>3. Next /\ run'.status = "finalizing" /\ UNCHANGED <<node, evid, best>>
    BY <2>2 DEF FinalSelected, Next, RunEvent, TypeOK, RunType
  <2>4. /\ fin' \in Attempts /\ fin'.pc = "submit" /\ fin'.cmd = fin.cmd
        /\ fin'.seed = fin.seed /\ fin'.attempt = fin.attempt /\ fin'.since = fin.since
        /\ fin'.pred = fin.pred
    BY <1>2, <2>2 DEF Attempts, Stages
  <2>5. /\ fin.attempt \in Nat /\ fin.since \in Nat /\ fin.attempt - 1 \in Nat
    BY <1>2, <1>3 DEF Attempts
  <2>6. /\ sent' \in Sent /\ sent'.inferredAt = fin.attempt - 1
        /\ sent'.reproducedAt = fin.since /\ sent'.checked = fin.pred
    BY <1>2, <1>5, <2>2, <2>5 DEF Sent, ConsumedFinalPrediction
  <2>7. FinalTypeOK' /\ BestHasEvidence' /\ AttemptsAreBounded'
    BY <1>1, <2>3, <2>4, <2>6, EvidenceStays DEF FinalInv, FinalTypeOK, AttemptsAreBounded
  <2>8. IncumbentIsFixed' /\ SubmissionIsChecked'
    BY <1>2, <2>3, <2>4 DEF FinalInv, IncumbentIsFixed, SubmissionIsChecked, Stages
  <2>9. LedgerIsAtStage'
    BY <1>3, <2>4 DEF LedgerIsAtStage, Stages
  <2>10. ReproductionIsRecorded' /\ StagesAreOrdered'
    BY <1>1, <1>3, <2>3, <2>4, <2>6, CitationStays DEF ReproductionIsRecorded,
       StagesAreOrdered, Incumbent
  <2> QED
    BY <2>3, <2>7, <2>8, <2>9, <2>10 DEF FinalInv
<1> QED
  BY <1>4, <1>5

\* The baseline is selected without a run of its own.
LEMMA SelectBaselineKeeps ==
    ASSUME TypeOK, IInv, FinalInv, SelectBaseline PROVE [Next]_vars /\ FinalInv'
<1>1. /\ fin.pc = "idle" /\ run.status = "stopped" /\ best.exp = Baseline
      /\ UNCHANGED <<history, started, inferred, sent>>
  BY DEF SelectBaseline, notes
<1>2. best.exp # Candidate /\ fin \in Attempts
  BY <1>1, DomainAssumption, FinalizationAssumption DEF FinalInv, FinalTypeOK
<1>3. CASE FinalSelected /\ fin' = [fin EXCEPT !.pc = "submit"]
  <2>1. Next /\ run'.status = "finalizing" /\ UNCHANGED <<node, evid, best>>
    BY <1>3 DEF FinalSelected, Next, RunEvent, TypeOK, RunType
  <2>2. fin' \in Attempts /\ fin'.pc = "submit"
    BY <1>2, <1>3 DEF Attempts, Stages
  <2>3. FinalTypeOK' /\ AttemptsAreBounded'
    BY <1>1, <2>2 DEF FinalInv, FinalTypeOK, AttemptsAreBounded
  <2>4. /\ IncumbentIsFixed' /\ BestHasEvidence' /\ LedgerIsAtStage'
        /\ ReproductionIsRecorded' /\ StagesAreOrdered' /\ SubmissionIsChecked'
    BY <1>1, <1>2, <2>1, <2>2 DEF FinalInv, IncumbentIsFixed, BestHasEvidence,
       LedgerIsAtStage, ReproductionIsRecorded, StagesAreOrdered, SubmissionIsChecked, Stages
  <2> QED
    BY <2>1, <2>3, <2>4 DEF FinalInv
<1>4. CASE Fails /\ UNCHANGED ledger
  <2>1. fin' = Idle /\ UNCHANGED <<run, node, evid, best>>
    BY <1>4 DEF Fails, ledger
  <2>2. FinalTypeOK' /\ AttemptsAreBounded' /\ BestHasEvidence'
    BY <1>1, <2>1, NothingIsKnownAtRest, EvidenceStays DEF FinalInv, FinalTypeOK,
       AttemptsAreBounded
  <2>3. IncumbentIsFixed' /\ SubmissionIsChecked'
    BY <1>1, <1>2, <2>1, NothingIsKnownAtRest DEF FinalInv, IncumbentIsFixed,
       SubmissionIsChecked, Stages
  <2> QED
    BY <2>1, <2>2, <2>3, NothingIsKnownAtRest DEF FinalInv, vars
<1> QED
  BY <1>3, <1>4 DEF SelectBaseline

\* What is submitted is what the check read.
LEMMA SubmitKeeps ==
    ASSUME TypeOK, IInv, FinalInv, Submit PROVE [Next]_vars /\ FinalInv'
<1>1. /\ fin.pc = "submit" /\ SubmissionChecked(TRUE) /\ fin' = Idle
      /\ sent' = [sent EXCEPT !.pred = fin.pred]
      /\ UNCHANGED <<history, started, inferred, faults>>
  BY DEF Submit
<1>2. fin \in Attempts /\ sent \in Sent
  BY DEF FinalInv, FinalTypeOK
<1>3. Next /\ run'.status = "finalized" /\ UNCHANGED <<node, evid, best>>
  BY <1>1 DEF SubmissionChecked, Next, RunEvent, TypeOK, RunType
<1>4. /\ sent' \in Sent /\ sent'.pred = fin.pred /\ sent'.checked = sent.checked
      /\ sent'.inferredAt = sent.inferredAt /\ sent'.reproducedAt = sent.reproducedAt
  BY <1>1, <1>2 DEF Sent, Attempts
<1>5. FinalTypeOK' /\ AttemptsAreBounded' /\ BestHasEvidence'
  BY <1>1, <1>3, <1>4, NothingIsKnownAtRest, EvidenceStays DEF FinalInv, FinalTypeOK,
     AttemptsAreBounded
<1>6. IncumbentIsFixed'
  BY <1>1, <1>3, NothingIsKnownAtRest DEF FinalInv, IncumbentIsFixed, Stages
<1>7. SubmissionIsChecked'
  <2> SUFFICES ASSUME best.exp = Candidate PROVE SubmissionIsChecked'
    BY <1>3 DEF SubmissionIsChecked
  <2>1. /\ fin.cmd = "submission_check" /\ CitesReproduction
        /\ fin.attempt - 1 > fin.since
        /\ Last(inferred) = [attempt |-> fin.attempt - 1, pred |-> fin.pred]
        /\ sent.checked = fin.pred /\ sent.inferredAt = fin.attempt - 1
        /\ sent.reproducedAt = fin.since
    BY <1>1 DEF FinalInv, LedgerIsAtStage, ReproductionIsRecorded, StagesAreOrdered,
       Reproducing
  <2> QED
    BY <1>1, <1>3, <1>4, <2>1 DEF SubmissionIsChecked, CitesReproduction
<1> QED
  BY <1>1, <1>3, <1>5, <1>6, <1>7, NothingIsKnownAtRest DEF FinalInv

\* A crash forgets, and the ledger remembers.
LEMMA InterruptedKeeps ==
    ASSUME TypeOK, IInv, FinalInv, Interrupted PROVE [Next]_vars /\ FinalInv'
<1>1. /\ fin.pc # "idle" /\ fin' = Idle /\ UNCHANGED <<run, node, evid, best>>
      /\ UNCHANGED <<history, started, inferred, sent>>
  BY DEF Interrupted, Fails, ledger, notes
<1>2. run.status # "finalized"
  BY <1>1 DEF FinalInv, FinalTypeOK, IncumbentIsFixed, Attempts
<1>3. FinalTypeOK' /\ AttemptsAreBounded' /\ BestHasEvidence'
  BY <1>1, NothingIsKnownAtRest, EvidenceStays DEF FinalInv, FinalTypeOK,
     AttemptsAreBounded
<1>4. IncumbentIsFixed' /\ SubmissionIsChecked'
  BY <1>1, <1>2, NothingIsKnownAtRest DEF FinalInv, IncumbentIsFixed, SubmissionIsChecked,
     Stages
<1> QED
  BY <1>1, <1>3, <1>4, NothingIsKnownAtRest DEF FinalInv, vars

LEMMA FinalStep ==
    ASSUME TypeOK, IInv, FinalInv, [FNext]_fvars PROVE [Next]_vars /\ FinalInv'
<1>1. CASE Step
  <2>1. CASE Finalize
    BY <2>1, FinalizeKeeps
  <2>2. CASE SelectBaseline
    BY <2>2, SelectBaselineKeeps
  <2>3. ASSUME NEW success \in BOOLEAN, NEW p \in Contents, RunReturns(success, p)
        PROVE  [Next]_vars /\ FinalInv'
    BY <2>3, RunReturnsKeeps
  <2>4. ASSUME NEW accepted \in BOOLEAN, ReproductionChecked(accepted)
        PROVE  [Next]_vars /\ FinalInv'
    BY <2>4, ReproductionCheckedKeeps
  <2>5. ASSUME NEW accepted \in BOOLEAN, NEW p \in Predictions,
               InferenceChecked(accepted, p)
        PROVE  [Next]_vars /\ FinalInv'
    BY <2>5, InferenceCheckedKeeps
  <2>6. ASSUME NEW trust \in Trusts \ {"confirmed"}, NEW score \in Scores,
               ReproductionEvaluated(trust, score)
        PROVE  [Next]_vars /\ FinalInv'
    BY <2>6, ReproductionEvaluatedKeeps
  <2>7. CASE StartInference
    BY <2>7, StartInferenceKeeps
  <2>8. CASE StartSubmissionCheck
    BY <2>8, StartSubmissionCheckKeeps
  <2>9. CASE Select
    BY <2>9, SelectKeeps
  <2>10. CASE Submit
    BY <2>10, SubmitKeeps
  <2> QED
    BY <1>1, <2>1, <2>2, <2>3, <2>4, <2>5, <2>6, <2>7, <2>8, <2>9, <2>10 DEF Step, Contents
<1>2. CASE Interrupted
  BY <1>2, InterruptedKeeps
<1>3. CASE UNCHANGED fvars
  <2>1. UNCHANGED <<run, node, evid, best, fin, history, started, inferred, sent>>
    BY <1>3 DEF fvars
  <2>2. FinalTypeOK' /\ IncumbentIsFixed' /\ AttemptsAreBounded' /\ BestHasEvidence'
    BY <2>1, EvidenceStays DEF FinalInv, FinalTypeOK, IncumbentIsFixed, AttemptsAreBounded
  <2>3. LedgerIsAtStage' /\ StagesAreOrdered' /\ SubmissionIsChecked'
    BY <2>1 DEF FinalInv, LedgerIsAtStage, StagesAreOrdered, SubmissionIsChecked,
       FinalRequest
  <2>4. ReproductionIsRecorded'
    BY <2>1, CitationStays DEF FinalInv, ReproductionIsRecorded, Reproducing
  <2> QED
    BY <2>1, <2>2, <2>3, <2>4 DEF FinalInv, vars
<1> QED
  BY <1>1, <1>2, <1>3 DEF FNext

-----------------------------------------------------------------------------
(***************************************************************************)
(* The theorems.                                                           *)
(***************************************************************************)
LEMMA FinalInvariance == FSpec => [](TypeOK /\ IInv /\ FinalInv)
<1>1. FInit => TypeOK /\ IInv /\ FinalInv
  BY StoppedIsSound, FinalInit
<1>2. TypeOK /\ IInv /\ FinalInv /\ [FNext]_fvars => (TypeOK /\ IInv /\ FinalInv)'
  BY FinalStep, TypePreserved, NextSound
<1> QED
  BY <1>1, <1>2, PTL DEF FSpec

\* Finalization implements the lifecycle: whatever fails on the way, finalize
\* (router.py) moves the projection by events that validate_transition admits,
\* and only by them.
THEOREM FinalizationIsLifecycle == FSpec => [][Next]_vars
<1>1. TypeOK /\ IInv /\ FinalInv /\ [FNext]_fvars => [Next]_vars
  BY FinalStep
<1> QED
  BY <1>1, FinalInvariance, PTL DEF FSpec

\* So what is selected is the baseline or a gated commit with an exact clean
\* reproduction, as for every run of the ledger.
THEOREM SelectionIsReproduced == FSpec => []FinalIsReproduced
<1>1. IInv => FinalIsReproduced
  BY DEF IInv
<1> QED
  BY <1>1, FinalInvariance, PTL

\* The ledger refuses no event of finalize, after any failures and crashes.
THEOREM NeverRefusedTheorem == FSpec => []NeverRefused
<1>1. FinalInv => NeverRefused
  BY DEF FinalInv, FinalTypeOK, Attempts, Stages, NeverRefused
<1> QED
  BY <1>1, FinalInvariance, PTL

\* candidate_finalization_plan always finds a receipt and a seed, and the seed
\* belongs to an evaluation of the best commit with the best score.
THEOREM PlanNamesBestEvidenceTheorem == FSpec => []PlanNamesBestEvidence
<1>1. ASSUME TypeOK, IInv, FinalInv PROVE PlanNamesBestEvidence
  <2> SUFFICES ASSUME best.exp = Candidate, run.status = "stopped"
               PROVE  /\ HasPlan
                      /\ \E i \in DOMAIN history :
                            /\ Supports(history[i]) /\ history[i].seed = PlannedSeed
                            /\ history[i].commit = best.commit
    BY DEF PlanNamesBestEvidence
  <2>1. PICK l \in 1..Len(history) : LastSupport(l) /\ history[l].commit = best.commit
    BY <1>1 DEF FinalInv, BestHasEvidence
  <2>2. history \in Seq(Evaluations) /\ l \in DOMAIN history
    BY <1>1, LenProperties DEF FinalInv, FinalTypeOK
  <2>3. PlannedSeed = history[l].seed
    BY <2>1, <2>2, PlannedSeedIs
  <2>4. HasReceipt
    BY <1>1, FinalizationAssumption DEF IInv, BestIsVerified, Gated, HasReceipt
  <2> QED
    BY <2>1, <2>2, <2>3, <2>4 DEF HasPlan, HasEvidence, LastSupport
<1> QED
  BY <1>1, FinalInvariance, PTL

\* The submission is the output the official check read, of an inference made
\* after this finalize's own reproduction.
THEOREM SubmissionIsCheckedTheorem == FSpec => []SubmissionIsChecked
<1>1. FinalInv => SubmissionIsChecked
  BY DEF FinalInv
<1> QED
  BY <1>1, FinalInvariance, PTL

----------------------------------------------------------------------------
(* The briefing of repairs and of the planner.                             *)

Checks == {"none", "accepted", "rejected"}
OrderNames == Orders \cup {"none", "failed", "over"}
ToldType == [receipt : Nat, checked : Checks, judged : Nat,
             decided : DecisionKinds \cup {"none"}, wired : BOOLEAN, order : OrderNames]
BriefType == [commit : Nat, left : Int, gateA : BOOLEAN, receipt : Nat]

BriefingTypeOK == told \in [Exps -> ToldType] /\ brief \in [Exps -> BriefType]

\* The newest accepted receipt is the one the validator looks up, and is of the
\* commit that was evaluated last if there is no younger one.
ReceiptIsTold(x) ==
    /\ node[x].status = "absent" => node[x].commit = 0
    /\ \/ node[x].status = "patch_ready"
       \/ node[x].status = "recovering" /\ evid[x].failure = "patch_gate"
       => node[x].commit > 0
    /\ evid[x].receipt.accepted =>
          evid[x].receipt.commit > 0 /\ told[x].receipt = evid[x].receipt.commit
    /\ told[x].receipt <= node[x].commit /\ told[x].judged <= node[x].commit
    /\ Judged(x) /\ told[x].judged = node[x].commit => told[x].receipt = node[x].commit

\* Between a repair's order and its patch nothing happens but its failure.
OrderStands(x) ==
    /\ told[x].order = "new" =>
          /\ node[x].status = "recovering" /\ evid[x].recovery \in CodeActions
          /\ PromptAccepts(brief[x]) /\ brief[x].receipt \in {0, node[x].commit}
    /\ told[x].order = "failed" =>
          node[x].status = "recovering" /\ evid[x].failure = "coding"
    /\ told[x].order = "again" => node[x].status # "absent"

\* Once a no-op is being wired its first repair is spent, and it returns to the
\* planner only from the coder of a repair: what was evaluated since the wiring is
\* of the last commit, unless the last repair is spent too.
WiringIsTold(x) ==
    /\ node[x].status = "recovering" /\ evid[x].failure = "no_op" =>
          Judged(x) /\ node[x].trust = "no_op"
    /\ told[x].wired =>
          /\ node[x].repairs > 0 /\ Judged(x)
          /\ told[x].order # "again" /\ node[x].status \notin {"absent", "proposed"}
          /\ ~RetryingInitialCoder(x)
          /\ node[x].status = "recovering" /\ evid[x].failure = "coding" =>
                told[x].order = "failed"
          /\ \/ node[x].trust = "no_op"
             \/ told[x].judged = node[x].commit
             \/ node[x].repairs > 1 /\ told[x].order \notin {"new", "failed"}
          /\ node[x].repairs = 1 /\ told[x].order \in {"new", "failed"} =>
                node[x].trust = "no_op"

\* A verdict, and what is closed on one, is about the last commit.
EvidenceIsOfCommit(x) ==
    /\ AtVerdict(x) => Judged(x) /\ told[x].judged = node[x].commit
    /\ Researching /\ told[x].decided = "accept" => node[x].status = "accepted"
    /\ Researching /\ node[x].status \in Closed /\ ~Barred(x) =>
          Judged(x) /\ told[x].judged = node[x].commit

BriefSound(x) ==
    ReceiptIsTold(x) /\ OrderStands(x) /\ WiringIsTold(x) /\ EvidenceIsOfCommit(x)

\* No best is recorded in Briefing, so no experiment is finalized.
BriefingInv ==
    /\ TypeOK /\ IInv /\ BriefingTypeOK /\ best.exp \notin Exps
    /\ \A x \in Exps : BriefSound(x)

-----------------------------------------------------------------------------
(***************************************************************************)
(* One event, one experiment.                                              *)
(***************************************************************************)
\* Nothing but x's own entries changes, and a stopped run stays stopped.
Concerns(x) ==
    /\ node' = [node EXCEPT ![x] = node'[x]] /\ evid' = [evid EXCEPT ![x] = evid'[x]]
    /\ told' = [told EXCEPT ![x] = told'[x]] /\ brief' = [brief EXCEPT ![x] = brief'[x]]
    /\ best' = best /\ (Researching' => Researching)

\* What an event about x must establish.
BriefStep(x) ==
    Concerns(x) /\ told'[x] \in ToldType /\ brief'[x] \in BriefType /\ BriefSound(x)'

\* The experiments beside it stay as they are.
LEMMA OthersKeep ==
    ASSUME BriefingInv, NEW x \in Exps, BriefStep(x), TypeOK', IInv'
    PROVE  BriefingInv'
<1>1. BriefingTypeOK'
  BY DEF BriefingInv, BriefingTypeOK, BriefStep, Concerns
<1>2. best'.exp \notin Exps
  BY DEF BriefingInv, BriefStep, Concerns
<1>3. ASSUME NEW y \in Exps, y # x PROVE BriefSound(y)'
  <2>1. /\ node'[y] = node[y] /\ evid'[y] = evid[y] /\ told'[y] = told[y]
        /\ brief'[y] = brief[y] /\ (Researching' => Researching)
    BY <1>3 DEF BriefingInv, BriefingTypeOK, TypeOK, BriefStep, Concerns
  <2>2. BriefSound(y)
    BY DEF BriefingInv
  <2>3. ReceiptIsTold(y)'
    BY <2>1, <2>2 DEF BriefSound, ReceiptIsTold, Judged
  <2>4. OrderStands(y)'
    BY <2>1, <2>2 DEF BriefSound, OrderStands, PromptAccepts
  <2>5. WiringIsTold(y)'
    BY <2>1, <2>2 DEF BriefSound, WiringIsTold, Judged, RetryingInitialCoder
  <2>6. EvidenceIsOfCommit(y)'
    BY <2>1, <2>2 DEF BriefSound, EvidenceIsOfCommit, AtVerdict, Judged, Barred
  <2> QED
    BY <2>3, <2>4, <2>5, <2>6 DEF BriefSound
<1> QED
  BY <1>1, <1>2, <1>3 DEF BriefingInv, BriefStep

-----------------------------------------------------------------------------
(***************************************************************************)
(* The lane's events.                                                      *)
(***************************************************************************)
\* The four records of an experiment have their types.
LEMMA RecordsAre ==
    ASSUME BriefingInv, NEW x \in Exps
    PROVE  /\ node[x] \in NodeType /\ evid[x] \in EvidenceType
           /\ told[x] \in ToldType /\ brief[x] \in BriefType
           /\ node[x].commit \in Nat /\ node[x].repairs \in Nat /\ BriefSound(x)
  BY BoundsAssumption DEF BriefingInv, BriefingTypeOK, TypeOK, NodeType, Commits

\* A patch fulfils the order it answers, and is younger than all that is told.
LEMMA PatchedKeeps ==
    ASSUME BriefingInv, NEW x \in Exps, Patched(x)
    PROVE  BriefStep(x)
<1>t. /\ node[x] \in NodeType /\ told[x] \in ToldType /\ brief[x] \in BriefType
      /\ node[x].commit \in Nat /\ node[x].repairs \in Nat /\ BriefSound(x)
  BY RecordsAre
<1>1. /\ node' = [node EXCEPT ![x] = node'[x]] /\ evid' = evid /\ best' = best
      /\ told' = [told EXCEPT ![x] = told'[x]] /\ brief' = brief
      /\ (Researching' => Researching)
  BY DEF Patched, PatchCreated, MoveTo, Tells, BriefingInv, BriefingTypeOK, TypeOK, RunType,
         Researching
<1>2. /\ node'[x].status = "patch_ready" /\ node'[x].commit = node[x].commit + 1
      /\ node'[x].repairs = node[x].repairs /\ node'[x].trust = node[x].trust
  BY <1>t DEF Patched, PatchCreated, MoveTo, BriefingInv, TypeOK, NodeType
<1>3. /\ told'[x] \in ToldType /\ told'[x].order = "none"
      /\ told'[x].receipt = told[x].receipt /\ told'[x].judged = told[x].judged
      /\ told'[x].wired = told[x].wired /\ told'[x].decided = told[x].decided
  BY <1>t DEF Patched, Tells, BriefingInv, BriefingTypeOK, ToldType, OrderNames
<1>4. /\ told[x].order \notin {"failed", "over"} /\ Researching
      /\ node[x].status = "recovering" => told[x].order \in Orders
      /\ \/ node[x].status \in {"proposed", "recovering"}
         \/ node[x].status = "ready_to_run" /\ RetryingInitialCoder(x)
  BY DEF Patched, PatchCreated, CanPatchCreated
<1>5. told[x].receipt \in Nat /\ told[x].judged \in Nat
  BY <1>t DEF ToldType
<1>6. ReceiptIsTold(x)'
  BY <1>t, <1>1, <1>2, <1>3, <1>5 DEF BriefSound, ReceiptIsTold, Judged
<1>7. OrderStands(x)'
  BY <1>3 DEF OrderStands
<1>8. WiringIsTold(x)'
  BY <1>t, <1>1, <1>2, <1>3, <1>4, <1>5
     DEF BriefSound, WiringIsTold, OrderStands, Judged, RetryingInitialCoder, Orders,
         ToldType, OrderNames
<1>9. EvidenceIsOfCommit(x)'
  BY <1>t, <1>1, <1>2, <1>3, <1>4 DEF BriefSound, EvidenceIsOfCommit, AtVerdict, Closed,
     RetryingInitialCoder
<1> QED
  BY <1>t, <1>1, <1>3, <1>6, <1>7, <1>8, <1>9
     DEF BriefStep, Concerns, BriefSound, BriefingInv, BriefingTypeOK, TypeOK

\* The worker of an order fails once, and is answered as such.
LEMMA CoderFailsKeeps ==
    ASSUME BriefingInv, NEW x \in Exps, CoderFails(x)
    PROVE  BriefStep(x)
<1>t. /\ node[x] \in NodeType /\ evid[x] \in EvidenceType /\ told[x] \in ToldType
      /\ brief[x] \in BriefType /\ node[x].repairs \in Nat /\ BriefSound(x)
  BY RecordsAre
<1>1. /\ node' = [node EXCEPT ![x] = node'[x]] /\ evid' = [evid EXCEPT ![x] = evid'[x]]
      /\ told' = [told EXCEPT ![x] = told'[x]] /\ brief' = brief /\ best' = best
      /\ Researching /\ (Researching' => Researching)
  BY DEF CoderFails, AdapterFailed, CanAdapterFailed, MoveTo, Recorded, Tells, BriefingInv,
         BriefingTypeOK, TypeOK
<1>2. /\ node'[x].status = "recovering" /\ node'[x].commit = node[x].commit
      /\ node'[x].repairs = node[x].repairs /\ node'[x].trust = node[x].trust
  BY <1>t DEF CoderFails, AdapterFailed, MoveTo, BriefingInv, TypeOK, NodeType
<1>3. /\ evid'[x].failure = "coding" /\ evid'[x].recovery = evid[x].recovery
      /\ evid'[x].receipt = evid[x].receipt
  BY <1>t DEF CoderFails, AdapterFailed, Recorded, BriefingInv, TypeOK, EvidenceType
<1>4. /\ told'[x] \in ToldType
      /\ told'[x].order = CASE told[x].order = "new" -> "failed"
                            [] told[x].order = "again" -> "over"
                            [] OTHER -> told[x].order
      /\ told'[x].receipt = told[x].receipt /\ told'[x].judged = told[x].judged
      /\ told'[x].wired = told[x].wired /\ told'[x].decided = told[x].decided
  BY <1>t DEF CoderFails, Tells, BriefingInv, BriefingTypeOK, ToldType, OrderNames
<1>5. /\ told[x].order \in {"new", "again", "none"}
      /\ node[x].status = "recovering" => told[x].order \in {"new", "again"}
      /\ \/ node[x].status \in {"proposed", "recovering"}
         \/ node[x].status = "ready_to_run" /\ RetryingInitialCoder(x)
  BY DEF CoderFails, Orders, AdapterFailed, CanAdapterFailed, AdapterAt
<1>6. ReceiptIsTold(x)'
  BY <1>t, <1>2, <1>3, <1>4 DEF BriefSound, ReceiptIsTold, Judged
<1>7. OrderStands(x)'
  BY <1>t, <1>2, <1>3, <1>4, <1>5 DEF OrderStands
<1>8. WiringIsTold(x)'
  BY <1>t, <1>2, <1>3, <1>4, <1>5
     DEF BriefSound, WiringIsTold, OrderStands, Judged, RetryingInitialCoder, CodeActions
<1>9. EvidenceIsOfCommit(x)'
  BY <1>t, <1>1, <1>2, <1>3, <1>4, <1>5 DEF BriefSound, EvidenceIsOfCommit, AtVerdict, Closed
<1> QED
  BY <1>t, <1>1, <1>4, <1>6, <1>7, <1>8, <1>9
     DEF BriefStep, Concerns, BriefSound, BriefingInv, BriefingTypeOK, TypeOK

\* Another component fails only while no order waits for its worker.
LEMMA OtherFailsKeeps ==
    ASSUME BriefingInv, NEW x \in Exps, NEW stage \in AdapterStages, OtherFails(x, stage)
    PROVE  BriefStep(x)
<1>t. /\ node[x] \in NodeType /\ evid[x] \in EvidenceType /\ told[x] \in ToldType
      /\ brief[x] \in BriefType /\ node[x].repairs \in Nat /\ BriefSound(x)
  BY RecordsAre
<1>1. /\ node' = [node EXCEPT ![x] = node'[x]] /\ evid' = [evid EXCEPT ![x] = evid'[x]]
      /\ told' = [told EXCEPT ![x] = told'[x]] /\ brief' = brief /\ best' = best
      /\ Researching /\ (Researching' => Researching)
  BY DEF OtherFails, AdapterFailed, CanAdapterFailed, MoveTo, Recorded, Tells, BriefingInv,
         BriefingTypeOK, TypeOK
<1>2. /\ node'[x].status = "recovering" /\ node'[x].commit = node[x].commit
      /\ node'[x].repairs = node[x].repairs /\ node'[x].trust = node[x].trust
  BY <1>t DEF OtherFails, AdapterFailed, MoveTo, BriefingInv, TypeOK, NodeType
<1>3. /\ evid'[x].failure = stage /\ evid'[x].recovery = evid[x].recovery
      /\ evid'[x].receipt = evid[x].receipt
  BY <1>t DEF OtherFails, AdapterFailed, Recorded, BriefingInv, TypeOK, EvidenceType
<1>4. /\ told'[x] \in ToldType
      /\ told'[x].order = IF stage = "recovery" THEN "over" ELSE told[x].order
      /\ told'[x].receipt = told[x].receipt /\ told'[x].judged = told[x].judged
      /\ told'[x].wired = told[x].wired /\ told'[x].decided = told[x].decided
  BY <1>t DEF OtherFails, Tells, BriefingInv, BriefingTypeOK, ToldType, OrderNames
<1>5. /\ told[x].order \notin {"new", "again"} /\ stage # "coding"
      /\ node[x].status \in AdapterAt[stage]
  BY DEF OtherFails, Orders, AdapterFailed, CanAdapterFailed
<1>6. /\ stage # "no_op" /\ (stage = "patch_gate" => node[x].status = "patch_ready")
      /\ (stage = "decision" => node[x].status = "evaluated")
      /\ (node[x].status = "recovering" => stage = "recovery")
      /\ node[x].status \in Live
  BY <1>5 DEF AdapterStages, AdapterAt, Live
<1>7. ReceiptIsTold(x)'
  BY <1>t, <1>2, <1>3, <1>4, <1>6 DEF BriefSound, ReceiptIsTold, Judged
<1>8. OrderStands(x)'
  BY <1>t, <1>2, <1>3, <1>4, <1>5, <1>6 DEF BriefSound, OrderStands
<1>9. WiringIsTold(x)'
  BY <1>t, <1>2, <1>3, <1>4, <1>5, <1>6
     DEF BriefSound, WiringIsTold, OrderStands, Judged, RetryingInitialCoder
<1>10. EvidenceIsOfCommit(x)'
  BY <1>t, <1>1, <1>2, <1>3, <1>4, <1>6
     DEF BriefSound, EvidenceIsOfCommit, AtVerdict, Closed, Live, Judged
<1> QED
  BY <1>t, <1>1, <1>4, <1>7, <1>8, <1>9, <1>10
     DEF BriefStep, Concerns, BriefSound, BriefingInv, BriefingTypeOK, TypeOK

\* A code repair is ordered of a result of the present commit: of one Gate A refused,
\* or of one whose receipt is on record.
LEMMA OrdersCanBeBuilt ==
    ASSUME BriefingInv, NEW x \in Exps, NEW action \in CodeActions,
           CanRecoveryDecided(x, action), action \in Policy[evid[x].failure]
    PROVE  /\ PromptAccepts(RecoveryContext(x))
           /\ RecoveryContext(x).receipt \in {0, node[x].commit}
           /\ evid[x].failure # "coding"
           /\ node[x].repairs < MaxRepairs
<1>t. /\ node[x] \in NodeType /\ evid[x] \in EvidenceType /\ told[x] \in ToldType
      /\ node[x].repairs \in Nat /\ node[x].commit \in Nat /\ BriefSound(x)
  BY RecordsAre
<1>1. evid[x].failure \in {"run_failed", "patch_rejected", "output_rejected", "no_op"}
  BY <1>t, BriefingAssumption DEF CanRecoveryDecided, EvidenceType
<1>2. MaxRepairs - node[x].repairs >= 1 /\ node[x].status = "recovering"
  BY <1>t, BoundsAssumption DEF CanRecoveryDecided
<1>3. evid[x].failure # "patch_rejected" =>
         told[x].receipt = node[x].commit /\ node[x].commit > 0
  <2>1. SUFFICES ASSUME evid[x].failure # "patch_rejected"
                 PROVE  told[x].receipt = node[x].commit /\ node[x].commit > 0
    OBVIOUS
  <2>2. Gated(x)
    BY <1>1, <1>2, <2>1
       DEF BriefingInv, IInv, SoundAt, HoldsGatedCommit, Recoverable, GatedFailures
  <2> QED
    BY <1>t, <2>2 DEF Gated, BriefSound, ReceiptIsTold
<1>4. node[x].repairs < MaxRepairs /\ MaxRepairs - node[x].repairs \in Int
  BY <1>2, <1>t, BoundsAssumption
<1> DEFINE c == RecoveryContext(x)
<1>5. c.left = MaxRepairs - node[x].repairs /\ c.receipt = ReceiptFor(x)
  BY DEF RecoveryContext
<1>6. c.gateA <=> evid[x].failure = "patch_rejected"
  BY DEF RecoveryContext
<1>7. ReceiptFor(x) = IF evid[x].failure = "patch_rejected" THEN 0 ELSE node[x].commit
  BY <1>1, <1>3 DEF ReceiptFor
<1>8. c.receipt = 0 <=> evid[x].failure = "patch_rejected"
  BY <1>t, <1>3, <1>5, <1>7
<1> HIDE DEF c
<1>9. PromptAccepts(c) /\ c.receipt \in {0, node[x].commit}
  BY <1>2, <1>5, <1>6, <1>7, <1>8 DEF PromptAccepts
<1> QED
  BY <1>1, <1>4, <1>9 DEF c

\* A decision answers the failure of a component, or of an order's worker.
LEMMA RecoveredKeeps ==
    ASSUME BriefingInv, NEW x \in Exps, NEW action \in RecoveryActions, Recovered(x, action)
    PROVE  BriefStep(x)
<1>t. /\ node[x] \in NodeType /\ evid[x] \in EvidenceType /\ told[x] \in ToldType
      /\ brief[x] \in BriefType /\ node[x].repairs \in Nat /\ BriefSound(x)
      /\ node[x].commit \in Nat
  BY RecordsAre
<1> DEFINE s == RecoveredStatus(evid[x].failure, action)
<1>1. /\ node' = [node EXCEPT ![x] = node'[x]] /\ evid' = [evid EXCEPT ![x] = evid'[x]]
      /\ told' = [told EXCEPT ![x] = told'[x]] /\ brief' = [brief EXCEPT ![x] = brief'[x]]
      /\ best' = best /\ Researching /\ (Researching' => Researching)
  BY DEF Recovered, RecoveryDecided, CanRecoveryDecided, Recorded, Tells, BriefingInv,
         BriefingTypeOK, TypeOK
<1>2. /\ node'[x].status = s /\ node'[x].commit = node[x].commit
      /\ node'[x].trust = node[x].trust
      /\ node'[x].repairs = IF action \in CodeActions
                            THEN Higher(node[x].repairs, RepairAttempt(x))
                            ELSE node[x].repairs
  BY <1>t DEF Recovered, RecoveryDecided, BriefingInv, TypeOK, NodeType
<1>3. /\ evid'[x].failure = evid[x].failure /\ evid'[x].recovery = action
      /\ evid'[x].receipt = evid[x].receipt
  BY <1>t DEF Recovered, RecoveryDecided, Recorded, BriefingInv, TypeOK, EvidenceType
<1>4. /\ told'[x] \in ToldType /\ told'[x].order = OrderAfter(x, action)
      /\ told'[x].wired =
            (told[x].wired \/ (evid[x].failure = "no_op" /\ action = "trae_repair"))
      /\ told'[x].receipt = told[x].receipt /\ told'[x].judged = told[x].judged
      /\ told'[x].decided = told[x].decided /\ told'[x].checked = told[x].checked
  BY <1>t DEF Recovered, Tells, OrderAfter, BriefingInv, BriefingTypeOK, ToldType,
     OrderNames, Orders
<1>w. told'[x].wired =>
         told[x].wired \/ (evid[x].failure = "no_op" /\ action = "trae_repair")
  BY <1>4
<1>5. brief'[x] = RecoveryContext(x) /\ brief'[x] \in BriefType
  BY <1>t, BoundsAssumption
     DEF Recovered, RecoveryContext, ReceiptFor, BriefType, ToldType, BriefingInv,
         BriefingTypeOK
<1>6. /\ told[x].order \notin {"new", "again"} /\ node[x].status = "recovering"
      /\ evid[x].failure = "coding" =>
            /\ action = "return_to_planner" => told[x].wired
            /\ action = "retry_same_commit" => ~told[x].wired
      /\ CanRecoveryDecided(x, action) /\ action \in Policy[evid[x].failure]
  BY DEF Recovered, Orders, RecoveryDecided, CanRecoveryDecided
<1>7. /\ s = "recovering" => action \in CodeActions
      /\ s = "patch_ready" => evid[x].failure = "patch_gate"
      /\ s = "proposed" => action = "retry_same_commit" /\ evid[x].failure = "coding"
      /\ s = "evaluated" => evid[x].failure = "decision"
      /\ s = "no_op" => action = "return_to_planner"
      /\ s \in Closed => s \in {"no_op", "invalid"}
      /\ s # "absent" /\ (action \in CodeActions => s = "recovering")
  BY DEF RecoveredStatus, RetryStatus, CodeActions, RecoveryActions, Closed
<1>8. action \in CodeActions =>
         /\ PromptAccepts(RecoveryContext(x))
         /\ RecoveryContext(x).receipt \in {0, node[x].commit}
         /\ evid[x].failure # "coding" /\ node[x].repairs < MaxRepairs
         /\ node'[x].repairs = node[x].repairs + 1
  <2>1. SUFFICES ASSUME action \in CodeActions
                 PROVE  /\ PromptAccepts(RecoveryContext(x))
                        /\ RecoveryContext(x).receipt \in {0, node[x].commit}
                        /\ evid[x].failure # "coding" /\ node[x].repairs < MaxRepairs
                        /\ node'[x].repairs = node[x].repairs + 1
    OBVIOUS
  <2>2. /\ PromptAccepts(RecoveryContext(x))
        /\ RecoveryContext(x).receipt \in {0, node[x].commit}
        /\ evid[x].failure # "coding" /\ node[x].repairs < MaxRepairs
    BY <1>6, <2>1, OrdersCanBeBuilt
  <2>3. node'[x].repairs = node[x].repairs + 1
    BY <1>t, <1>2, <2>1, <2>2, BoundsAssumption DEF RepairAttempt, Higher, Lower
  <2> QED
    BY <2>2, <2>3
<1>r. /\ action \in CodeActions =>
            node'[x].repairs = node[x].repairs + 1 /\ node[x].repairs < 2
      /\ action \notin CodeActions => node'[x].repairs = node[x].repairs
      /\ node[x].repairs \in Nat
  BY <1>t, <1>2, <1>8, BriefingAssumption, BoundsAssumption
<1>9. /\ OrderAfter(x, action) = "new" => action \in CodeActions
      /\ OrderAfter(x, action) = "again" =>
            told[x].order = "failed" /\ action = "retry_same_commit"
      /\ OrderAfter(x, action) # "failed"
  BY DEF OrderAfter
<1> HIDE DEF s
<1>10. ReceiptIsTold(x)'
  BY <1>t, <1>2, <1>3, <1>4, <1>6, <1>7 DEF BriefSound, ReceiptIsTold, Judged
<1>11. OrderStands(x)'
  BY <1>2, <1>3, <1>4, <1>5, <1>7, <1>8, <1>9 DEF OrderStands
<1>12. WiringIsTold(x)'
  <2>1. evid[x].failure = "no_op" => Judged(x) /\ node[x].trust = "no_op"
    BY <1>t, <1>6 DEF BriefSound, WiringIsTold
  <2>2. told'[x].wired => node'[x].repairs > 0 /\ Judged(x)
    BY <1>t, <1>r, <1>w, <2>1 DEF BriefSound, WiringIsTold, CodeActions
  <2>3. told'[x].wired => told'[x].order # "again" /\ s \notin {"absent", "proposed"}
    BY <1>t, <1>4, <1>6, <1>7, <1>9 DEF BriefSound, OrderStands
  <2>4. told'[x].wired => ~RetryingInitialCoder(x)'
    BY <1>3, <1>4, <1>6 DEF RetryingInitialCoder
  <2>5. ~(s = "recovering" /\ evid[x].failure = "coding")
    BY <1>7, <1>8
  <2>6. told[x].wired =>
           /\ \/ node[x].trust = "no_op" \/ told[x].judged = node[x].commit
              \/ node[x].repairs > 1
           /\ node[x].repairs > 0
    BY <1>t DEF BriefSound, WiringIsTold
  <2>7. told'[x].wired =>
           /\ \/ node[x].trust = "no_op" \/ told[x].judged = node[x].commit
              \/ node'[x].repairs > 1 /\ told'[x].order \notin {"new", "failed"}
           /\ node'[x].repairs = 1 /\ told'[x].order \in {"new", "failed"} =>
                 node[x].trust = "no_op"
    BY <1>r, <1>w, <1>4, <1>9, <2>1, <2>6 DEF CodeActions
  <2> QED
    BY <1>2, <1>3, <1>4, <2>1, <2>2, <2>3, <2>4, <2>5, <2>7 DEF WiringIsTold, Judged
<1>13. EvidenceIsOfCommit(x)'
  <2>1. AtVerdict(x)' => AtVerdict(x)
    BY <1>2, <1>3, <1>6, <1>7 DEF AtVerdict
  <2>2. ~(told[x].decided = "accept")
    BY <1>t, <1>1, <1>6 DEF BriefSound, EvidenceIsOfCommit
  <2>3. ASSUME s \in Closed, ~Barred(x)' PROVE Judged(x) /\ told[x].judged = node[x].commit
    <3>1. s = "no_op" /\ action = "return_to_planner"
      BY <1>2, <1>7, <2>3 DEF Barred
    <3>2. evid[x].failure \in {"no_op", "coding"}
      BY <1>6, <1>t, <3>1, BriefingAssumption DEF CanRecoveryDecided, EvidenceType
    <3>3. ~(Judged(x) /\ node[x].trust = "no_op")
      BY <1>2, <1>4, <2>3 DEF Barred, Judged
    <3>4. evid[x].failure = "coding" /\ told[x].wired
      BY <1>t, <1>6, <3>1, <3>2, <3>3 DEF BriefSound, WiringIsTold
    <3>5. told[x].order = "failed" /\ Judged(x)
      BY <1>t, <1>6, <3>4 DEF BriefSound, WiringIsTold
    <3> QED
      BY <1>t, <3>3, <3>4, <3>5 DEF BriefSound, WiringIsTold
  <2> QED
    BY <1>t, <1>2, <1>4, <2>1, <2>2, <2>3 DEF BriefSound, EvidenceIsOfCommit, Judged
<1> QED
  BY <1>t, <1>1, <1>4, <1>5, <1>10, <1>11, <1>12, <1>13
     DEF BriefStep, Concerns, BriefSound

\* Gate A's word on a commit is the newest there is.
LEMMA CheckedKeeps ==
    ASSUME BriefingInv, NEW x \in Exps, NEW accepted \in BOOLEAN, Checked(x, accepted)
    PROVE  BriefStep(x)
<1>t. /\ node[x] \in NodeType /\ evid[x] \in EvidenceType /\ told[x] \in ToldType
      /\ brief[x] \in BriefType /\ node[x].commit \in Nat /\ BriefSound(x)
  BY RecordsAre
<1>1. /\ node' = [node EXCEPT ![x] = node'[x]] /\ evid' = [evid EXCEPT ![x] = evid'[x]]
      /\ told' = [told EXCEPT ![x] = told'[x]] /\ brief' = brief /\ best' = best
      /\ Researching /\ (Researching' => Researching)
      /\ node[x].status = "patch_ready"
  BY DEF Checked, PatchChecked, CanPatchChecked, MoveTo, Recorded, Tells, BriefingInv,
         BriefingTypeOK, TypeOK
<1>2. /\ node'[x].status = IF accepted THEN "ready_to_run" ELSE "recovering"
      /\ node'[x].commit = node[x].commit
      /\ node'[x].repairs = node[x].repairs /\ node'[x].trust = node[x].trust
  BY <1>t DEF Checked, PatchChecked, MoveTo, BriefingInv, TypeOK, NodeType
<1>3. /\ evid'[x].receipt = [commit |-> node[x].commit, accepted |-> accepted]
      /\ evid'[x].failure = IF accepted THEN evid[x].failure ELSE "patch_rejected"
      /\ evid'[x].recovery = evid[x].recovery
  BY <1>t DEF Checked, PatchChecked, Recorded, BriefingInv, TypeOK, EvidenceType
<1>4. /\ told'[x] \in ToldType
      /\ told'[x].receipt = IF accepted THEN node[x].commit ELSE told[x].receipt
      /\ told'[x].order = told[x].order /\ told'[x].judged = told[x].judged
      /\ told'[x].wired = told[x].wired /\ told'[x].decided = told[x].decided
  BY <1>t DEF Checked, Tells, BriefingInv, BriefingTypeOK, ToldType
<1>5. ReceiptIsTold(x)'
  BY <1>t, <1>1, <1>2, <1>3, <1>4 DEF BriefSound, ReceiptIsTold, Judged
<1>6. OrderStands(x)'
  BY <1>t, <1>1, <1>2, <1>4 DEF BriefSound, OrderStands
<1>7. WiringIsTold(x)'
  BY <1>t, <1>1, <1>2, <1>3, <1>4
     DEF BriefSound, WiringIsTold, OrderStands, Judged, RetryingInitialCoder
<1>8. EvidenceIsOfCommit(x)'
  BY <1>t, <1>1, <1>2, <1>3, <1>4 DEF BriefSound, EvidenceIsOfCommit, AtVerdict, Closed
<1> QED
  BY <1>t, <1>1, <1>4, <1>5, <1>6, <1>7, <1>8
     DEF BriefStep, Concerns, BriefSound, BriefingInv, BriefingTypeOK, TypeOK

\* Gate B reads the output of a run; no order waits meanwhile.
LEMMA VerifiedKeeps ==
    ASSUME BriefingInv, NEW x \in Exps, NEW accepted \in BOOLEAN, Verified(x, accepted)
    PROVE  BriefStep(x)
<1>t. /\ node[x] \in NodeType /\ evid[x] \in EvidenceType /\ told[x] \in ToldType
      /\ brief[x] \in BriefType /\ BriefSound(x)
  BY RecordsAre
<1>1. /\ node' = [node EXCEPT ![x] = node'[x]] /\ evid' = [evid EXCEPT ![x] = evid'[x]]
      /\ told' = [told EXCEPT ![x] = told'[x]] /\ brief' = brief /\ best' = best
      /\ (Researching' => Researching) /\ node[x].status = "output_ready"
  BY DEF Verified, OutputChecked, CanOutputChecked, MoveTo, Recorded, Tells, BriefingInv,
         BriefingTypeOK, TypeOK, RunType, Researching
<1>2. /\ node'[x].status = IF accepted THEN "output_verified" ELSE "recovering"
      /\ node'[x].commit = node[x].commit
      /\ node'[x].repairs = node[x].repairs /\ node'[x].trust = node[x].trust
  BY <1>t DEF Verified, OutputChecked, MoveTo, BriefingInv, TypeOK, NodeType
<1>3. /\ evid'[x].failure = IF accepted THEN evid[x].failure ELSE "output_rejected"
      /\ evid'[x].recovery = evid[x].recovery /\ evid'[x].receipt = evid[x].receipt
  BY <1>t DEF Verified, OutputChecked, Recorded, BriefingInv, TypeOK, EvidenceType
<1>4. /\ told'[x] \in ToldType
      /\ told'[x].receipt = told[x].receipt
      /\ told'[x].order = told[x].order /\ told'[x].judged = told[x].judged
      /\ told'[x].wired = told[x].wired /\ told'[x].decided = told[x].decided
  BY <1>t DEF Verified, Tells, BriefingInv, BriefingTypeOK, ToldType, Checks
<1>5. ReceiptIsTold(x)'
  BY <1>t, <1>2, <1>3, <1>4 DEF BriefSound, ReceiptIsTold, Judged
<1>6. OrderStands(x)'
  BY <1>t, <1>1, <1>2, <1>4 DEF BriefSound, OrderStands
<1>7. WiringIsTold(x)'
  BY <1>t, <1>1, <1>2, <1>3, <1>4
     DEF BriefSound, WiringIsTold, OrderStands, Judged, RetryingInitialCoder
<1>8. EvidenceIsOfCommit(x)'
  BY <1>t, <1>1, <1>2, <1>3, <1>4 DEF BriefSound, EvidenceIsOfCommit, AtVerdict, Closed
<1> QED
  BY <1>t, <1>1, <1>4, <1>5, <1>6, <1>7, <1>8
     DEF BriefStep, Concerns, BriefSound, BriefingInv, BriefingTypeOK, TypeOK

\* What is evaluated is the gated commit in hand.
LEMMA ScoredKeeps ==
    ASSUME BriefingInv, NEW x \in Exps, NEW trust \in Trusts, NEW score \in Scores,
           NEW index, Scored(x, trust, score, index)
    PROVE  BriefStep(x)
<1>t. /\ node[x] \in NodeType /\ evid[x] \in EvidenceType /\ told[x] \in ToldType
      /\ brief[x] \in BriefType /\ node[x].commit \in Nat /\ BriefSound(x)
  BY RecordsAre
<1>1. /\ node' = [node EXCEPT ![x] = node'[x]] /\ evid' = [evid EXCEPT ![x] = evid'[x]]
      /\ told' = [told EXCEPT ![x] = told'[x]] /\ brief' = brief /\ best' = best
      /\ (Researching' => Researching) /\ node[x].status = "output_verified"
  BY DEF Scored, EvaluationCompleted, CanEvaluationCompleted, Recorded, Tells,
         BriefingInv, BriefingTypeOK, TypeOK, RunType, Researching
<1>2. /\ node'[x].status = IF trust = "no_op" THEN "recovering" ELSE "evaluated"
      /\ node'[x].commit = node[x].commit
      /\ node'[x].repairs = node[x].repairs /\ node'[x].trust = trust
  BY <1>t DEF Scored, EvaluationCompleted, BriefingInv, TypeOK, NodeType
<1>3. /\ evid'[x].failure = IF trust = "no_op" THEN "no_op" ELSE evid[x].failure
      /\ evid'[x].recovery = evid[x].recovery /\ evid'[x].receipt = evid[x].receipt
  BY <1>t DEF Scored, EvaluationCompleted, Recorded, BriefingInv, TypeOK, EvidenceType
<1>4. /\ Gated(x) /\ evid[x].request.commit = node[x].commit
  BY <1>1 DEF BriefingInv, IInv, SoundAt, HoldsGatedCommit, PastStart
<1>5. told[x].receipt = node[x].commit /\ node[x].commit > 0
  BY <1>t, <1>4 DEF Gated, BriefSound, ReceiptIsTold
<1>6. /\ told'[x] \in ToldType
      /\ told'[x].receipt = told[x].receipt /\ told'[x].judged = node[x].commit
      /\ told'[x].order = told[x].order
      /\ told'[x].wired = told[x].wired /\ told'[x].decided = told[x].decided
  BY <1>t, <1>4 DEF Scored, Tells, BriefingInv, BriefingTypeOK, ToldType
<1>7. ReceiptIsTold(x)'
  BY <1>t, <1>2, <1>3, <1>5, <1>6 DEF BriefSound, ReceiptIsTold, Judged
<1>8. OrderStands(x)'
  BY <1>t, <1>1, <1>2, <1>6 DEF BriefSound, OrderStands
<1>9. WiringIsTold(x)'
  BY <1>t, <1>1, <1>2, <1>3, <1>5, <1>6
     DEF BriefSound, WiringIsTold, OrderStands, Judged, RetryingInitialCoder
<1>10. EvidenceIsOfCommit(x)'
  BY <1>t, <1>1, <1>2, <1>5, <1>6
     DEF BriefSound, EvidenceIsOfCommit, Judged, Closed
<1> QED
  BY <1>t, <1>1, <1>6, <1>7, <1>8, <1>9, <1>10
     DEF BriefStep, Concerns, BriefSound, BriefingInv, BriefingTypeOK, TypeOK

\* An experiment is closed on the verdict in hand, or on a smoke run as invalid.
LEMMA DecidedKeeps ==
    ASSUME BriefingInv, NEW x \in Exps, NEW kind \in DecisionKinds,
           NEW fidelity \in Fidelities, NEW next \in Fidelities, NEW eligible \in BOOLEAN,
           Decided(x, kind, fidelity, eligible, next)
    PROVE  BriefStep(x)
<1>t. /\ node[x] \in NodeType /\ told[x] \in ToldType
      /\ brief[x] \in BriefType /\ BriefSound(x)
  BY RecordsAre
<1>1. /\ node' = [node EXCEPT ![x] = node'[x]] /\ evid' = evid
      /\ told' = [told EXCEPT ![x] = told'[x]] /\ brief' = brief /\ best' = best
      /\ Researching /\ (Researching' => Researching)
  BY DEF Decided, ExperimentDecided, CanExperimentDecided, Tells, BriefingInv,
         BriefingTypeOK, TypeOK, RunType
<1>2. /\ node'[x].status = DecidedStatus[kind] /\ node'[x].commit = node[x].commit
      /\ node'[x].repairs = node[x].repairs /\ node'[x].trust = node[x].trust
  BY <1>t DEF Decided, ExperimentDecided, BriefingInv, TypeOK, NodeType
<1>3. /\ told'[x] \in ToldType
      /\ told'[x].receipt = told[x].receipt /\ told'[x].judged = told[x].judged
      /\ told'[x].order = told[x].order /\ told'[x].wired = told[x].wired
      /\ told'[x].decided = IF fidelity = "smoke" THEN told[x].decided ELSE kind
  BY <1>t DEF Decided, Tells, BriefingInv, BriefingTypeOK, ToldType
<1>4. /\ node[x].status \in {"output_verified", "evaluated"}
      /\ fidelity # "smoke" => node[x].status = "evaluated"
      /\ fidelity = "smoke" => kind \in {"promote", "invalid"}
  BY DEF Decided, ExperimentDecided, CanExperimentDecided
<1>5. /\ DecidedStatus[kind] \in {"ready_to_run", "accepted", "rejected", "pruned", "invalid"}
      /\ kind = "accept" => DecidedStatus[kind] = "accepted"
      /\ kind = "invalid" => DecidedStatus[kind] = "invalid"
      /\ kind = "promote" => DecidedStatus[kind] = "ready_to_run"
  BY DEF DecidedStatus, DecisionKinds
<1>6. ReceiptIsTold(x)'
  BY <1>t, <1>1, <1>2, <1>3, <1>5 DEF BriefSound, ReceiptIsTold, Judged
<1>7. OrderStands(x)'
  BY <1>t, <1>2, <1>3, <1>4, <1>5 DEF BriefSound, OrderStands
<1>8. WiringIsTold(x)'
  BY <1>t, <1>1, <1>2, <1>3, <1>4, <1>5
     DEF BriefSound, WiringIsTold, OrderStands, Judged, RetryingInitialCoder
<1>9. EvidenceIsOfCommit(x)'
  BY <1>t, <1>1, <1>2, <1>3, <1>4, <1>5
     DEF BriefSound, EvidenceIsOfCommit, AtVerdict, Judged, Barred, Closed
<1> QED
  BY <1>t, <1>1, <1>3, <1>6, <1>7, <1>8, <1>9
     DEF BriefStep, Concerns, BriefSound, BriefingInv, BriefingTypeOK, TypeOK

\* Proposals and executions tell nothing new.
LEMMA SilentKeeps ==
    ASSUME BriefingInv, NEW x \in Exps, Silent,
           \/ \E k \in Keys, parent \in Exps \cup {Baseline} :
                 ExperimentProposed(x, k, parent)
           \/ \E rq \in Requests : ExecutionStarted(x, rq)
           \/ \E success \in BOOLEAN : ExecutionFinished(x, success)
    PROVE  BriefStep(x)
<1>t. /\ node[x] \in NodeType /\ evid[x] \in EvidenceType /\ told[x] \in ToldType
      /\ brief[x] \in BriefType /\ node[x].commit \in Nat /\ BriefSound(x)
      /\ told' = told /\ brief' = brief
  BY RecordsAre DEF Silent
<1>q. told' = [told EXCEPT ![x] = told'[x]] /\ brief' = [brief EXCEPT ![x] = brief'[x]]
  BY <1>t DEF BriefingInv, BriefingTypeOK
<1>1. CASE \E k \in Keys, parent \in Exps \cup {Baseline} : ExperimentProposed(x, k, parent)
  <2>1. PICK k \in Keys, parent \in Exps \cup {Baseline} : ExperimentProposed(x, k, parent)
    BY <1>1
  <2>2. /\ node' = [node EXCEPT ![x] = node'[x]] /\ evid' = evid /\ best' = best
        /\ Researching /\ (Researching' => Researching) /\ node[x].status = "absent"
        /\ node'[x].status = "proposed" /\ node'[x].commit = 0
    BY <2>1 DEF ExperimentProposed, CanPropose, Accepting, Researching, NewNode, BriefingInv,
                TypeOK
  <2>3. told[x].receipt \in Nat /\ told[x].judged \in Nat
    BY <1>t DEF ToldType
  <2>4. ReceiptIsTold(x)'
    BY <1>t, <2>2, <2>3 DEF BriefSound, ReceiptIsTold, Judged
  <2>5. OrderStands(x)'
    BY <1>t, <2>2 DEF BriefSound, OrderStands
  <2>6. WiringIsTold(x)'
    BY <1>t, <2>2 DEF BriefSound, WiringIsTold
  <2>7. EvidenceIsOfCommit(x)'
    BY <1>t, <2>2 DEF BriefSound, EvidenceIsOfCommit, AtVerdict, Closed
  <2>8. evid' = [evid EXCEPT ![x] = evid'[x]]
    BY <2>2 DEF BriefingInv, TypeOK
  <2> QED
    BY <1>t, <1>q, <2>2, <2>4, <2>5, <2>6, <2>7, <2>8 DEF BriefStep, Concerns, BriefSound
<1>2. CASE \/ \E rq \in Requests : ExecutionStarted(x, rq)
           \/ \E success \in BOOLEAN : ExecutionFinished(x, success)
  <2>1. /\ node' = [node EXCEPT ![x] = node'[x]] /\ evid' = [evid EXCEPT ![x] = evid'[x]]
        /\ best' = best /\ (Researching' => Researching)
    BY <1>2 DEF ExecutionStarted, CanExecutionStarted, ExecutionFinished, MoveTo, Recorded,
                BriefingInv, TypeOK, RunType, Researching, Sealed
  <2>2. node[x].status \in {"ready_to_run", "running"}
    BY <1>2 DEF ExecutionStarted, CanExecutionStarted, ExecutionFinished,
                CanExecutionFinished, BriefingInv
  <2>3. /\ node'[x].status \in {"running", "output_ready", "recovering"}
        /\ node'[x].status = "recovering" => evid'[x].failure = "run_failed"
        /\ node'[x].commit = node[x].commit /\ node'[x].repairs = node[x].repairs
        /\ node'[x].trust = node[x].trust
        /\ evid'[x].failure \in {evid[x].failure, "run_failed"}
        /\ evid'[x].recovery = evid[x].recovery /\ evid'[x].receipt = evid[x].receipt
    <3>1. CASE \E rq \in Requests : ExecutionStarted(x, rq)
      <4>1. PICK rq \in Requests : ExecutionStarted(x, rq)
        BY <3>1
      <4>2. /\ node'[x].status = "running" /\ node'[x].commit = node[x].commit
            /\ node'[x].repairs = node[x].repairs /\ node'[x].trust = node[x].trust
        BY <1>t, <4>1 DEF ExecutionStarted, MoveTo, BriefingInv, TypeOK, NodeType
      <4>3. /\ evid'[x].failure = evid[x].failure /\ evid'[x].recovery = evid[x].recovery
            /\ evid'[x].receipt = evid[x].receipt
        BY <1>t, <4>1 DEF ExecutionStarted, Recorded, BriefingInv, TypeOK, EvidenceType
      <4> QED
        BY <4>2, <4>3
    <3>2. ASSUME NEW success \in BOOLEAN, ExecutionFinished(x, success)
          PROVE  /\ node'[x].status = IF success THEN "output_ready" ELSE "recovering"
                 /\ evid'[x].failure = IF success THEN evid[x].failure ELSE "run_failed"
                 /\ node'[x].commit = node[x].commit /\ node'[x].repairs = node[x].repairs
                 /\ node'[x].trust = node[x].trust
                 /\ evid'[x].recovery = evid[x].recovery
                 /\ evid'[x].receipt = evid[x].receipt
      BY <1>t, <3>2 DEF ExecutionFinished, MoveTo, Recorded, BriefingInv, TypeOK, NodeType,
                        EvidenceType
    <3> QED
      BY <1>2, <3>1, <3>2
  <2>4. ReceiptIsTold(x)'
    BY <1>t, <2>2, <2>3 DEF BriefSound, ReceiptIsTold, Judged
  <2>5. OrderStands(x)'
    BY <1>t, <2>2, <2>3 DEF BriefSound, OrderStands
  <2>6. WiringIsTold(x)'
    BY <1>t, <2>2, <2>3
       DEF BriefSound, WiringIsTold, OrderStands, Judged, RetryingInitialCoder
  <2>7. EvidenceIsOfCommit(x)'
    BY <1>t, <2>1, <2>2, <2>3 DEF BriefSound, EvidenceIsOfCommit, AtVerdict, Closed
  <2> QED
    BY <1>t, <1>q, <2>1, <2>4, <2>5, <2>6, <2>7 DEF BriefStep, Concerns, BriefSound
<1> QED
  BY <1>1, <1>2

-----------------------------------------------------------------------------
(***************************************************************************)
(* The invariant is inductive.                                             *)
(***************************************************************************)
\* Nothing has been told before the run.
LEMMA BriefingInitSound == BriefingInit => BriefingInv
<1> SUFFICES ASSUME BriefingInit PROVE BriefingInv
  OBVIOUS
<1>1. TypeOK /\ IInv
  BY InitType, InitSound DEF BriefingInit
<1>2. /\ \A x \in Exps : /\ node[x].status = "absent" /\ node[x].commit = 0
                         /\ ~evid[x].receipt.accepted
                         /\ told[x] = NewTold /\ brief[x] = NoBrief
      /\ best.exp = NoExp
  BY DEF BriefingInit, Init, NewNode, NewEvidence, NoReceipt
<1>3. BriefingTypeOK
  BY DEF BriefingInit, BriefingTypeOK, NewTold, NoBrief, ToldType, BriefType, Checks,
         OrderNames
<1>4. best.exp \notin Exps
  BY <1>2, DomainAssumption
<1>5. \A x \in Exps : BriefSound(x)
  BY <1>2 DEF BriefSound, ReceiptIsTold, OrderStands, WiringIsTold, EvidenceIsOfCommit,
              Judged, AtVerdict, Closed, NewTold
<1> QED
  BY <1>1, <1>3, <1>4, <1>5 DEF BriefingInv

\* A step of Briefing is a step of the lifecycle.
LEMMA BriefingStepIsNext == [BriefingNext]_briefingVars => [Next]_vars
<1>1. ASSUME NEW x \in Exps, BriefedWork(x) PROVE WorkEvent(x) \/ JudgeEvent(x)
  <2>1. CASE \E k \in Keys, parent \in Exps \cup {Baseline} :
                x # parent /\ ExperimentProposed(x, k, parent) /\ Silent
    BY <2>1 DEF WorkEvent
  <2>2. CASE Patched(x)
    BY <2>2 DEF WorkEvent, Patched
  <2>3. CASE CoderFails(x)
    BY <2>3 DEF JudgeEvent, CoderFails, AdapterStages
  <2>4. CASE \E accepted \in BOOLEAN : Checked(x, accepted) \/ Verified(x, accepted)
    BY <2>4 DEF WorkEvent, Checked, Verified
  <2>5. CASE \E rq \in Requests :
                /\ rq.command = "candidate" <=> ~Sealed
                /\ ExecutionStarted(x, rq) /\ Silent
    BY <2>5 DEF WorkEvent
  <2>6. CASE \E success \in BOOLEAN : ExecutionFinished(x, success) /\ Silent
    BY <2>6 DEF WorkEvent
  <2> QED
    BY <1>1, <2>1, <2>2, <2>3, <2>4, <2>5, <2>6 DEF BriefedWork
<1>2. ASSUME NEW x \in Exps, BriefedJudging(x) PROVE JudgeEvent(x)
  BY <1>2 DEF BriefedJudging, JudgeEvent, Scored, OtherFails, Recovered, Decided
<1>3. ASSUME RunGoesOn PROVE RunEvent
  BY <1>3 DEF RunGoesOn
<1>4. ASSUME UNCHANGED briefingVars PROVE UNCHANGED vars
  BY <1>4 DEF briefingVars, vars
<1> QED
  BY <1>1, <1>2, <1>3, <1>4 DEF BriefingNext, Next

\* Events of the run tell nothing about an experiment.
LEMMA RunGoesOnKeeps ==
    ASSUME BriefingInv, RunGoesOn, TypeOK', IInv'
    PROVE  BriefingInv'
<1>1. node' = node /\ evid' = evid /\ told' = told /\ brief' = brief
  BY DEF RunGoesOn, Silent, RunEvent, RunStarted, ContractVerified, BaselineVerified,
         ContextCreated, PlannerRecommended, PlanningFailed, RunStopped, FinalSelected,
         SubmissionChecked
<1>2. best'.exp = Baseline \/ best' = best
  <2>1. CASE BaselineVerified
    BY <2>1 DEF BaselineVerified
  <2>2. CASE ~BaselineVerified
    BY <2>2 DEF RunGoesOn, RunEvent, RunStarted, ContractVerified, ContextCreated,
                PlannerRecommended, PlanningFailed, RunStopped, FinalSelected,
                SubmissionChecked
  <2> QED
    BY <2>1, <2>2
<1>3. Researching' => Researching
  BY DEF RunGoesOn, RunEvent, RunStarted, ContractVerified, BaselineVerified,
         ContextCreated, CanContextCreated, PlannerRecommended, PlanningFailed,
         CanPlanningFailed, RunStopped, CanRunStopped, FinalSelected, SubmissionChecked,
         Accepting, Researching, BriefingInv, TypeOK, RunType
<1>4. ASSUME NEW x \in Exps PROVE BriefSound(x)'
  <2>1. BriefSound(x)
    BY DEF BriefingInv
  <2> QED
    BY <1>1, <1>3, <2>1
       DEF BriefSound, ReceiptIsTold, OrderStands, WiringIsTold, EvidenceIsOfCommit,
           AtVerdict, Barred, Judged, RetryingInitialCoder, PromptAccepts
<1> QED
  BY <1>1, <1>2, <1>4, DomainAssumption DEF BriefingInv, BriefingTypeOK

\* Every step keeps the invariant.
LEMMA BriefingStep == BriefingInv /\ [BriefingNext]_briefingVars => BriefingInv'
<1> SUFFICES ASSUME BriefingInv, [BriefingNext]_briefingVars PROVE BriefingInv'
  OBVIOUS
<1>1. TypeOK' /\ IInv'
  BY BriefingStepIsNext, TypePreserved, NextSound DEF BriefingInv
<1>2. CASE RunGoesOn
  BY <1>1, <1>2, RunGoesOnKeeps
<1>3. ASSUME NEW x \in Exps, BriefedWork(x) PROVE BriefStep(x)
  BY <1>3, PatchedKeeps, CoderFailsKeeps, CheckedKeeps, VerifiedKeeps, SilentKeeps
     DEF BriefedWork
<1>4. ASSUME NEW x \in Exps, BriefedJudging(x) PROVE BriefStep(x)
  BY <1>4, ScoredKeeps, OtherFailsKeeps, RecoveredKeeps, DecidedKeeps
     DEF BriefedJudging
<1>5. CASE UNCHANGED briefingVars
  BY <1>1, <1>5
     DEF briefingVars, BriefingInv, BriefingTypeOK, BriefSound, ReceiptIsTold, OrderStands,
         WiringIsTold, EvidenceIsOfCommit, AtVerdict, Barred, Judged, RetryingInitialCoder,
         PromptAccepts, Researching
<1> QED
  BY <1>1, <1>2, <1>3, <1>4, <1>5, OthersKeep DEF BriefingNext

\* Every state of the lane is briefed soundly.
LEMMA BriefingInvariance == BriefingSpec => []BriefingInv
  BY BriefingInitSound, BriefingStep, PTL DEF BriefingSpec

-----------------------------------------------------------------------------
(***************************************************************************)
(* The theorems.                                                           *)
(***************************************************************************)
\* What is told does not change what happens: the lane of Briefing appends events of
\* the ledger in an order the validator admits.
THEOREM BriefingIsLifecycle == BriefingSpec => Spec
<1>1. BriefingInit => Init
  BY DEF BriefingInit
<1> QED
  BY <1>1, BriefingStepIsNext, PTL DEF BriefingSpec, Spec

\* Every code repair the policy orders can be briefed, with the receipt of the very
\* commit it is to repair, or none where Gate A refused it (build_repair_prompt).
THEOREM OrdersCanBeBriefedTheorem == BriefingSpec => []OrdersCanBeBriefed
<1>1. BriefingInv => OrdersCanBeBriefed
  BY DEF BriefingInv, BriefSound, OrderStands, OrdersCanBeBriefed
<1> QED
  BY <1>1, BriefingInvariance, PTL

\* What the planner may branch from, refine or combine is one commit: the last one,
\* gated and judged (classify_search_eligibility, build_coder).
THEOREM PortfolioRestsOnItsCommitTheorem == BriefingSpec => []PortfolioRestsOnItsCommit
<1>1. ASSUME BriefingInv PROVE PortfolioRestsOnItsCommit
  <2>1. ASSUME NEW x \in Exps, Researching, node[x].status \in Closed, Offered(x)
        PROVE  told[x].judged = node[x].commit /\ ComponentFound(x)
    <3>1. BriefSound(x)
      BY <1>1 DEF BriefingInv
    <3>2. Judged(x) /\ told[x].judged = node[x].commit
      BY <2>1, <3>1 DEF BriefSound, EvidenceIsOfCommit, Offered
    <3> QED
      BY <3>1, <3>2 DEF BriefSound, ReceiptIsTold, ComponentFound
  <2> QED
    BY <2>1 DEF PortfolioRestsOnItsCommit
<1> QED
  BY <1>1, BriefingInvariance, PTL
=============================================================================
