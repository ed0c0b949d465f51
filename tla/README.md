# TacoRank: a TLA+ development of the research harness

TacoRank runs a bounded, autonomous research loop.  A planner proposes
experiments; a coding worker turns each into a commit in its own git worktree;
Gate A checks the patch, a sandboxed run executes it, Gate B checks its output,
a protected evaluator scores it, and a decision accepts, prunes or rejects it.
Every acknowledged step is an event of an append-only ledger from which all
state is projected, and every failure is classified and answered by a recovery
policy.  After a frozen stop rule matches, the incumbent is reproduced, selected
and submitted.

This directory models the control logic of `src/src/tacorank/`, checks it with
TLC on small instances and proves its main invariants with TLAPS.  Paths below
are relative to `src/src/tacorank/` unless they start with `docs/` or `src/`.

## 1. Inventory

| Component | State it keeps | Operations | Hard behaviour | What makes it correct |
|---|---|---|---|---|
| Transition validator and projection (`orchestrator/state_machine.py`, `orchestrator/state.py`, `memory/projections.py`) | run status and phase, experiments, incumbent, counters | one branch per event type | long legal sequences: repairs, retries, confirmations, finalization | only gated commits run; the incumbent rests on two seeds of its commit; closed stays closed; the final selection was reproduced; sealed after the stop |
| Recovery classifier and policy (`recovery/`) | none (reads the ledger) | classify, select an adjustment, route | limits written twice, in policy and validator | its answer is always admitted; retries and repairs are bounded |
| Router: rounds and lanes (`orchestrator/router.py`) | the locals of each lane, the evaluation lock, a deferred stop | run until stopped, one experiment, parallel round, repair, abandon, stop, finalize | asyncio interleavings, exceptions at every await, crashes, budget expiry | controller and ledger agree on the stage; query numbers fresh; gains kept; the loop ends |
| Event store (`memory/event_store.py`) | one JSONL file, one lock file | append, read, resume (tail repair) | several processes, torn writes, kills, power loss | what is durable is a growing log of new, legal events |
| Convergence (`orchestrator/convergence.py`, `research/convergence_advisor.py`) | none | count non-improving decisions, stop rules, refuse to plan | which decisions count, two counts of one thing | the incumbent of the count never lags behind the best |
| Finalization (`router.finalize`, `orchestrator/finalize.py`) | ledger only | reproduce, infer, check, select, submit | a failure or crash between its six steps | idempotent retry; submission is of the selected commit |
| Evaluation (`evaluation/`) | query counter, ladder | evaluate, assess trust, decide | seed evidence, mean against last seed, noise thresholds | what is appointed becomes the best; what is scored is what was checked |
| Live bridges (`orchestrator/live.py`) | none (resolve evidence from the ledger) | one per adapter | evidence found through causation links | every admitted event can be resolved |
| Worktrees, leases, refs (`git/`) | branches, directories, lock files | create, attach, lease, restore, discard | two processes and threads, rollback of half a creation | one holder per worktree; no foreign branch is removed |
| Execution (`execution/`) | a process group, a container, artifact files | verify seal, launch, monitor, terminate, extract, finish | deadlines racing completion, survivors, handshake with the container | a success is whole, sealed and has no survivor; every run ends |
| Health (`sre/`) | one window of samples for all lanes | observe | missing or stale samples, lanes interleaving in the window | a run observed alone is judged by its own samples, and its stall is noticed |
| Gate A, Gate B, receipts (`safety/`) | receipts | check a patch, an output | files that change between two checks, chains of attempts | a receipt stands for all changes since the approved parent; no legal candidate is rejected |
| Coding worker (`coding/`) | a session in a leased worktree | produce or repair a candidate | inner retries, timeouts, a container that cannot be removed | a candidate is one clean commit of a reviewed diff; a session's usage is charged once |
| Planner and search policy (`agents/`, `research/`) | none (reads the ledger) | rank parents, offer choices, validate, deduplicate, synthesise | three rule sets for one proposal, soft results, no-ops | branches rest on evidence; policy, validator and ledger agree |
| Planner provider (`providers/`) | usage counters | generate, repair, attach the usage | concurrent directions over one object, retries, cancellation | each plan is charged its own tokens |
| Context builder (`context/`) | none (reads the ledger) | recovery, coder and planner contexts | newest events of different commits | every ordered repair can be briefed; a summary is of one commit |
| Lessons, reports, artifacts, configuration, CLI, UI | derived files | text and data | - | - |

The router calls every adapter and awaits it; adapters share no state with one
another but the worktree (guarded by its lease) and the ledger.  All writes to
the ledger go through `Harness._append`, which calls `EventStore.append`, which
calls the validator on the events it has read under the lock.  The two lanes of
a parallel round share the ledger, the incumbent, the query numbers and one
`asyncio.Lock`.

`PROJECT.json` lists each component with what is modelled of it and each hazard
with the properties that would catch it.

## 2. Modules

| Module | Models | Role |
|---|---|---|
| `Lifecycle` | validator and projection | one action per event type; guard = the validator's branch, primed variables = the reducer's branch |
| `LifecycleInductive` | - | `IInv`, the inductive strengthening |
| `LifecycleProofs` | - | proofs about `Lifecycle` |
| `RecoveryRules` | classifier, runtime adjustments, policy | pure operators over abstract failures |
| `Harness`, `HarnessProofs` | the router's loop, rounds and lanes | extends `Lifecycle` and `RecoveryRules`: every append is an action of `Lifecycle`; proof that it implements it, and that policy and ledger agree |
| `Finalization` | `finalize` and its plan | extends `Lifecycle`: every append of finalize is one of its actions |
| `Briefing` | recovery contexts, the planner's summary | extends `Lifecycle` with what the newest events say |
| `ControllerProofs` | - | proofs about `Finalization` and `Briefing`, and that both implement `Lifecycle` |
| `Ledger`, `EventStore`, `EventStoreProofs` | the durable log; the store, its lock and the disk | abstract specification, the detailed one, and the proof that it refines it |
| `Worktree` | worktree, commits and lease | shared state of the next three |
| `Coder` | the coding worker | one action per step of a call |
| `Runner` | runner, process, container supervisor | one action per step of a run |
| `Workbench`, `WorkbenchProofs` | the controller between them | composes `Coder` and `Runner` over one `Worktree`; proofs |
| `Gates`, `GatesProofs` | Gate A, receipts, seals, Gate B, the evaluation bridge | the chain of custody of one experiment; proofs |
| `Verdicts` | trust and decisions | pure operators over integer scores |
| `Search` | search policy, eligibility, plan validation, duplicate keys | pure operators over the planner's summaries; uses `Verdicts` |
| `Campaign`, `CampaignProofs` | the controller over a whole search | composes `Search` and `Verdicts` with best, convergence and rounds; proofs |
| `Charges` | concurrent plans and coding sessions | what they spend and what the ledger is told |
| `Health` | sampling loops and the shared observer | one action per step of `observe` |
| `Round`, `RoundProofs` | a parallel round's resources | composes `Charges` and `Health`; proofs of both, carried over to the round |
| `MC...` | - | instances for TLC |

### Lifecycle

`run`, `best` and `node[x]` are the fields of `RunState` and `ExperimentNode`.
`evid[x]` holds what the validator looks up in the event prefix: the last
receipt, request, output, failure and recovery, the evaluations of a commit with
their seeds and the reproductions.  Where the reducer leaves the phase as it
was, so does the action.  A commit is a number, a score an integer, a verdict
one of the five the validator tells apart.  The recovery action is any the
constant `Policy` allows for the kind of failure, so that the theorems hold of
every policy that meets `PolicyAssumption`; the real one does (theorem
`RoutesMeetPolicyAssumption`).

### RecoveryRules

A failure is a record of the features the code's rules read: the outcome, the
class of its error code, the class of its text, the findings of a gate.
`Classify` and `Route` follow `classify_failure` and `_route` test by test and
in their order.  `RoutedTo` is the set of answers to the failures of one name.

### Harness

A lane is the program counter and locals of one `_run_one_experiment`: which
call it awaits (`coder`, `gate`, `run`, `outgate`, `lock`, `judge`, `decide`,
`repair`, `regate`), or which append it is about to make.  An append that the
ledger refuses sends the lane to `refused`, as `TransitionError` propagates.
asyncio switches only at an await, so a lane moves only if every other one is
at an await or at rest.  `outer` is `run_until_stopped`: its position, the stop
a parallel round has deferred, budget expiry, and crashes.  `Crash` loses every
local and leaves the ledger; the process that comes back is `run_until_stopped`
over the projection.  A classification is remembered at the site where the
call failed; `again` says that the failure's fingerprint repeats.  An adapter
may return or raise whatever `Faults` allows.  The evaluator is the production
bridge, because its way of resolving evidence decides whether a retry succeeds.

### Finalization

`fin` is where `finalize` is, with its locals; the rest is in the ledger of
`Lifecycle` and in `history`, the evaluations in ledger order, from which
`candidate_finalization_plan` takes the seed.  `Histories` are the stopped runs
it may start from: a candidate confirmed on two seeds, with or without an
earlier, repaired commit.  Attempt numbers are counted from the executions the
ledger has seen start, the input of a submission check is the latest accepted
inference.  `Interrupted` is an adapter that raises or a process that dies, at
any step: only the ledger survives, and the operator calls `finalize` again.

### Worktree, Coder, Runner, Workbench

`tree` is branch, worktree, index and files; a diff is a value relative to
HEAD.  The lease is two locks under one deadline.  `Coder` is a call of
`TraeCodingWorker`: prepare, lock, restore, verify, isolate, the passes in which
Trae and whatever it started may write (`Edit`) until their container is
proven gone, capture, review, commit, seal, and the discarding of a failed call.  Evidence files have
the names of attempt and round and are written once (`Keeps`).  `Runner` is
`_run_locked`: seal, prepare, launch, probe, deadline, extraction while the
supervisor holds the container, release, termination, finish, second seal,
capture.  Outcomes that the controller treats alike are merged: a hang counts as
an infrastructure error, a cancellation as fatal, every defect of the candidate
as a code error; one missed probe stands for the several that end a run.  The
local backend (`pod.local`) has no container: no supervisor waits, no probe finds
anything, the candidate may write until its process is gone, and its outputs are
where they are looked for.  A step of git that fails may leave its work half
done: a failed creation what its rollback could not remove (`RolledBack`), a
failed reset or discard the untracked files (`ResetStops`).  In
`Workbench` the controller starts one or the other as `router.py` routes their
answers.  Another process that holds the machine's lock counts as a fault.

### Gates

Commits give each path a class of content.  Gate A verifies the state, the diff,
the policy, the sources and the smoke run (`VerifyState` to `Smoke`), verifies
the state again (`Recheck`) and only then writes a receipt (`Issue`); a rejection
is routed as `classify_failure` does.  A run verifies its seal (`VerifySeal`), is
launched (`Launch`), verifies the seal again (`VerifySealAgain`), captures its
output (`Capture`) and seals it (`WriteSeal`); Gate B checks the output and the
bridge scores it.  `Meddle` is a change of anything readable by something that is
none of these, between any two steps and while a candidate runs: HEAD, the files,
the patch, the receipt, the output, the seal.  So what was verified may have moved
when it is relied on, between recheck and receipt as between seal and launch.
`used` observes, and no step reads it: the worktree as the smoke test or the run
found it, and what was changed between the verification before and that use, and
between that use and the verification after it.  `UsedTreesAreVerified` says how
far the two verifications bracket a use.  A change that is undone before the
second verification is not seen; against it stand the lease and the read-only
mount, which the model does not credit.
`frozen` stands for the protected content that git does not restore.  The
policy's own test for protected paths is folded into the integrity findings, and
the commit an output belongs to is read where the run finishes.

### Verdicts, Search, Campaign

A score is an integer in units of 0.0004, the grid on which the thresholds lie;
a mean of two seeds is kept doubled.  `h` is the planner's list of summaries.
`Choose` gives the legal choices of `SearchPolicy.choose`; the bandit's ranking
and the language model may take any of them, so a proposal is any member of it.
`Valid` is the plan validator, `Recordable` the ledger's rule for duplicate
keys.  `Campaign` plans single experiments or rounds with scouts, evaluates each
lane at proxy and on seeds, decides, moves the best and the two convergence
counts, synthesises, and stops.  Patches, gates and runs are abstracted to
`Abandoned`, with or without a terminal decision, as `Harness` shows both.
Proxy gains are measured from zero; budgets of time, tokens and queries are left out.

### Briefing

`told[x]` is the newest event of each type about `x`, `brief[x]` the recovery
context built from it.  `PromptAccepts` is the contract of
`build_repair_prompt`.  `Offered` and `ComponentFound` are the planner's summary
and the lookup of a component's patch and receipt.  The order of a repair
follows `_execute_code_repair`: once decided, failed, repeated at most once.

### Charges, Health, Round

`Charges`: every answered request and every pass costs one token.  The context
variables of the provider are one counter per task, each starting as a copy of
the router's.  `own` and `spent` are ghosts: what a direction or a session
really used.  The optional literature skill is left out.  `Health`: each lane's
thread samples, then identifies, adds and evaluates in three steps no lock
guards; `lone` is a ghost that says no other run was observed since this one
began.  `Round` joins them at the moment the lanes start to run.  Lanes are
synchronised there; nothing depends on it because the two parts share no state.

### EventStore

The file is its complete lines and whether a fragment follows; the disk is what
has been synced.  A process takes the lock, repairs (append and resume), reads,
checks, writes in two parts and syncs, one step each.  `Fail` is a kill, a
failed write or a failed sync; `PowerLoss` leaves any state between what was
synced and what was written.  An event is its idempotency key, which ends in the
hash of the payload.  The validator is the constant `Admits`.

## 3. Runs

| Run | Question | Instance | Properties |
|---|---|---|---|
| `lifecycle` | Do the incumbent and the final selection rest on the evidence required, and is a duplicate key spent at most three times, one attempt alive? | 1 experiment, 2 seeds, 1 confirmation, stop at any point; or 4 experiments that compete for 1 key | `BestIsVerified`, `FinalIsReproduced`, `SealedQueries`, `KeysAreSpentOnce` |
| `ends` | Do controller and ledger agree after any failure, and does the loop end, also after a crash? | 1 lane, every reported failure, 1 crash, fairness | `ControllerAgreesWithLedger`, `RoundsEndResumable`, `RunEnds` |
| `parallel` | Do two lanes share query numbers and the incumbent safely? | 2 lanes, budget 3, failures of each owner, budgets expiring | `QueryIndexIsFresh`, `EveryAcceptedGainIsKept` |
| `store` | Is the store a durable log? | 2 processes, 2 events, 2 failures, 1 power loss | `DurableLog`, `SyncedAppendsAreDurable`, `OnlyReadsMeetTornTails` |
| `finalize` | Is finalization idempotent, and is what is submitted what was checked? | 1 candidate, repaired or not, 2 faults or crashes | `NeverRefused`, `PlanNamesBestEvidence`, `SubmissionIsChecked`, `RetriesFinalize` |
| `workbench` | What can coder, runner, docker, git and a second process do to a worktree? | 2 diffs, 2 reviews, 1 repair, 2 runs, 2 faults | `LocksAreReturned`, `SealsWhatWasReviewed`, `LeaseGuardsTheTree`, `SuccessIsWhole`, `RetriesFindTheirCommit`, `EveryCallEnds` |
| `gates` | Does what is scored descend from what was inspected? | 3 attempts, 2 runs, 2 changes from outside | `ReceiptsAreClean`, `UsedTreesAreVerified`, `ScoredIsSealed`, `LegalCandidatesPass` |
| `campaign` | Do the policy, the validator, the evaluator and the stop rules agree over a search? | 3 experiments, width 1 or 2, 3 families | `BestNearIncumbent`, `BranchesRestOnEvidence`, `PolicyAndValidatorAgree`, `SynthesisIsPossible`, `EligibleIsAppointed` |
| `round` | Is each plan and session charged its own, each run judged by its own samples? | 2 lanes, 2 plan attempts, 2 reviews, 3 runs | `PlansAreChargedTheirOwn`, `SessionsAreCharged`, `LoneStallsAreNoticed`, `VerdictsRestOnOwnSamples` |
| `briefing` | Do failures and answers ever let an ungated commit run, reopen an experiment, or order what cannot be briefed? | 1 experiment, 2 repairs, 3 patches, every reported failure | `TypeOK`, `OnlyGatedCommitsRun`, `ClosedStaysClosed`, `OrdersCanBeBriefed`, `PortfolioRestsOnItsCommit` |
| `briefed` | Can the one retry of a failed repair be briefed? | as `briefing` | `GrantedRetriesCanBeBriefed`: violated |
| `components` | Is an ensemble only offered with its components? | as `campaign` | `EnsemblesNameTheirComponents`: violated |

All hold but the last two.

**Bounds.**  The ledger's rules speak of one experiment and at most of its
parent, the incumbent and its duplicate key; one experiment with every failure,
or two with few, reach every branch of every guard.  Four experiments are what
it takes to exceed three attempts of a key.  `Narrow` of `MCLifecycle` keeps the
`lifecycle` run small: one experiment goes all the way to the selection, or
several compete before any of them has a patch.  One key is enough, because what
a key may spend depends on its own attempts only; `KeysAreSpentOnceTheorem` is
about all of them.  One repair is what it takes to
change the commit in hand between a receipt, a run and a verdict; two seeds and
one confirmation separate eligibility on one seed from two; a budget of three
experiments with two lanes leaves room for a round after a round.  `MaxPatches`
and `MaxQueries` bound commits and evaluations per behaviour.  `Width` 2 is the
largest width production uses (`docs/HARNESS.md:38`).  Two failures and one
power loss let a failure be followed by a retry that fails and then by a loss.
`MaxFaults` of `Finalization` and `Workbench` is two for the same reason: the
fault, and one in what cleans up after it or retries.  Gate A's reference is the
approved parent, so three attempts give a chain whose middle one is neither it
nor the head, and `MaxMeddling` two lets a change be undone.  Three experiments
are a parent, its child and a synthesis of two siblings; the gains, jitters and
evidences are one on each side of each threshold; a patience of two is the least
that counts.  `Health`'s window of three holds a baseline and two spikes, and a
run of four ticks overflows it.  `Briefing` has two repairs because that is
production's `MAX_REPAIR_ATTEMPTS`, and no confirmation because no context reads
one; hence no experiment is confirmed there and `best.updated`, which neither a
recovery context nor eligibility reads, is left out. The planner is briefed
between rounds only.  The theorems of section 5
remove the bounds for all these safety properties.  `Briefing` keeps its two
repairs, which its theorems assume, and `RoundsEndResumable` its one lane.

**Fairness.**  `ends`: weak fairness of each lane and of the loop.  asyncio's
ready queue is first-in first-out, so a coroutine that can run does; every
adapter call ends because each adapter has a timeout.  A crash and the expiry
of a budget are not fair.  The instance allows one crash; without a bound a run
that crashes for ever need not end.  `finalize`: weak fairness of `Step`, that
is of finalize and of an operator who calls it again after each failure
(`docs/HARNESS.md:166`).  `workbench`: weak fairness of the coder's and the
runner's own steps, which are threads of the controller, and of the clock
(`WallTimePasses`).  Trae, the candidate, docker and other processes are not
fair: that every call ends although they may do nothing is what `EveryCallEnds`
says.

**Deadlock** is not checked: a finished run stops.

## 4. Divergences found

`briefed` is a run of its own: the router grants a failed repair one retry
(`router.py:734`), but builds the retry's context from the worker's failure.
Where the repair answers a Gate A rejection and no earlier commit has a receipt,
or the failed attempt took the last repair, `build_repair_prompt` refuses it
(`coding/prompts.py:257`, `:273`) and the error stops the run.

`components` is the other.  A comment (`research/search_policy.py:204`-`211`) says
that an ensemble is left to the route that can name its components, because the
plan validator refuses one without them (`research/plan_validation.py:327`).  The
guard below it is skipped where a method is preferred: the reimplementation of a
no-op (`:591`-`613`) and the deepening of an improvement (`:1039`-`1060`) offer the
ensemble they follow once more, with no components.  The provider takes the
components from the choice (`providers/deepseek.py:752`-`757`), and the proposal is
refused.

The rest were seen while modelling.  The modules do what the code does, and the
properties above are stated so that they hold of it.

Controller and ledger:

* `_abandon_experiment` (`router.py:942`) appends an INVALID decision when
  recovery has already closed the experiment, or while it is recovering; the
  validator admits one only after Gate B or an evaluation.  The refused append
  stops the run as a control-plane failure, where `docs/HARNESS.md:104` promises
  that only the experiment is abandoned.
* The decision bridge (`live.py:744`) resolves the execution through the cause
  of the evaluation; a retried one is caused by the recovery decision, so the
  decider raises and the experiment is abandoned, though `docs/HARNESS.md:102`
  says that evaluator failures retry the evaluator.
* A repaired candidate reruns the failed request with its seed
  (`router.py:1251`), while the schedule is counted from the new commit's
  evaluations: the next confirmation repeats that seed, and the validator then
  refuses its evidence.
* `run_until_stopped` accepts to resume at a phase that belongs to the run as a
  whole (`router.py:2278`).  One lane's decision sets it to `planning` while the
  other lane's call is in flight; after a crash there, that experiment is left
  behind, where `docs/HARNESS.md:166` says the phase is ambiguous and fails closed.
* An append that died between its write and its fsync is acknowledged to its
  retry as a duplicate (`router.py:193`), which nobody has synced.
* A crash between the accepted decision and `best.updated` (`router.py:1871`)
  loses the gain: the resumed run plans on from the old incumbent.
* A crash between `final.selected` and `submission.checked` leaves the status
  `finalizing`, which `finalize` refuses (`router.py:2380`), though
  `docs/HARNESS.md:166` calls it an explicit retry.
* When the repair worker is unavailable, the handler asks whether the *active*
  experiment is closed (`router.py:968`), but an abandonment clears it: the run
  stops where its comment says planning continues.
* A failure recorded by a parallel lane's handler and raised again is recorded a
  second time by `_run_parallel_lane` (`router.py:2077`).

Worktree and gates:

* A restart from the trusted parent that fails leaves HEAD at that parent; its
  granted retry names the rejected commit and fails with
  `WORKTREE_COMMIT_MISMATCH` (`router.py:722`-`762`).  `RetriesFindTheirCommit`
  speaks of initial attempts and repairs.
* The retry of an initial attempt and the first repair are both attempt 2
  (`live.py:344`): the second finds the evidence directory of the first and
  fails with `ARTIFACT_PATH_COLLISION`.
* A candidate that orders or repeats its rows wrongly is `OUTPUT_IDENTITY_MISMATCH`
  (`safety/output_gate.py:688`), which the classifier counts among the control
  plane's invariants (`recovery/classifier.py:68`): its own defect ends the run.

Search:

* An experiment promoted at proxy and abandoned afterwards without a terminal
  decision blocks all planning, the deadlock that the comment at
  `router.py:911`-`927` means to exclude.
* A no-op's reimplementation as lane zero of a round repeats its key:
  `planning.failed` is recorded, whose phase `run_until_stopped` refuses, under
  the error that promises a resume (`router.py:2012`-`2033`).  Therefore
  `RoundsEndResumable` is checked with one lane.
* The policy offers again a method that failed without scientific information
  (`research/search_policy.py:228`-`234`); the plan validator refuses it as a
  duplicate (`research/plan_validation.py:447`-`454`).
  `PolicyAndValidatorAgree` excepts mechanisms already tried from the parent, and
  the ensembles of the `components` run.
* The refinement of a parent pruned at proxy has no full reference:
  `_reference_metrics` (`router.py:256`) raises, while `live.py:1019` walks up
  to an evaluated ancestor for exactly this case.
* The projection counts only accepted full evaluations against patience
  (`memory/projections.py:257`), `convergence_pressure` every decided experiment
  (`orchestrator/convergence.py:45`): the planner is shown another count than
  the one that stops the run.  The second also differs from `docs/HARNESS.md:40`.
* Depth-first backtracking (`docs/research/planning-and-search.md:64`) is
  reached only with an empty family history: later, `_playbook_choice` always
  routes, or blocks, by the latest outcome.

Round:

* All lanes share one `SREObserver` (`live.py:1235`), whose window is cleared
  when another execution is observed: two lanes that alternate never fill it,
  and a stall or an explosion of either goes unnoticed.  The two properties of
  `Health` are about runs observed alone.
* A coding pass whose own record cannot be read is not charged, although
  `docs/person3-handoff.md:157` says that usage survives failure.
  `SessionsAreCharged` excepts that last pass.
* `PortfolioRestsOnItsCommit` depends on the budget of two repairs: with three,
  a rejected commit could be newer than the evaluation shown beside it.

## 5. Proofs

All are checked by TLAPS for every value of the constants that meets the
assumptions named in the modules.

**Lifecycle** (`BoundsAssumption`, `DomainAssumption`, `PolicyAssumption`).
`TypeCorrect` first.  None of the safety invariants is inductive alone: that
only gated commits run depends on a retry resuming no later than the stage that
failed, and that the incumbent is verified depends on the verdict in hand being
about the commit in hand.  `IInv` says both: a failure kept by a recoverable
experiment is of a gated commit (`HoldsGatedCommit`), a confirmed verdict rests
on two seeds of the present commit even while it waits for a retry of the
decision (`ConfirmedByTwoSeeds`), and final commands exist only for the sealed
incumbent (`FinalCommandsAreSealed`).  `Invariance` proves it, one step per
event; `OnlyGatedCommitsRunTheorem`, `BestIsVerifiedTheorem` and
`FinalIsReproducedTheorem` follow.  `ClosedStaysClosedTheorem` and
`SealedQueriesTheorem` are action properties proved from it.
`KeysAreSpentOnceTheorem` is a second induction over the cardinality of the
attempts of a key: a failed attempt never revives, so a fourth is never legal.

**Recovery** (`HarnessAssumption`, `AllowedAssumption`, and the type
correctness of the ledger's projection).  `AnswersAreAdmitted`: for every
failure and every context read from a well-typed projection, the ledger admits
the action the policy routes to.  The policy's limits and the validator's are
separate pieces of code; the theorem says that they cannot drift apart.
`RoutesMeetPolicyAssumption`: the policy has the properties `Lifecycle` assumes;
`RoutesMeetBriefingAssumption`: and those `Briefing` does.  All three are in
`HarnessProofs`, where policy and ledger meet.

**Harness** (the assumptions of Recovery and Lifecycle; `HarnessAssumption` with
seeds numbered from one, fewer confirmations than seeds, one lane at least).
`HarnessIsLifecycle`: the research loop implements the ledger.  A lane appends
without looking at the ledger's rules, so that an append is admitted must follow
from where the lane is.  `HInv` says what that is.  The experiment is at the
status the lane's next call belongs to (`AgreesAt`); a failure the policy is
asked about is the one the ledger would let it answer (`FailureIsAtHand`); the
fidelities left to a lane are a function of its last request
(`StagesFollowPlan`); a failure of the repair worker has not been recorded
before (`CodingUnrecorded`).  These hold of a lane through its own steps by one
lemma per action (`StepSound`), and through those of the lanes beside it because
an append changes one experiment only (`StepKeeps`).  `OneJudge`, that the
evaluation lock has one holder, gives `QueryIndexIsFreshTheorem`; `GainsKept`,
that the gain of an accepted experiment is met by the incumbent unless its lane
has the best update still before it, gives `EveryAcceptedGainIsKeptTheorem`.
`ControllerAgreesWithLedgerTheorem` is `AgreesAt` of every lane.  Because
`HSpec => Spec`, all theorems of Lifecycle hold of the loop's runs, for any
number of lanes, failures and crashes.

`RoundsEndResumableTheorem` is about `Sequential` runs: `Width = 1`, and
`AdaptersReport`, that no exception of an adapter carries a candidate-scoped code
(only the results of the gates do, and the `ends` run has no other).  Its
invariant `RoundInv` adds to `HInv` that one lane at most is at work
(`OneAtWork`), only within a round (`WorkIsInRounds`), and that it is the one with
the open experiment, while the phase is none to resume at (`OpenIsAtWork`); where
nothing is open it is (`PausesAreResumable`).  A lane that ends must therefore
have closed its experiment.  Most sites just return when recovery neither retries
nor repairs, so this rests on two things a lane remembers (`AnswersClose`): the
one retry of a second attempt is spent, and what it answers is a failure of its
own kind, for which the policy then has no answer left that keeps the experiment
open.  A crash leaves the experiment open at a phase the loop refuses, which is
where the invariant needs `restart`.

**Finalization** (in `ControllerProofs`; `FinalizationAssumption`, whose
`0 \notin Seeds` says that the value for "no seed" is none).  `FinalInv` says what finalize knows at each stage:
where the ledger is (`LedgerIsAtStage`), that its own reproduction is recorded
from the evaluation on (`ReproductionIsRecorded`), that inference and check
follow it in this order and are of one another (`StagesAreOrdered`), and that
the newest evaluation with the best score is of the best commit
(`BestHasEvidence`), which is why the plan finds its seed.
`FinalizationIsLifecycle` follows, hence `SelectionIsReproduced` from
Lifecycle's `IInv`, and `NeverRefusedTheorem`, `PlanNamesBestEvidenceTheorem`
and `SubmissionIsCheckedTheorem`.

**Briefing** (in `ControllerProofs`; `BriefingAssumption`: at most two repairs, the
configuration's own limit (`config.py:115`); a code repair answers a reported
result, and only a no-op or the failure of its repair goes back to the planner).
A context joins the newest event of each type, and nothing says that they are of one commit.
`BriefingInv` does: the newest accepted receipt is the one the validator looks
up, and is of the evaluated commit while there is no younger one
(`ReceiptIsTold`); from the order of a repair to its patch nothing happens but
its failure (`OrderStands`); and an experiment whose no-op is being wired has
spent the first of its repairs, so that it cannot return to the planner with a
commit younger than its evaluation (`WiringIsTold`), which is where the limit of
two matters.  `OrdersCanBeBriefedTheorem` and `PortfolioRestsOnItsCommitTheorem`
follow.  `BriefingIsLifecycle`: what is told changes nothing that happens, so
the theorems of Lifecycle hold here too.

**Workbench** (`WorktreeAssumption`, `CoderAssumption`, `RunnerAssumption`).
`WorkbenchInv`: one component works at a time (`Turns`); each holds the locks of its place in the code, both or none
(`LocksFollow`); what writes without a lease is gone or has made the call fail
for good (`BoxIsClosed`, `PodIsClosed`); the base a call verified is still HEAD
when it commits (`BaseIsHead`), and what the review saw is still the index
(`ReviewedIsStaged`).  The five theorems about locks, seals, the lease, runs and
retries follow, three of them action properties.

**Gates** (`GatesAssumption`).  Gate A's findings accumulate over five steps in
which anything readable may change.  Acceptance is sound because the absence of
a finding means what its step looked for (`Cleared`), rejection is just because,
undisturbed, a finding means a fault (`Blamed`); `Custody` carries a receipt to
the run, the check and the score.  `BracketInv` follows each part of the
worktree through a use: verified, it is the candidate's unless changed since;
used, it is as it was found unless changed since; the second verification joins
the two.  `UsedTreesAreVerifiedTheorem` follows, for any number of changes.  `NoSecretIsRepaired`: undisturbed, a commit with a credential is
never the base of a repair, which is why the scan of removed lines rejects no legal
candidate.  Ancestry is the least set closed under the
one parent of each commit, for the prover cannot use a recursive one.

**Event store** (`StoreAssumption`: the mark for a free lock is no process).
`StoreImplementsLedger`: `EventStore` implements `Ledger` under the mapping that
takes the log to be the synced lines.  The step that matters is the fsync, which
makes durable a line checked several steps earlier.  `StoreInv` carries the
argument: a process inside an operation holds the lock, so what it has read is
still the file (`StillCurrent`); every line of the file is new and legal where
it stands, synced or not (`SoundLines`); and the disk holds a prefix of the file
(`SyncedIsPrefix`), which is why a loss of power leaves a sound ledger.
`SyncedAppendsAreDurableTheorem` follows from the refinement: the log only
grows.  `OnlyReadsMeetTornTailsTheorem` adds that a fragment is either being
written by the holder of the lock or left by a process that failed, and that an
operation which repairs has removed it before it reads.

**Campaign** (`SearchAssumption`: the families of the playbook do not share a
card, the cards that the policy calls by name are in it, and a synthesis asks for
no more than two confirmed components; `CampaignAssumption`).  `CampaignInv`: a
summary's seeds, verdict, decision and status belong together, and its parent is
an earlier experiment that is over (`SummariesCohere`); nothing is open but the
lanes of the round, and nothing branches from those (`RoundsAreApart`), which is
why no later step can change what a branch rests on; the best was accepted
(`BestIsAccepted`); a mechanism is repeated only after a no-op of it
(`RepeatsFollowNoOps`), on which the ledger's duplicate guard depends.
`BestNearIncumbent` and `BranchesRestOnEvidence` are conjuncts, each inductive
only beside the others: the count follows the best because an experiment becomes
the best with its own decision, and a branch keeps its evidence because its
parent is over.  `CampaignInvariance` proves it;
`EligibleIsAppointedTheorem` follows from integer arithmetic over the two seeds
and the jitter that aggregation admits.  `PolicyAndValidatorAgreeTheorem` takes
every route of the policy in turn and shows its choices to pass every rule of the
validator, for any history that meets the invariant and any playbook that meets
the assumption; `SynthesisIsPossibleTheorem` does so for the synthesis of two
improvements.  That the policy's order of experiments has a first one is shown by
counting those before each and taking the least count (`LeastNumber`), because
an induction over the history is beyond the prover.

**Round** (`ChargesAssumption`, `HealthAssumption`, `RoundAssumption`).  Both
properties of `Charges` compare what is charged with a ghost, at the end;
`ChargesInv` says where the difference is until then.  While a direction waits,
the counter of its own context holds exactly what it was answered (`SoundTask`):
this is where a retry must clear the counter it inherits.  What a session spent is
in the delta it carries, but for the answers of the review under way
(`SoundSession`), which is why a failed review must add them.  `HealthInv` says of
a run observed alone that the shared window ends in its own samples, all of them
or as many as it takes, unless another lane is being watched and it has none yet
(`SoundWatch`); hence the observer sees the stall that the run's own samples show
(`LoneStallsAreNoticedTheorem`), and ends it for nothing else
(`VerdictsRestOnOwnSamplesTheorem`).  `HealthAssumption` asks that a stall's
samples fit the window and that a baseline has an odd number, so that its median
is one of them; both hold of `SREObserver()` as `live.py:1235` builds it.  `RoundInvariance`
carries both over to the composition, so `PlansAreChargedTheirOwnTheorem`,
`SessionsAreChargedTheorem` and the two above are about `Round`, for any number of
directions, attempts, reviews and samples.

**Only model-checked.**  What is under fairness, because TLAPS does not reason
about ENABLED: `RunEnds`, `RetriesFinalize`, `EveryCallEnds`.  The two violated
properties are refuted by a behaviour, which TLC finds.

## 6. Plan

1. *Harness*, continued: the fallback to one lane on exhausted capacity, lessons
   and reflections where an append depends on them.
2. *Lessons*: the status rules, with the retrieval that reads them.
3. *Evaluation adapter*: its routes and identity checks beyond those in `Gates`.
4. *Deployment*: the start-up checks and the command line's refusal to run twice.

## 7. Not modelled

Text and data: prompts, parsing, redaction, schemas, canonical encoding, the
hash chain and other integrity checks of a ledger line (only `append` writes the
file in the model), resource totals, lesson tables, reports and views, the
packing of contexts under token budgets.  Numerics: metrics, slices, diagnostics
and projections are floating-point arithmetic over data.  External parts: the
language models, git, docker and the operating system are what their callers in
`src/` rely on; the disk and its cache, the container and its candidate are the
ones with state in the models.  The candidate solution, the benchmarks, the
viewer and the scripts are not part of the harness.

Smaller abstractions, each of which adds or removes only what no property tells
apart.  *Ledger:* evaluations of the hidden final set
(`state_machine.py:510-536`) are left out, because nothing in the loop or in
`finalize` requests one.  *Harness:* a refused `experiment.proposed` and a
proposal that cites another context (`router.py:1057`, `:2041`) are left out; they
leave the loop as an exception, like an invalid plan.  Every proposal has the
baseline as its parent.  A retried no-op evaluation that the bridge refuses is
one of the evaluator's exceptions.  *Event store:* the fsync of the ledger's directory is taken to
succeed with the creation, and `repair_incomplete_tail` is part of the operation that calls
it.  *Search:* the budget conditions of the convergence advisor are a choice.
*Charges:* each direction has a counter of its own, as the code gives it one;
an answer without usage costs one, the fallback.  *Health:* only live
processes are sampled, so the verdict for a dead one is not met, and idleness on
low CPU is idleness.  *Gates:* custody of an output begins with its capture.
*Campaign:* that all seeds were compared to the same reference
(`adapter.py:609-633`) always holds in production, where the bridge recomputes
the gains of earlier seeds against the present reference (`live.py:878-899`), and
is not a condition of the model.
