------------------------------ MODULE Campaign ------------------------------
(***************************************************************************)
(* A whole search: the controller plans one experiment or a round of them, *)
(* each lane is evaluated, decided or abandoned, the incumbent moves, and  *)
(* the round may end in a synthesis, until a stop rule matches. Patches,   *)
(* gates and runs are the business of other modules: here a lane that they *)
(* end is abandoned.                                                       *)
(***************************************************************************)
EXTENDS Search

CONSTANTS Widths,           \* the values of parallel_directions
          MaxExperiments,
          Patience,         \* convergence_patience
          ProxyDeltas, FullDeltas,  \* gains over the parent an evaluation shows
          Jitters,          \* what a second seed adds to the first
          Evidences,        \* Evidence the instance enumerates
          Shapes            \* component metrics and correlation with the parent

ASSUME CampaignAssumption ==
    /\ Widths \subseteq Nat \ {0} /\ MaxExperiments \in Nat /\ Patience \in Nat \ {0}
    /\ ProxyDeltas \cup FullDeltas \cup Jitters \subseteq Int
    /\ Evidences \subseteq Evidence
    /\ Shapes \subseteq [trade : {"none", "gauc_up", "ndcg_up", "both_up"},
                         diverse : BOOLEAN]

VARIABLES width,        \* parallel_directions of this run
          h,            \* the planner's summaries, in proposal order
          best,         \* state.best_experiment_id
          pressure,     \* convergence_pressure: [incumbent, count]
          shown,        \* the projection's own count, shown to the planner
          round,        \* the lanes under way and the score they started from
          status, reason

vars == <<width, h, best, pressure, shown, round, status, reason>>

RefScore(i) == IF i = 0 THEN 0 ELSE LastOf(h[i].seeds)
NoRound == [members |-> {}, start |-> 0, parallel |-> FALSE, broken |-> {}]
Fresh == [incumbent |-> 0, count |-> 0]

Init ==
    /\ width \in Widths /\ h = <<>> /\ best = 0 /\ pressure = Fresh /\ shown = Fresh
    /\ round = NoRound /\ status = "planning" /\ reason = "none"

----------------------------------------------------------------------------
(* Planning.                                                               *)

Proposed(c) ==
    [parent |-> c.parent, method |-> c.method, comps |-> c.comps,
     fidelity |-> "none", verdict |-> "none", stability |-> "none",
     integrity |-> "none", output |-> "none", delta |-> 0, seeds |-> <<>>,
     trade |-> "none", diverse |-> FALSE,
     decision |-> "open", status |-> "open", bestOk |-> FALSE]

Launch(choices, parallel) ==
    /\ h' = h \o [n \in DOMAIN choices |-> Proposed(choices[n])]
    /\ round' = [members |-> Len(h) + 1 .. Len(h) + Len(choices),
                 start |-> RefScore(best), parallel |-> parallel, broken |-> {}]
    /\ status' = "running" /\ reason' = "none"
    /\ UNCHANGED <<width, best, pressure, shown>>

Halt(state, why) ==
    /\ status' = state /\ reason' = why
    /\ UNCHANGED <<width, h, best, pressure, shown, round>>

\* stop_decision; the budgets of time and tokens are left out.
StopRule ==
    IF Len(h) >= MaxExperiments THEN "experiment_budget"
    ELSE IF pressure.count >= Patience THEN "converged" ELSE "none"

StopByRule ==
    /\ status = "planning" /\ StopRule # "none"
    /\ Halt("stopped", StopRule)

\* ConvergenceAdvisor, on the count the projection shows.
AdviceStops ==
    shown.count >= Patience /\ \E i \in Ids(h) : h[i].fidelity = "full"

Primaries == IF Choose(h) = {} THEN {{}} ELSE {{c} : c \in Choose(h)}
\* The policy's own choice leads, the scouts follow in the playbook's order.
Leads(primary, c, d) ==
    d \notin primary /\ (c \in primary \/ CardBefore(c.method, d.method))
RoundSize(choices) ==
    CHOOSE n \in 0 .. Cardinality(choices) :
        /\ n <= width /\ n <= MaxExperiments - Len(h)
        /\ n \in {width, MaxExperiments - Len(h), Cardinality(choices)}
RoundsOf(primary) ==
    LET choices == primary \cup Scouts(h, primary)
    IN  {lanes \in [1 .. RoundSize(choices) -> choices] :
            \A n \in DOMAIN lanes : \A c \in choices :
                Leads(primary, c, lanes[n]) <=> \E k \in 1 .. n - 1 : lanes[k] = c}

Rounds == (UNION {RoundsOf(primary) : primary \in Primaries}) \ {<<>>}

CanPlan == status = "planning" /\ StopRule = "none"
RoundTurn == CanPlan /\ width > 1 /\ Rounds # {}
SingleTurn == CanPlan /\ (width = 1 \/ Rounds = {})

AllValid(lanes) == \A n \in DOMAIN lanes : Valid(h, lanes[n])
Repeated(lanes) == \E n \in DOMAIN lanes : Twins(h, lanes[n]) # {}

RoundStarts ==
    /\ RoundTurn /\ ~AdviceStops
    /\ \E lanes \in Rounds :
           AllValid(lanes) /\ ~Repeated(lanes) /\ Launch(lanes, TRUE)

\* One direction that is not a proposal ends the run.
RoundIsIncomplete ==
    /\ RoundTurn
    /\ AdviceStops \/ \E lanes \in Rounds : ~AllValid(lanes)
    /\ Halt("stopped", "round_incomplete")

\* planning.failed: a phase no run resumes from.
RoundRepeatsItself ==
    /\ RoundTurn /\ ~AdviceStops
    /\ \E lanes \in Rounds : AllValid(lanes) /\ Repeated(lanes)
    /\ Halt("planning_failure", "duplicate_directions")

ExperimentStarts ==
    /\ SingleTurn /\ ~AdviceStops
    /\ \E c \in Choose(h) : Valid(h, c) /\ Launch(<<c>>, FALSE)

\* ResumablePlanningError, raised out of the run to the operator.
AdviceIsRefused == SingleTurn /\ AdviceStops /\ Halt("refused", "advice")
PlanIsRefused ==
    /\ SingleTurn /\ ~AdviceStops
    /\ \E c \in Choose(h) : ~Valid(h, c)
    /\ Halt("refused", "plan")

NothingIsLegal ==
    /\ SingleTurn /\ ~AdviceStops /\ Choose(h) = {}
    /\ Halt("stopped", "no_legal_proposal")

ProviderFails ==
    /\ CanPlan /\ ~AdviceStops /\ (Choose(h) # {} \/ RoundTurn)
    /\ Halt("stopped", "provider_failure")

Resume == status = "refused" /\ Halt("planning", "none")

----------------------------------------------------------------------------
(* Lanes.                                                                  *)

Open(i) ==
    status = "running" /\ i \in round.members \ round.broken /\ h[i].status = "open"

\* Mutant of Weigh: the incumbent stays where the baseline was
WeighFromBaseline(c, score) ==
    IF score > c.incumbent + Epsilon THEN [c EXCEPT !.count = 0]
    ELSE [c EXCEPT !.count = @ + 1]

\* One iteration more: a gain of more than epsilon clears the count.
Weigh(c, score) ==
    IF score > c.incumbent + Epsilon THEN [incumbent |-> score, count |-> 0]
    ELSE [c EXCEPT !.count = @ + 1]
StillNothing(c) == [c EXCEPT !.count = @ + 1]

NodeScore(s) == IF s.seeds = <<>> THEN s.delta ELSE LastOf(s.seeds)

\* convergence_pressure, per decision; the abandoned count for nothing.
PressureAfter(s) ==
    IF s.decision \in {"promote", "invalid"} THEN pressure
    ELSE IF s.fidelity = "full" /\ s.verdict = "accepted"
    THEN Weigh(pressure, LastOf(s.seeds)) ELSE StillNothing(pressure)

\* The projection counts every terminal decision of the full stage.
ShownAfter(s, stage) ==
    IF s.decision = "promote" \/ stage # "full" \/ s.verdict # "accepted" THEN shown
    ELSE Weigh(shown, NodeScore(s))

StatusOf(decision) ==
    CASE decision = "promote" -> "open" [] decision = "accept" -> "accepted"
      [] decision = "reject" -> "rejected" [] decision = "prune" -> "pruned"
      [] decision = "invalid" -> "invalid"

\* evaluation.completed, experiment.decided and best.updated of one lane: no
\* other lane runs in between. A no-op is not decided but left to recovery.
Judge(i, s, ruling) ==
    LET done == [s EXCEPT !.decision = ruling.decision, !.bestOk = ruling.bestOk,
                          !.status = StatusOf(ruling.decision)]
    IN  /\ h' = [h EXCEPT ![i] = IF s.verdict = "no_op" THEN s ELSE done]
        /\ IF s.verdict = "no_op" THEN UNCHANGED <<best, pressure, shown>>
           ELSE /\ pressure' = PressureAfter(done)
                /\ shown' = ShownAfter(done, s.fidelity)
                /\ best' = IF ruling.bestOk /\ LastOf(s.seeds) > RefScore(best)
                           THEN i ELSE best
        /\ UNCHANGED <<width, round, status, reason>>

\* Component metrics are read of the pairwise objective alone.
ShapesOf(m) == {z \in Shapes : m = "pairwise" \/ z.trade = "none"}
Evaluated(s, fidelity, seeds, delta, trust, shape) ==
    [s EXCEPT !.fidelity = fidelity, !.seeds = seeds, !.delta = delta,
              !.verdict = trust.verdict, !.stability = trust.stability,
              !.integrity = trust.integrity, !.output = "accepted",
              !.trade = shape.trade, !.diverse = shape.diverse]

\* The gain is read of sound predictions alone.
GainsOf(evidence, gains) == IF evidence = "sound" THEN gains ELSE {0}

Proxy(i) ==
    /\ Open(i) /\ h[i].decision = "open"
    /\ \E e \in Evidences, shape \in ShapesOf(h[i].method) :
       \E d \in GainsOf(e, ProxyDeltas) :
           LET trust == Assess("proxy", <<d>>, 0, e)
               s == Evaluated(h[i], "proxy", <<>>, d, trust, shape)
           IN  Judge(i, s, IF e = "no_op" THEN Ruling("open", FALSE, FALSE)
                           ELSE Decide(trust, "proxy", <<d>>, 0, 0))

HasFullReference(p) == IF p = 0 THEN TRUE ELSE h[p].seeds # <<>>

\* A repaired no-op is another commit: its seeds start again.
Prior(s) == IF s.verdict = "no_op" THEN <<>> ELSE s.seeds

Full(i) ==
    /\ Open(i) /\ h[i].decision = "promote" /\ HasFullReference(h[i].parent)
    /\ \E e \in Evidences, shape \in ShapesOf(h[i].method) :
       LET p == RefScore(h[i].parent)
           prior == Prior(h[i])
           scores == IF prior = <<>> THEN {p + d : d \in GainsOf(e, FullDeltas)}
                     ELSE IF e # "sound" THEN {p} ELSE {prior[1] + j : j \in Jitters}
       IN  \E x \in scores :
           LET seeds == Append(prior, x)
               trust == Assess("full", seeds, p, e)
               s == Evaluated(h[i], "full", seeds, x - p, trust, shape)
           IN  Judge(i, s, IF e = "no_op" THEN Ruling("promote", FALSE, FALSE)
                           ELSE Decide(trust, "full", seeds, p, RefScore(best)))

\* _reference_metrics: a parent pruned at proxy has no full evaluation.
ReferenceIsMissing(i) ==
    /\ Open(i) /\ h[i].decision = "promote" /\ ~HasFullReference(h[i].parent)
    /\ round' = [round EXCEPT !.broken = @ \cup {i}]
    /\ UNCHANGED <<width, h, best, pressure, shown, status, reason>>

\* return_to_planner after a no-op that its repair did not cure.
NoOpIsReturned(i) ==
    /\ Open(i) /\ h[i].verdict = "no_op"
    /\ h' = [h EXCEPT ![i].status = "no_op"]
    /\ UNCHANGED <<width, best, pressure, shown, round, status, reason>>

\* Coding, gates, runs or the evaluator fail for good, with or without the
\* terminal decision; the last output checked may be one that was rejected.
Abandoned(i) ==
    /\ Open(i)
    /\ \E decision \in {"invalid", h[i].decision}, output \in {h[i].output, "rejected"} :
           /\ output = "rejected" => decision = "invalid"
           /\ LET s == [h[i] EXCEPT !.decision = decision, !.output = output,
                                    !.status = "invalid"]
                  stage == IF h[i].decision = "promote" THEN "full" ELSE "proxy"
              IN  /\ h' = [h EXCEPT ![i] = s]
                  /\ shown' = IF decision = "invalid" THEN ShownAfter(s, stage) ELSE shown
    /\ UNCHANGED <<width, best, pressure, round, status, reason>>

----------------------------------------------------------------------------
(* The end of a round.                                                     *)

RoundDone ==
    /\ status = "running"
    /\ \A i \in round.members : h[i].status # "open" \/ i \in round.broken

\* _round_improvements, against the score the round started from.
Improvements ==
    {i \in round.members :
        /\ h[i].status = "accepted" /\ h[i].bestOk
        /\ LastOf(h[i].seeds) > round.start}
WantsSynthesis ==
    /\ round.parallel /\ Cardinality(Improvements) >= 2
    /\ Len(h) < MaxExperiments

Syntheses == {c \in Synthesis(h, Improvements) : Valid(h, c)}

RoundEnds ==
    /\ RoundDone /\ round.broken = {} /\ ~WantsSynthesis
    /\ round' = NoRound /\ status' = "planning"
    /\ UNCHANGED <<width, h, best, pressure, shown, reason>>

RoundIsBroken ==
    /\ RoundDone /\ round.broken # {} /\ Halt("stopped", "control_plane_failure")

\* _run_round_synthesis: planned under the same advice and validation.
SynthesisIsPlanned ==
    /\ RoundDone /\ round.broken = {} /\ WantsSynthesis
    /\ IF AdviceStops \/ Syntheses = {}
       THEN /\ round' = NoRound /\ status' = "refused" /\ reason' = "synthesis"
            /\ UNCHANGED <<width, h, best, pressure, shown>>
       ELSE \/ \E c \in Syntheses : Launch(<<c>>, FALSE)
            \/ Halt("stopped", "provider_failure")

----------------------------------------------------------------------------
Planning ==
    \/ StopByRule \/ RoundStarts \/ RoundIsIncomplete \/ RoundRepeatsItself
    \/ ExperimentStarts \/ AdviceIsRefused \/ PlanIsRefused
    \/ NothingIsLegal \/ ProviderFails \/ Resume
Lane(i) ==
    \/ Proxy(i) \/ Full(i) \/ ReferenceIsMissing(i)
    \/ NoOpIsReturned(i) \/ Abandoned(i)
Closing == RoundEnds \/ RoundIsBroken \/ SynthesisIsPlanned

Next == Planning \/ (\E i \in Ids(h) : Lane(i)) \/ Closing
Spec == Init /\ [][Next]_vars

----------------------------------------------------------------------------
(* Properties.                                                             *)

\* The evaluation module appoints by the mean of the seeds over the best's
\* score, the router moves the incumbent by the last seed alone (decide and
\* run_one_experiment): the two must never disagree, so no appointed gain is lost.
EligibleIsAppointed ==
    [][\A i \in Ids(h) : h'[i].bestOk /\ ~h[i].bestOk => best' = i]_vars

\* The incumbent of convergence_pressure follows the best: a best that ran
\* ahead of it would let one gain clear the patience twice.
BestNearIncumbent == RefScore(best) <= pressure.incumbent + Epsilon

\* Whatever was branched from gained over its own parent on two seeds, but
\* for the one refinement of a clean trade-off that the policy allows.
BranchesRestOnEvidence ==
    \A i \in Ids(h) : h[i].parent # 0 =>
        LET p == h[i].parent
        IN  IF h[p].decision = "accept"
            THEN /\ Len(h[p].seeds) = RequiredSeeds /\ h[p].integrity = "clean"
                 /\ Mean2(h[p].seeds) > 2 * RefScore(h[p].parent)
            ELSE /\ h[p].method = "pairwise" /\ TradeOff(h[p])
                 /\ h[p].status \in {"pruned", "rejected"}
                 /\ Children(h, p) = {i}

\* What the policy offers, the plan validator accepts, and so would the
\* ledger, unless the same mechanism was already tried from the same parent or
\* an ensemble is offered without its components.
PolicyAndValidatorAgree ==
    CanPlan => \A c \in Choose(h) :
        /\ /\ Twins(h, c) = {}
           /\ FamilyOf(c.method) = "ensemble" => c.comps # {}
           => Valid(h, c)
        /\ Valid(h, c) => Recordable(h, c)

\* An ensemble is left to the route that can name its components, says
\* search_policy.py:204-211: any other would be refused by the validator.
EnsemblesNameTheirComponents ==
    CanPlan => \A c \in Choose(h) :
        FamilyOf(c.method) = "ensemble" => c.comps # {}

\* Two improvements of a round can always be aligned (choose_synthesis).
SynthesisIsPossible ==
    RoundDone /\ round.broken = {} /\ WantsSynthesis => Syntheses # {}
=============================================================================
