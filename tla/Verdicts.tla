------------------------------ MODULE Verdicts ------------------------------
(***************************************************************************)
(* What the protected evaluation says of a candidate's scores (assess_trust *)
(* and aggregate_seeds) and what the controller decides from it (decide).  *)
(* Scores are integers in units of 0.0004, the grid of the thresholds; a   *)
(* mean of two seeds is kept doubled.                                      *)
(***************************************************************************)
EXTENDS Integers, Sequences

EtaFloor == 4              \* TrustConfig.eta_floor, 0.0016
ProxyThreshold == 4        \* proxy_improvement_threshold, 0.0016
UnstableSquare == 72       \* (a - b)^2 at a deviation of 3 * 0.0008
Epsilon == 5               \* convergence_epsilon, 0.002
RequiredSeeds == 2

\* What the predictions themselves show, before any score is compared.
Evidence == {"sound", "no_op", "degenerate", "implausible"}

Abs(x) == IF x < 0 THEN -x ELSE x
Higher(x, y) == IF x > y THEN x ELSE y

\* Twice the standard error of two seeds is their distance.
Spread(seeds) == IF Len(seeds) = 2 THEN Abs(seeds[1] - seeds[2]) ELSE 0
Mean2(seeds) == IF Len(seeds) = 2 THEN seeds[1] + seeds[2] ELSE 2 * seeds[1]
Eta(seeds) == Higher(Spread(seeds), EtaFloor)
LastOf(seeds) == seeds[Len(seeds)]

Trust(verdict, stability, integrity) ==
    [verdict |-> verdict, stability |-> stability, integrity |-> integrity]

AssessProxy(delta) ==
    Trust(IF delta > ProxyThreshold THEN "accepted"
          ELSE IF delta < -ProxyThreshold THEN "negative" ELSE "inconclusive",
          "not_applicable", "clean")

AssessFull(seeds, parent) ==
    LET gain2 == Mean2(seeds) - 2 * parent
        eta2  == 2 * Eta(seeds)
    IN  IF Len(seeds) < RequiredSeeds THEN Trust("accepted", "single_seed", "clean")
        ELSE IF Spread(seeds) * Spread(seeds) > UnstableSquare
             THEN Trust("inconclusive", "unstable", "clean")
        ELSE Trust(IF gain2 < -eta2 THEN "negative"
                   ELSE IF gain2 > eta2 \/ gain2 > 2 * Spread(seeds)
                   THEN "accepted" ELSE "inconclusive",
                   "confirmed", "clean")

\* assess_trust: the evidence is judged before the scores are.
Assess(fidelity, seeds, parent, evidence) ==
    CASE evidence = "no_op"       -> Trust("no_op", "not_applicable", "clean")
      [] evidence = "degenerate"  -> Trust("suspicious", "not_applicable", "compromised")
      [] evidence = "implausible" -> Trust("suspicious", "not_applicable", "inconclusive")
      [] evidence = "sound" /\ fidelity = "proxy" -> AssessProxy(seeds[1] - parent)
      [] evidence = "sound" /\ fidelity = "full"  -> AssessFull(seeds, parent)

Ruling(decision, branch, appoint) ==
    [decision |-> decision, parentOk |-> branch, bestOk |-> appoint]

RuleProxy(trust, delta) ==
    Ruling(CASE trust.verdict = "accepted" -> "promote"
             [] trust.verdict = "inconclusive" ->
                    IF delta <= 0 THEN "prune" ELSE "promote"
             [] trust.verdict = "negative" -> "prune"
             [] trust.verdict = "suspicious" -> "invalid",
           FALSE, FALSE)

\* Mutant of BeatsBest: a gain within the noise of the seeds is appointed
BeatsBestAtAll(seeds, best) == Mean2(seeds) > 2 * best

\* A confirmed gain over the best by more than eta is appointed; one over the
\* parent alone may only be branched from.
BeatsBest(seeds, best) == Mean2(seeds) - 2 * best > 2 * Eta(seeds)

\* A result within noise may be branched from when it is positive and near the best.
Exploratory(trust, seeds, parent, best) ==
    /\ trust.verdict = "inconclusive" /\ trust.stability = "confirmed"
    /\ Mean2(seeds) > 2 * parent
    /\ Mean2(seeds) >= 2 * best - 2 * Eta(seeds)

RuleFull(trust, seeds, parent, best) ==
    IF trust.verdict = "accepted" /\ trust.stability = "single_seed"
    THEN Ruling("promote", FALSE, FALSE)
    ELSE IF trust.verdict = "accepted"
    THEN Ruling("accept", TRUE, BeatsBest(seeds, best))
    ELSE IF Exploratory(trust, seeds, parent, best)
    THEN Ruling("accept", TRUE, FALSE)
    ELSE Ruling(IF trust.verdict = "suspicious" THEN "invalid" ELSE "reject",
                FALSE, FALSE)

Decide(trust, fidelity, seeds, parent, best) ==
    IF fidelity = "proxy" THEN RuleProxy(trust, seeds[1] - parent)
    ELSE RuleFull(trust, seeds, parent, best)
=============================================================================
