------------------------------ MODULE Charges ------------------------------
(***************************************************************************)
(* What a round is charged: the tokens its planner's directions and its    *)
(* coders' sessions spend at the model provider, and the usage the events  *)
(* record of them.  Directions are planned at the same time by one         *)
(* provider object, whose counters are context variables; a session adds   *)
(* up the passes of the coder and the calls of the verifier that reviews   *)
(* them, and hands the sum on whether it ends in a candidate or fails.     *)
(* An answered request or pass costs one token.                            *)
(***************************************************************************)
EXTENDS Integers, FiniteSets

CONSTANTS Directions,    \* the lanes of the round
          PlanAttempts,  \* research_planning_max_attempts
          Reviews,       \* solution_verification_max_attempts
          NoUsage        \* a context variable that was never set

ASSUME ChargesAssumption ==
    /\ PlanAttempts \in Nat \ {0} /\ Reviews \in Nat \ {0} /\ NoUsage \notin Int

VARIABLES
    plan,      \* plan[d]: the task of a direction
    usage,     \* the usage counter, in the router's context and in each task's
    last,      \* _last_completed_*: the usage of the latest finished plan
    bill,      \* what planning.failed records of a broken round
    session    \* session[d]: the coder's session of a direction

chargesVars == <<plan, usage, last, bill, session>>

Router == "router"
Task(at) ==
    [at |-> at, attempt |-> 1, call |-> 0, repairing |-> FALSE, own |-> 0, charge |-> 0]
Session(at) ==
    [at |-> at, round |-> 1, tokens |-> 0, call |-> 0, answered |-> 0,
     spent |-> 0, charge |-> 0, end |-> "none"]

\* generate clears the counters it finds in its context.
Zeroed(d) == [usage EXCEPT ![d] = 0]

\* A plan of an earlier, sequential iteration may have left its usage in the
\* router's context, which every task of the round copies.
ChargesInit ==
    /\ plan = [d \in Directions |-> Task("start")]
    /\ \E before \in {NoUsage, 1, 2} :
           /\ usage = [c \in Directions \cup {Router} |-> before]
           /\ last = IF before = NoUsage THEN 0 ELSE before
    /\ bill = 0
    /\ session = [d \in Directions |-> Session("none")]

----------------------------------------------------------------------------
(* A direction: generate, validate, one repair, attach the usage.          *)

Plans(d, r) == plan' = [plan EXCEPT ![d] = r]
Unbilled == UNCHANGED <<last, bill, session>>

\* Mutant of Generates: the counters go on from what the context holds
GeneratesOn(d) == IF usage[d] = NoUsage THEN Zeroed(d) ELSE usage

Generates(d) == Zeroed(d)

Generate(d) ==
    /\ plan[d].at = "start"
    /\ usage' = Generates(d)
    /\ Plans(d, [plan[d] EXCEPT !.at = "wait", !.call = 0, !.repairing = FALSE, !.own = 0])
    /\ Unbilled

\* _record_usage: every answer is counted, useful or not.
Counts(d) == usage' = [usage EXCEPT ![d] = @ + 1]
Answered(d) == [plan[d] EXCEPT !.own = @ + 1]

\* Truncated or empty: asked once more, compactly.
AsksCompactly(d) ==
    /\ plan[d].at = "wait" /\ plan[d].call = 0
    /\ Counts(d) /\ Plans(d, [Answered(d) EXCEPT !.call = 1])
    /\ Unbilled

\* Malformed, or useless a second time; no usage is attached to the error.
AnswersUselessly(d) ==
    /\ plan[d].at = "wait"
    /\ Counts(d) /\ Plans(d, [Answered(d) EXCEPT !.at = "failed"])
    /\ Unbilled

\* A transient error repeats the operation from generate, others end it.
TransportFails(d, transient) ==
    /\ plan[d].at = "wait"
    /\ Plans(d, IF transient /\ plan[d].attempt < PlanAttempts
                THEN [plan[d] EXCEPT !.at = "start", !.attempt = @ + 1]
                ELSE [plan[d] EXCEPT !.at = "failed"])
    /\ UNCHANGED <<usage, last, bill, session>>

\* A parsed plan that does not validate is repaired once, then blocked.
AnswersBadly(d) ==
    /\ plan[d].at = "wait"
    /\ Counts(d) /\ last' = usage'[d]
    /\ Plans(d, IF plan[d].repairing
                THEN [Answered(d) EXCEPT !.at = "blocked"]
                ELSE [Answered(d) EXCEPT !.repairing = TRUE, !.call = 0])
    /\ UNCHANGED <<bill, session>>

AnswersWell(d) ==
    /\ plan[d].at = "wait"
    /\ Counts(d) /\ last' = usage'[d]
    /\ Plans(d, [Answered(d) EXCEPT !.at = "planned", !.charge = usage'[d]])
    /\ UNCHANGED <<bill, session>>

AllPlanned == \A d \in Directions : plan[d].at = "planned"
Settled == \A d \in Directions : plan[d].at \in {"planned", "failed", "blocked"}

\* One failed direction breaks the round: the router reads its own context.
RoundBreaks ==
    /\ Settled /\ \E d \in Directions : plan[d].at = "failed"
    /\ plan' = [d \in Directions |-> [plan[d] EXCEPT !.at = "broken"]]
    /\ bill' = IF usage[Router] = NoUsage THEN last ELSE usage[Router]
    /\ UNCHANGED <<usage, last, session>>

\* The proposals are recorded, and the tasks end with their contexts.
RoundIsSealed ==
    /\ AllPlanned /\ \A d \in Directions : session[d].at = "none"
    /\ session' = [d \in Directions |-> Session("pass")]
    /\ plan' = [d \in Directions |-> Task("recorded")]
    /\ usage' = [c \in Directions \cup {Router} |->
                     IF c = Router THEN usage[c] ELSE NoUsage]
    /\ UNCHANGED <<last, bill>>

----------------------------------------------------------------------------
(* A coder's session: pass, capture, review, revise.                       *)

Works(d, s) == session' = [session EXCEPT ![d] = s] /\ UNCHANGED <<plan, usage, last, bill>>

\* Mutant of FailedDelta: a failed pass hides the passes before it
FailedDeltaOfPass(s, n) == n

\* The delta of a failure: what earlier passes and reviews spent, and n more.
FailedDelta(s, n) == s.tokens + n

Fails(s, n, why) ==
    [s EXCEPT !.at = "failed", !.charge = FailedDelta(s, n), !.end = why]
Pays(s) == [s EXCEPT !.spent = @ + 1]

PassSucceeds(d) ==
    /\ session[d].at = "pass"
    /\ Works(d, [Pays(session[d]) EXCEPT !.at = "capture", !.tokens = @ + 1])

\* A timeout, a bad exit or a trajectory past its limits: usage is what the
\* trajectory says, where it can be read and its evidence kept.
PassFails(d, readable) ==
    /\ session[d].at = "pass"
    /\ Works(d, IF readable THEN Fails(Pays(session[d]), 1, "pass")
                ELSE Fails(Pays(session[d]), 0, "unread"))

\* The container outlives the pass, whose usage the cleanup error replaces.
CleanupFails(d) ==
    /\ session[d].at = "pass"
    /\ Works(d, Fails(Pays(session[d]), 0, "unread"))

\* The wall budget, the capture, a revision without change.
CaptureFails(d) ==
    /\ session[d].at \in {"pass", "capture"}
    /\ session[d].at = "pass" => session[d].round > 1
    /\ Works(d, Fails(session[d], 0, "capture"))

CaptureSucceeds(d) ==
    /\ session[d].at = "capture"
    /\ Works(d, [session[d] EXCEPT !.at = "review", !.call = 0, !.answered = 0])

\* DeepSeekSolutionVerifier.verify: a second call after a useless first one.
ReviewStalls(d, answered) ==
    /\ session[d].at = "review"
    /\ LET s == IF answered THEN [Pays(session[d]) EXCEPT !.answered = @ + 1]
                ELSE session[d]
       IN  Works(d, IF s.call = 0 THEN [s EXCEPT !.call = 1]
                    ELSE Fails(s, s.answered, "verifier"))

\* The deadline passes before the second call, or during an answered one.
ReviewIsLate(d, answered) ==
    /\ session[d].at = "review" /\ (answered \/ session[d].call = 1)
    /\ LET s == IF answered THEN [Pays(session[d]) EXCEPT !.answered = @ + 1]
                ELSE session[d]
       IN  Works(d, Fails(s, s.answered, "verifier"))

Reviewed(s) == [s EXCEPT !.tokens = @ + s.answered + 1]

ReviewEnds(d, accepted) ==
    /\ session[d].at = "review"
    /\ LET s == Pays(Reviewed(session[d]))
       IN  Works(d, IF accepted THEN [s EXCEPT !.at = "commit"]
                    ELSE IF s.round = Reviews THEN Fails(s, 0, "rejected")
                    ELSE [s EXCEPT !.at = "pass", !.round = @ + 1])

ReviewEvidenceFails(d) ==
    /\ session[d].at = "review"
    /\ Works(d, Fails(Pays(Reviewed(session[d])), 0, "evidence"))

\* Evidence that cannot be kept, or a commit that git refuses.
CommitFails(d) ==
    /\ session[d].at = "commit"
    /\ Works(d, Fails(session[d], 0, "commit"))

Commits(d) ==
    /\ session[d].at = "commit"
    /\ Works(d, [session[d] EXCEPT !.at = "coded", !.charge = @ + session[d].tokens,
                                   !.end = "candidate"])

----------------------------------------------------------------------------

Planning(d) ==
    \/ Generate(d) \/ AsksCompactly(d) \/ AnswersUselessly(d)
    \/ \E transient \in BOOLEAN : TransportFails(d, transient)
    \/ AnswersBadly(d) \/ AnswersWell(d)
Coding(d) ==
    \/ PassSucceeds(d) \/ \E readable \in BOOLEAN : PassFails(d, readable)
    \/ CleanupFails(d) \/ CaptureFails(d) \/ CaptureSucceeds(d)
    \/ \E answered \in BOOLEAN : ReviewStalls(d, answered) \/ ReviewIsLate(d, answered)
    \/ \E accepted \in BOOLEAN : ReviewEnds(d, accepted)
    \/ ReviewEvidenceFails(d) \/ CommitFails(d) \/ Commits(d)
ChargesNext ==
    \/ \E d \in Directions : Planning(d) \/ Coding(d)
    \/ RoundBreaks \/ RoundIsSealed
ChargesSpec == ChargesInit /\ [][ChargesNext]_chargesVars

----------------------------------------------------------------------------
(* Properties.                                                             *)

\* A proposal is charged what its own direction was answered since it was last
\* asked to generate: neither a direction planned beside it, nor the plan of
\* an earlier iteration (ContextVar counters, _attach_provider_usage).
PlansAreChargedTheirOwn ==
    \A d \in Directions : plan[d].at = "planned" => plan[d].charge = plan[d].own

\* However a session ends, what it spent on passes and reviews before is in the
\* charge of its candidate or failure; only a last pass whose own record is
\* gone is missing (_combined_resource_delta, SolutionVerifierError).
SessionsAreCharged ==
    \A d \in Directions : session[d].at \in {"coded", "failed"} =>
        session[d].charge =
            session[d].spent - (IF session[d].end = "unread" THEN 1 ELSE 0)
=============================================================================
