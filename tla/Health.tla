------------------------------- MODULE Health -------------------------------
(***************************************************************************)
(* The health of running candidates. Each lane's runner samples its own    *)
(* process in a thread of its own and asks the one SREObserver of the run, *)
(* whose rolling window no lock guards: the three steps of observe may     *)
(* interleave with another lane's, and whoever asks last judges whatever   *)
(* sample is the newest.                                                   *)
(***************************************************************************)
EXTENDS Integers, Sequences, SequencesExt, FiniteSets

CONSTANTS Lanes,
          Signals,            \* what one sample of a process may show
          Deadline,           \* ticks of silence before output counts as stale
          WallTime,           \* ticks a run of each lane may take
          MaxAttempts,        \* bound: runs of each lane
          MaxMisses,          \* _MAX_CONSECUTIVE_TELEMETRY_MISSES
          Capacity,           \* of the telemetry window
          StaleSamples,       \* heartbeat.minimum_stale_samples
          BaselineSamples, Persistence, Multiplier  \* of the anomaly detector

ASSUME HealthAssumption ==
    /\ Signals \subseteq [stale : BOOLEAN, idle : BOOLEAN, loss : Nat,
                          fault : {"none", "nonfinite", "oom", "policy"}]
    /\ {Deadline, MaxMisses, Capacity} \subseteq Nat \ {0}
    /\ WallTime \in [Lanes -> Nat \ {0}] /\ MaxAttempts \in [Lanes -> Nat]
    /\ StaleSamples \in Nat \ {0, 1} /\ StaleSamples <= Capacity
    /\ Persistence \in Nat \ {0, 1}
    /\ BaselineSamples \in Nat /\ BaselineSamples % 2 = 1
    /\ Multiplier \in Nat \ {0, 1}

VARIABLES window,    \* SREObserver.window
          watched,   \* SREObserver._execution_identity
          lane       \* the runner's loop of each lane

healthVars == <<window, watched, lane>>

Nobody == <<>>
Identity(l) == <<l, lane[l].attempt>>
NewRun(attempt) ==
    [at |-> "loop", attempt |-> attempt, elapsed |-> 0, misses |-> 0,
     seen |-> <<>>, own |-> <<>>, lone |-> TRUE, reason |-> "none"]
HealthInit ==
    /\ window = <<>> /\ watched = Nobody
    /\ lane = [l \in Lanes |-> [NewRun(0) EXCEPT !.at = "idle"]]

----------------------------------------------------------------------------
(* The policy, on a window of samples.                                     *)

Newest(n, s) == SubSeq(s, Len(s) - n + 1, Len(s))
Aged(s, a) == s[Len(s) - a]     \* the sample that a later ones follow
Stalled(s) == s.stale /\ s.idle

\* likely_hang: stale output and idle processors agree, sample after sample.
LikelyHang(w) ==
    Len(w) >= StaleSamples /\ \A a \in 0 .. StaleSamples - 1 : Stalled(Aged(w, a))

\* persistent_explosion: the spikes are kept out of their own baseline.
Losses(w) ==
    [a \in {n \in Persistence .. Len(w) - 1 : Aged(w, n).loss # 0} |-> Aged(w, a).loss]
Baseline(losses) ==
    {a \in DOMAIN losses : Cardinality({n \in DOMAIN losses : n < a}) < BaselineSamples}
Median(losses, ages) ==
    CHOOSE x \in {losses[a] : a \in ages} :
        /\ 2 * Cardinality({a \in ages : losses[a] < x}) < BaselineSamples
        /\ 2 * Cardinality({a \in ages : losses[a] > x}) < BaselineSamples
Explodes(w) ==
    /\ Len(w) >= BaselineSamples + Persistence
    /\ Cardinality(DOMAIN Losses(w)) >= BaselineSamples
    /\ \A a \in 0 .. Persistence - 1 :
           Aged(w, a).loss > Multiplier * Median(Losses(w), Baseline(Losses(w)))

\* HealthPolicy.evaluate: immediate failures before the rolling detectors.
Directive(w) ==
    CASE w = <<>> -> "continue"
      [] w # <<>> /\ Last(w).fault # "none" -> Last(w).fault
      [] w # <<>> /\ Last(w).fault = "none" ->
             IF LikelyHang(w) THEN "hang"
             ELSE IF Explodes(w) THEN "numerical" ELSE "continue"

----------------------------------------------------------------------------
(* The runner's loop.                                                      *)

\* What is seen of a lane is its own only while no other is observed.
Crowd(l) == [k \in Lanes |-> IF k = l THEN lane[k] ELSE [lane[k] EXCEPT !.lone = FALSE]]
Goes(l, r) == lane' = [lane EXCEPT ![l] = r]
Ends(r, why) == [r EXCEPT !.at = "idle", !.reason = why]
Sleeps(r) == [r EXCEPT !.at = "loop", !.elapsed = @ + 1]
Alive(l) == lane[l].at = "loop" /\ lane[l].elapsed < WallTime[l]

\* ExecutionRunner.run: every run of a lane has an attempt number of its own.
Start(l) ==
    /\ lane[l].at = "idle" /\ lane[l].attempt < MaxAttempts[l]
    /\ Goes(l, NewRun(lane[l].attempt + 1))
    /\ UNCHANGED <<window, watched>>

Exits(l) ==
    /\ Alive(l) /\ Goes(l, Ends(lane[l], "finished"))
    /\ UNCHANGED <<window, watched>>

TimesOut(l) ==
    /\ lane[l].at = "loop" /\ lane[l].elapsed >= WallTime[l]
    /\ Goes(l, Ends(lane[l], "timeout"))
    /\ UNCHANGED <<window, watched>>

Forgets(r) == [r EXCEPT !.misses = 0]

\* collector.sample: a process that has just started is not yet silent.
Sample(l) ==
    /\ Alive(l)
    /\ \E s \in Signals :
           /\ s.stale => lane[l].elapsed >= Deadline
           /\ Goes(l, [Forgets(lane[l]) EXCEPT !.at = "identify", !.seen = Append(@, s),
                                               !.own = Append(@, s)])
    /\ UNCHANGED <<window, watched>>

Miss == [stale |-> FALSE, idle |-> FALSE, loss |-> 0, fault |-> "miss"]

\* docker stats fails while the process lives.
SampleFails(l) ==
    /\ Alive(l)
    /\ LET r == [lane[l] EXCEPT !.misses = @ + 1, !.seen = Append(@, Miss)]
       IN  Goes(l, IF r.misses >= MaxMisses THEN Ends(r, "telemetry") ELSE Sleeps(r))
    /\ UNCHANGED <<window, watched>>

\* observed_limit_pressure: the runner's own limits end the run unobserved.
PressureEnds(l) ==
    /\ lane[l].at = "identify"
    /\ Goes(l, Ends(lane[l], "pressure"))
    /\ UNCHANGED <<window, watched>>

----------------------------------------------------------------------------
(* SREObserver.observe: three steps that another lane's thread may enter.  *)

\* Mutant of Cleared: a new run inherits the window
Inherited(w) == w

Cleared(w) == <<>>

Identify(l) ==
    /\ lane[l].at = "identify"
    /\ window' = IF watched = Identity(l) THEN window ELSE Cleared(window)
    /\ watched' = Identity(l)
    /\ lane' = [Crowd(l) EXCEPT ![l].at = "add"]

\* Mutant of Kept: the window drops its newest sample when full
KeptOldest(w) == SubSeq(w, 1, IF Len(w) < Capacity THEN Len(w) ELSE Capacity)

\* deque(maxlen): the oldest samples go.
Kept(w) == Newest(IF Len(w) < Capacity THEN Len(w) ELSE Capacity, w)

Add(l) ==
    /\ lane[l].at = "add"
    /\ window' = Kept(Append(window, Last(lane[l].own)))
    /\ lane' = [Crowd(l) EXCEPT ![l].at = "judge"]
    /\ UNCHANGED watched

\* What the latest sample of the window says is done to the lane that asks.
Evaluate(l) ==
    /\ lane[l].at = "judge"
    /\ LET d == Directive(window)
       IN  lane' = [Crowd(l) EXCEPT ![l] =
                       IF d = "continue" THEN Sleeps(@) ELSE Ends(@, d)]
    /\ UNCHANGED <<window, watched>>

Observed(l) == Identify(l) \/ Add(l) \/ Evaluate(l)
LaneStep(l) ==
    \/ Start(l) \/ Exits(l) \/ TimesOut(l)
    \/ Sample(l) \/ SampleFails(l) \/ PressureEnds(l) \/ Observed(l)
HealthNext == \E l \in Lanes : LaneStep(l)
HealthSpec == HealthInit /\ [][HealthNext]_healthVars

----------------------------------------------------------------------------
(* Properties.                                                             *)

HasStalled(l) == LikelyHang(lane[l].own)

\* A run that is observed alone never outlives two stalled samples in a row,
\* whatever was observed before it and however many samples were missed
\* (likely_hang over the window SREObserver.observe keeps).
LoneStallsAreNoticed ==
    \A l \in Lanes : lane[l].at = "loop" /\ lane[l].lone => ~HasStalled(l)

\* A run is ended only for what its own process showed: for lost telemetry
\* after consecutive misses, by the observer, when it watches that run
\* alone, for a fault, a stall or an explosion among the run's own samples.
VerdictsRestOnOwnSamples ==
    \A l \in Lanes :
        LET r == lane[l]
        IN  /\ r.reason = "telemetry" =>
                   \A a \in 0 .. MaxMisses - 1 : Aged(r.seen, a).fault = "miss"
            /\ r.reason \in {"hang", "numerical", "oom", "nonfinite", "policy"} /\ r.lone =>
                   r.reason = Directive(r.own)
=============================================================================
