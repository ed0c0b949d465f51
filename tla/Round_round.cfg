\* A round of two lanes: planned and coded with every retry, run under one observer.
SPECIFICATION RoundSpec
CONSTANTS
    l1 = l1
    l2 = l2
    Lanes = {l1, l2}
    Directions = {l1, l2}
    PlanAttempts = 2
    Reviews = 2
    NoUsage = NoUsage
    Signals <- SomeSignals
    Deadline = 1
    WallTime <- SomeTimes
    MaxAttempts <- SomeAttempts
    MaxMisses = 2
    Capacity = 3
    StaleSamples = 2
    BaselineSamples = 1
    Persistence = 2
    Multiplier = 5
INVARIANTS PlansAreChargedTheirOwn SessionsAreCharged LoneStallsAreNoticed VerdictsRestOnOwnSamples
CHECK_DEADLOCK FALSE
