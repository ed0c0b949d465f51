\* Two lanes over shared query numbers, seeds and incumbent, with failures of every owner.
SPECIFICATION HSpec
CONSTANTS
    Exps = {e1, e2}
    Keys = {k1, k2}
    Seeds = {1, 2}
    Scores = {1, 2}
    BaselineScore = 0
    MaxRepairs = 1
    MaxConfirm = 1
    MaxPatches = 2
    MaxQueries = 6
    Policy <- RoutedPolicy
    Allowed = {"batch_size", "timeout_profile"}
    MaxExperiments = 3
    Width = 2
    Faults <- LaneFaults
    Expiring = TRUE
    MaxCrashes = 0
CHECK_DEADLOCK FALSE
INVARIANTS QueryIndexIsFresh EveryAcceptedGainIsKept
SYMMETRY HSymmetry
