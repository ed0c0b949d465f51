\* One experiment through every failure the adapters report, under fairness.
SPECIFICATION FairHSpec
CONSTANTS
    Exps = {e1}
    Keys = {k1}
    Seeds = {1, 2}
    Scores = {1}
    BaselineScore = 0
    MaxRepairs = 1
    MaxConfirm = 1
    MaxPatches = 2
    MaxQueries = 4
    Policy <- RoutedPolicy
    Allowed = {"batch_size", "timeout_profile"}
    MaxExperiments = 2
    Width = 1
    Faults <- ReportedFaults
    Expiring = FALSE
    MaxCrashes = 1
CHECK_DEADLOCK FALSE
INVARIANTS ControllerAgreesWithLedger RoundsEndResumable
PROPERTIES RunEnds
