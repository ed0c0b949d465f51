\* A stopped run finalized through two failures, mismatches or crashes.
SPECIFICATION FSpec
CONSTANTS
    Exps = {e1}
    Candidate = e1
    Keys = {k1}
    Seeds = {1, 2}
    Scores = {1, 2}
    BaselineScore = 0
    MaxRepairs = 1
    MaxConfirm = 1
    MaxPatches = 2
    MaxQueries = 6
    Policy <- NoAnswers
    Predictions = {p1, p2}
    MaxFaults = 2
CHECK_DEADLOCK FALSE
INVARIANTS NeverRefused PlanNamesBestEvidence SubmissionIsChecked
PROPERTIES RetriesFinalize
