\* Three attempts and two runs of an experiment, whose files change twice.
SPECIFICATION Spec
CONSTANTS
    MaxAttempts = 3
    MaxRuns = 2
    MaxMeddling = 2
CHECK_DEADLOCK FALSE
INVARIANT ReceiptsAreClean
PROPERTIES UsedTreesAreVerified ScoredIsSealed LegalCandidatesPass
