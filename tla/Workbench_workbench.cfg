\* One experiment coded, retried, repaired, restarted and run, with two faults.
SPECIFICATION Spec
CONSTANTS
    Diffs = {d1, d2}
    NoDiff = NoDiff
    MaxFaults = 2
    MaxReviews = 2
    MaxRepairs = 1
    MaxRuns = 2
    LocalBackend = TRUE
CHECK_DEADLOCK FALSE
INVARIANTS LocksAreReturned
PROPERTIES SealsWhatWasReviewed LeaseGuardsTheTree SuccessIsWhole RetriesFindTheirCommit EveryCallEnds
