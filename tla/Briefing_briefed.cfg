\* A repair whose worker fails is granted its one retry, which cannot be briefed.
SPECIFICATION BriefingSpec
CONSTANTS
    Exps = {e1}
    Keys = {k1}
    Seeds = {1}
    Scores = {1}
    BaselineScore = 0
    MaxRepairs = 2
    MaxConfirm = 0
    MaxPatches = 3
    MaxQueries = 1
    Policy <- ReportedPolicy
CHECK_DEADLOCK FALSE
INVARIANTS GrantedRetriesCanBeBriefed
