\* One experiment through every repair the budget allows, up to its decision.
SPECIFICATION BriefingSpec
CONSTANTS
    Exps = {e1}
    Keys = {k1}
    Seeds = {1}
    Scores = {1}
    BaselineScore = 0
    MaxRepairs = 2
    MaxConfirm = 0
    MaxPatches = 3
    MaxQueries = 1
    Policy <- ReportedPolicy
CHECK_DEADLOCK FALSE
INVARIANTS TypeOK OnlyGatedCommitsRun OrdersCanBeBriefed PortfolioRestsOnItsCommit
PROPERTIES ClosedStaysClosed
