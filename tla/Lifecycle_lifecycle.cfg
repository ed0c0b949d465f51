\* One experiment confirmed over two seeds, reproduced and selected, or four that
\* compete for a duplicate key: failures close an experiment or hand it back.
SPECIFICATION NarrowSpec
CONSTANTS
    Exps = {e1, e2, e3, e4}
    Keys = {k1}
    Seeds = {1, 2}
    Scores = {0, 1}
    BaselineScore = 0
    MaxRepairs = 0
    MaxConfirm = 1
    MaxPatches = 1
    MaxQueries = 3
    Policy <- CloseOnly
CHECK_DEADLOCK FALSE
INVARIANTS BestIsVerified FinalIsReproduced KeysAreSpentOnce
PROPERTIES SealedQueries
SYMMETRY Symmetry
