\* Two processes append, read and resume while one fails and power is lost.
SPECIFICATION Spec
CONSTANTS
    Processes = {p1, p2}
    opening = opening
    result = result
    Keys = {opening, result}
    Admits <- OpeningFirst
    MaxFailures = 2
    MaxPowerLosses = 1
CHECK_DEADLOCK FALSE
INVARIANTS SyncedAppendsAreDurable OnlyReadsMeetTornTails
PROPERTIES DurableLog
SYMMETRY StoreSymmetry
