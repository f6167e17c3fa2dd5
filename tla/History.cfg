CONSTANTS
    NA = NA
    NB = NB
    Networks = {NA, NB}
    NTargets = 2
    RTT <- MCRTT
    Capacity = 3
    Buckets = 2
    Spans = {2}
    MaxClock = 4
    MaxRefused = 1
SPECIFICATION Spec
INVARIANTS
    TypeOK
    LiveFiguresAreTheLatest
    PointsCountTheirTime
    ListAgreesWithTheLog
    PathsHaveTheirOutage
CHECK_DEADLOCK FALSE
SYMMETRY NetworkSymmetry
