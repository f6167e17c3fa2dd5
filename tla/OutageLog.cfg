CONSTANTS
    NA = NA
    NB = NB
    NoLink = NoLink
    Networks = {NA, NB}
    NTargets = 2
    MaxGap = 1
    Faults = {"Move", "MonoStops", "StoreError", "MidTickExit"}
    MaxWall = 5
    MaxFaults = 2
SPECIFICATION Spec
INVARIANTS
    TypeOK
    CleanOutagesBillOnlyObservedTime
    NoDoubleBilling
    OutagesEndAfterTheyStart
    NoSuccessInsideAnOutage
    LiveStatusAgrees
PROPERTIES
    ClosedEvidenceIsFinal
    ImplementsLedger
SYMMETRY NetworkSymmetry
