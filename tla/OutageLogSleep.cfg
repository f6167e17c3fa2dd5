CONSTANTS
    NA = NA
    NB = NB
    NoLink = NoLink
    Networks = {NA, NB}
    NTargets = 2
    MaxGap = 2
    Faults = {"MonoStops"}
    MaxWall = 7
    MaxFaults = 1
SPECIFICATION Spec
INVARIANTS
    NeverBillsSilence
SYMMETRY NetworkSymmetry
