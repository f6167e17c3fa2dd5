SPECIFICATION Spec
CONSTANTS
    Nets = {n1, n2}
    NoNet = nowhere
    ISPs = {isp}
    IspOf <- IspOfNets
    ExitASN = exit
    Garbage = garbage
    NoASN = none
    MayOverlap = FALSE
    MayFlip = TRUE
    MaxProviders = 2
SYMMETRY NetSymmetry
INVARIANTS
    TypeOK
    UserChoiceKept
    AutoProvidersAreUnique
    ExitIsNeverTheISP
PROPERTY
    KnownFactsAreKept
CHECK_DEADLOCK FALSE
