SPECIFICATION Spec
CONSTANTS
    Nets = {n1, n2}
    NoNet = nowhere
    ISPs = {isp}
    IspOf <- IspOfNets
    ExitASN = exit
    Garbage = garbage
    NoASN = none
    MayOverlap = TRUE
    MayFlip = FALSE
    MaxProviders = 2
INVARIANT ManualAssignmentUntouched
CHECK_DEADLOCK FALSE
