CONSTANTS
    MaxNetworks = 2
    MaxLoads = 3
SPECIFICATION Spec
INVARIANTS
    TypeOK
    ChartsShowWhatWasAskedLast
    PollingIsAlive
    RefocusedAtOnce
PROPERTY ChartsFollowFocus
