CONSTANTS
    NTargets = 3
    Budget = 10
    PingTimeout = 2
    LookupTimeout = 5
    MaxFailures = 3
SPECIFICATION Spec
INVARIANTS
    TypeOK
    FirstTargetAcquits
    OutagesAreSeen
PROPERTIES
    OnlyTheDeafAreKilled
    TheDeafAreReplaced
