CONSTANTS
    Loop = Loop
    CLI = CLI
    Nobody = Nobody
    Forced = {r1}
    Cost = 2
    Budget = 3
    Window = 3
    MinGap = 2
    TestLimit = 2
    MaxTime = 4
    MaxLives = 2
SPECIFICATION Spec
INVARIANTS
    TypeOK
    OneTestAtATime
    MeasuringMeansTesting
    MeteredBudgetHolds
    AutomaticTestsAreSpaced
