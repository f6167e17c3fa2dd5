CONSTANTS
    DownPlans = {0, 2, 40}
    UpPlans = {0, 40}
    Streams = 4
    Shortfalls = {0, 750000}
SPECIFICATION Spec
INVARIANTS
    LineCarriesTheCost
    RatesAreOfThePayload
