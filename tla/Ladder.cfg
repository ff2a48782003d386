SPECIFICATION FairSpec
CONSTANTS
    Readings = {5, 15, 25, 30, 35}
    MaxOrders = 3
    Exposures <- Scenarios
INVARIANTS
    TypeOK
    LadderDescends
PROPERTIES
    DeclineBought
