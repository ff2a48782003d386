SPECIFICATION FairSpec
CONSTANTS
    Symbols = {a, b}
    MaxPositions = 1
    MaxOrders = 3
    MaxRows = 4
    Exposures <- Scenarios
INVARIANTS
    TypeOK
    OrdersSound
PROPERTIES
    FailedSettles
