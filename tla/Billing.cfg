SPECIFICATION FairSpec
CONSTANTS
    MaxMonths = 3
    PnLs <- LossOrProfit
    MaxOrders = 2
    Exposures <- Scenarios
INVARIANTS
    TypeOK
    FeeIsHighWater
    PaymentsBooked
PROPERTIES
    PaymentClears
