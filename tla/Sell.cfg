SPECIFICATION FairSpec
CONSTANTS
  MaxOrders = 4
  Shares = 2
  Added = 1
  LastDay = 3
  MaxEvents = 2
  Exposures <- Scenarios
INVARIANTS
  TypeOK
  SalesFollowed
PROPERTIES
  NoSecondSell
  SharesOffered
CHECK_DEADLOCK FALSE
