SPECIFICATION FairSpec
CONSTANTS
    Capital = 3
    MaxOrders = 5
    Exposures <- Scenarios
INVARIANTS
    TypeOK
    BooksAgree
PROPERTIES
    SharesSold
