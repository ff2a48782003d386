SPECIFICATION Spec
CONSTANTS
    Readings = {5, 15, 25, 30, 35}
    MaxOrders = 3
    Exposures <- Undisturbed
INVARIANTS
    OncePerDecline
