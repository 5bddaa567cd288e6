SPECIFICATION VenueSpec
CONSTANTS
    Accounts    = {a1, a2}
    Connections = {c1, c2}
    Null        = Null
    Prices      = {1}
    Quantities  = {1}
    MaxOrders   = 1
    MaxPending  = 1
INVARIANTS
    ClientOwnsShares
CHECK_DEADLOCK FALSE
