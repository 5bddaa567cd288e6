SPECIFICATION VenueSpec
CONSTANTS
    Accounts    = {a1, a2}
    Connections = {c1, c2}
    Null        = Null
    Prices      = {1}
    Quantities  = {1}
    MaxOrders   = 2
    MaxPending  = 1
SYMMETRY VenueSymmetry
INVARIANTS
    VenueTypeOK
    OneSession
    LoginAgrees
    NoPhantomOrders
PROPERTIES
    OwnerWithdraws
    UsesBook
CHECK_DEADLOCK FALSE
