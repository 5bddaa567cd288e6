SPECIFICATION VenueFairSpec
CONSTANTS
    Accounts    = {a1, a2}
    Connections = {c1, c2}
    Null        = Null
    Prices      = {1}
    Quantities  = {1, 2}
    MaxOrders   = 1
    MaxPending  = 1
PROPERTIES
    OrdersTracked
    PositionTracked
    RequestAnswered
    SessionReleased
CHECK_DEADLOCK FALSE
