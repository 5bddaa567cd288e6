SPECIFICATION ApiSpec
CONSTANTS
    Accounts   = {a1}
    Prices     = {0, 1, 2}
    Quantities = {0, 1, 2}
    MaxOrders  = 3
INVARIANTS
    QueuesHoldOrders
    TotalsAgree
PROPERTIES
    UsesSides
    LimitPriceRespected
