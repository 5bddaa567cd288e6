SPECIFICATION DataSpec
CONSTANTS
    Prices      = {1, 2, 5}
    Quantities  = {1, 2}
    MaxPrice    = 5
    MaxMessages = 3
    Noises      = {1, 2}
    Spread      = 1
    Budgets     = {1, 3}
    Boundary    = 1
CHECK_DEADLOCK FALSE
PROPERTIES
    FollowsMomentum
