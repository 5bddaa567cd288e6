SPECIFICATION FairSpec
CONSTANTS
    Accounts   = {a1, a2}
    Prices     = {1, 2}
    Quantities = {0, 1, 2}
    MaxOrders  = 3
INVARIANTS
    TypeOK
    NotCrossed
    AccountsHoldOrders
    FeedMatchesBook
    Conservation
PROPERTIES
    PriceTimePriority
    FeedSpec
    CallReturns
