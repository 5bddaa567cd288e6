SPECIFICATION FairDataSpec
CONSTANTS
    Prices      = {0, 1, 2, 3}
    Quantities  = {0, 1, 2}
    MaxPrice    = 3
    MaxMessages = 3
    Noises      = {1, 2}
    Spread      = 1
    Budgets     = {1, 3}
    Boundary    = 1
CHECK_DEADLOCK FALSE
INVARIANTS
    ExactUntilWarned
    ReceiverConsistent
    PassiveOrdersRest
    ReversionLeads
    TakesBestOnly
    CrossPays
PROPERTIES
    LastBestKept
    CatchesUp
