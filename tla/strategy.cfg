SPECIFICATION FairSpec
CONSTANTS
    Sizes       = {1, 2}
    Volumes     = {1, 2}
    Wrap        = 4
    MaxMessages = 8
CHECK_DEADLOCK FALSE
INVARIANTS
    NeverStarves
    BudgetKept
    RunsInSession
    OneWait
PROPERTIES
    KeepsActing
