SPECIFICATION FairSpec
CONSTANTS
    Sizes       = {1, 2}
    Volumes     = {1, 2}
    Wrap        = 4
    MaxMessages = 4
CHECK_DEADLOCK FALSE
PROPERTIES
    StopsAtEnd
