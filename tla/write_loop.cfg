SPECIFICATION FairSpec
CONSTANT
    MaxSends = 8
INVARIANTS
    OneWrite
PROPERTIES
    ImplementsOutbox
    Drains
CHECK_DEADLOCK FALSE
