SPECIFICATION FairSpec
CONSTANTS
    Threads <- Two
    Frames = {f1}
    MaxDepth = 2
    READ_COUNT_MASK = 2
INVARIANTS
    TypeOK
    Exclusion
PROPERTIES
    ImplementsShared
    WaitersEnter
CHECK_DEADLOCK FALSE
