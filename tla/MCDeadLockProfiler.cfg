SPECIFICATION Spec
CONSTANTS
    Threads = {t1, t2}
    Locks = {A, B, C}
    Name <- OwnClass
    MaxDepth = 3
    NoThread = NoThread
SYMMETRY Anyone
CHECK_DEADLOCK FALSE
INVARIANTS
    TypeOK
    DeadlockIsReported
    PrintedIsCircle
PROPERTIES
    ImplementsOrder
