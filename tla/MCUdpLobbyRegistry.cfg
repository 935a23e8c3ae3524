SPECIFICATION Spec
CONSTANTS
    Workers = {w1, w2}
    Addr <- ClearAddr
    Key <- XorKeys
    SockAddrKey <- XorKey
    SESSION_TIMEOUT_MS = 0
    NoUser = NoUser
    NoDatagram = NoDatagram
    Kinds = {"HELLO", "MOVE"}
    MaxSession = 3
    MaxTime = 1
    MaxSeq = 0
SYMMETRY AnyWorker
INVARIANTS
    TypeOK
    OwnIdentity
PROPERTIES
    NoFreshEviction
    GhostOnlyFromStaleRelay
