SPECIFICATION Spec
CONSTANTS
    Workers = {w1, w2}
    Addr <- ClearAddr
    Key <- XorKeys
    SockAddrKey <- XorKey
    SESSION_TIMEOUT_MS = 1
    NoUser = NoUser
    NoDatagram = NoDatagram
    Kinds = {"MOVE"}
    MaxSession = 3
    MaxTime = 3
    MaxSeq = 0
INVARIANT NoGhost
