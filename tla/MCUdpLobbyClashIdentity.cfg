SPECIFICATION Spec
CONSTANTS
    Workers = {w1, w2}
    Addr <- ClashAddr
    Key <- XorKeys
    SockAddrKey <- XorKey
    SESSION_TIMEOUT_MS = 1
    NoUser = NoUser
    NoDatagram = NoDatagram
    Kinds = {"HELLO"}
    MaxSession = 2
    MaxTime = 2
    MaxSeq = 0
INVARIANT OwnIdentity
