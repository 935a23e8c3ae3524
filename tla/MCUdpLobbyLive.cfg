SPECIFICATION FairSpec
CONSTANTS
    Workers = {w1, w2}
    Addr <- ClearAddr
    Key <- XorKeys
    SockAddrKey <- XorKey
    SESSION_TIMEOUT_MS = 0
    NoUser = NoUser
    NoDatagram = NoDatagram
    Kinds = {"HELLO", "HEARTBEAT", "REDIS", "IGNORED"}
    MaxSession = 2
    MaxTime = 1
    MaxSeq = 0
PROPERTIES
    SilentIsRemoved
    RemovedIsAnnounced
    ReceiveLoop
