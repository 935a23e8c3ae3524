SPECIFICATION SpecH
CONSTANTS
    Workers = {w1, w2}
    Addr <- ClashAddr
    Key <- XorKeys
    SockAddrKey <- XorKey
    SESSION_TIMEOUT_MS = 0
    NoUser = NoUser
    NoDatagram = NoDatagram
    Kinds = {"HELLO", "MOVE", "HEARTBEAT", "REDIS", "IGNORED"}
    MaxSession = 2
    MaxTime = 1
    MaxSeq = 2
SYMMETRY AnyWorker
INVARIANTS
    OneReceive
    AckedToOwner
PROPERTIES
    ReplayOnlyAfterZero
