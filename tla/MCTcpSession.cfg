SPECIFICATION FairSpec
CONSTANTS
    Threads = {t1, t2, t3}
    NoThread = NoThread
    Failures = {"sendReset", "sendOther", "recvReset", "recvOther", "disconnect"}
    MaxSends = 3
INVARIANTS
    TypeOK
    Hostages
    ReleasedOnce
PROPERTIES
    StrandedOnlyByFailure
    DeafOnlyByFailure
    ImplementsChannel
    QueuedIsSent
    DisconnectedIsReleased
CHECK_DEADLOCK FALSE
