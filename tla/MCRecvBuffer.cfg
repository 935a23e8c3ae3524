SPECIFICATION FairSpec
CONSTANTS
    BUFFER_SIZE = 7
    BUFFER_COUNT = 3
    HeaderSize = 2
    PacketSizes <- SomeSizes
INVARIANTS
    TypeOK
    RoomToReceive
PROPERTIES
    CopyIsDisjoint
    ReceivesAgain
CHECK_DEADLOCK FALSE
