SPECIFICATION RecvSpec
CONSTANTS
    BufferSize = 3
    HeaderSize = 2
    MaxPacket = 3
    StreamLen = 36
    Streams <- MCStreams
INVARIANTS
    RoomToReceive
    CopyIsDisjoint
    NeverRefused
    NothingCompleteWaits
PROPERTY
    ImplementsPacketStream
CHECK_DEADLOCK FALSE
