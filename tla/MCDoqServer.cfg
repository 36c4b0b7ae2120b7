CONSTANTS
    ByteRadix = 2
    MinMessage = 2
    Capacity = 2
    StreamId <- MCStreamId
    ConnSlotCount = 2
    QueueCapacity = 1
    IngressCapacity = 3
    ResponseCapacity = 3
    SendCapacity = 5
    ValidQuestion <- MCValidQuestion
    Wires <- MCWires
    StageLimit = 0
    Fragments = {0, 1, 3}
    MaxConnections = 1
    Cancels = TRUE
SPECIFICATION FairSpec
INVARIANTS
    TypeOK
    SendBufferStable
    SendTracked
    InFlightStreamHeld
    ResponseAnswersQuery
    NoOrphanEntry
PROPERTIES
    ProtocolErrorJustified
    OneResponsePerStream
    SendSlotFreed
    ReadyStreamServed
