CONSTANTS
    ByteRadix = 2
    MinMessage = 2
    Capacity = 2
    StreamId <- MCStreamId
    ConnSlotCount = 2
    QueueCapacity = 1
    IngressCapacity = 3
    ResponseCapacity = 3
    SendCapacity = 5
    ValidQuestion <- MCValidQuestion
    Wires <- HonestWires
    StageLimit = 0
    Fragments = {0}
    MaxConnections = 1
    Cancels = TRUE
SPECIFICATION Spec
INVARIANTS
    HandleClosedAfterShutdown
