CONSTANTS
    ByteRadix = 2
    MinMessage = 2
    Capacity = 2
    StreamId <- OneStream
    ConnSlotCount = 2
    QueueCapacity = 1
    IngressCapacity = 3
    ResponseCapacity = 3
    SendCapacity = 5
    ValidQuestion <- MCValidQuestion
    Wires <- OneWires
    StageLimit = 0
    Fragments = {0, 1, 3}
    MaxConnections = 3
    Cancels = TRUE
SPECIFICATION Spec
INVARIANTS
    FreshStart
    ResponseAnswersQuery
