CONSTANTS
    ByteRadix = 2
    MinMessage = 2
    Capacity = 4
    StreamId <- MCStreamId
    ConnSlotCount = 1
    QueueCapacity = 2
    IngressCapacity = 6
    ResponseCapacity = 3
    SendCapacity = 5
    ValidQuestion <- MCValidQuestion
SPECIFICATION Spec
INVARIANT AsTested
