CONSTANTS
    Capacity = 3
    StreamId <- MCStreamId
    PhaseName <- MCPhaseName
    NewPhase = "ReadingLength"
SPECIFICATION Spec
INVARIANTS
    SlotsOwned
    SlotsSynced
    OneContextPerStream
    BuffersIsolated
PROPERTIES
    StreamsKeepTheirSlot
    ImplementsOpenStreams
