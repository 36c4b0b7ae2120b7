CONSTANTS
    ByteRadix = 2
    MinMessage = 2
    Capacity = 3
    AddressLimit = 10
    PairId <- MCPairId
    Starts <- MCStarts
    Inputs <- MCInputs
    Places <- MCPlaces
SPECIFICATION PairSpec
INVARIANTS
    PortsAgree
    FrameSeparate
PROPERTIES
    CorruptRefused
