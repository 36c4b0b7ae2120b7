CONSTANTS
    ByteRadix = 2
    MinMessage = 2
    Wires <- MCWires
    StaleBuffers <- MCStaleBuffers
SPECIFICATION FramingSpec
INVARIANTS
    FragmentationIndependent
    BufferHoldsBody
    ReadyIffWholeQuery
