CONSTANTS
    Event <- MCEvent
    NoEvent = "none"
    QueueCapacity = 4
    Word = 8
SPECIFICATION QueueSpec
PROPERTIES
    ImplementsFifo
