CONSTANTS
    Programs = {"lifecycle", "listener", "stream"}
    Polls = 2
    Chunks = 2
SPECIFICATION Spec
INVARIANTS
    TypeOK
    ChildrenClosedFirst
    NothingOutlivesMain
    ExitZeroMeansAnswered
PROPERTIES
    Terminates
    ExchangeSucceeds
