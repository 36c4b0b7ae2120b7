CONSTANTS
    Capacity = 3
    SendId <- MCSendId
    Empty = "ReadingLength"
    Ready = {"Processing"}
SPECIFICATION SendSpec
INVARIANTS
    ReservationTracks
PROPERTIES
    FinishRemovesHeld
    HeldUndisturbed
