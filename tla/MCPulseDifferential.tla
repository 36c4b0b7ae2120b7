------------------------ MODULE MCPulseDifferential -------------------------
(* Two byte values, messages of two or three bytes.                        *)
EXTENDS PulseDifferential

MCPairId  == {0, 4, 8}

\* Phases of the stream differential: valid ones at each boundary, and the
\* representable invalid ones.
BoundaryPhases ==
    {ReadingLength, ReadingLengthHigh(0), ReadingLengthHigh(1), ReadingMessage(2, 0),
     ReadingMessage(3, 2), ReadingMessage(2, 2), ReadingMessage(2, 3), ReadingMessage(1, 0),
     ReadingMessage(3, 9), AwaitingFin(2), AwaitingFin(0), AwaitingFin(3), Processing(2),
     Processing(0), Done}

ZeroBytes == [i \in 0 .. MaxMessage - 1 |-> 0]
IdBytes   == {[ZeroBytes EXCEPT ![k] = 1] : k \in 0 .. 2}

Context(id, phase, buf) == [id |-> id, phase |-> phase, buf |-> buf]

\* A connection of one stream starts in every phase; the others start in
\* every order of the slots with every assignment of ids.
StreamStarts ==
    {[order |-> [s \in Slot |-> s], cap |-> 1,
      ctx |-> [s \in Slot |-> IF s = 0 THEN Context(id, phase, buf)
                              ELSE Context(0, ReadingLength, ZeroBytes)]] :
        id \in {0, 4}, phase \in BoundaryPhases, buf \in IdBytes}
TableStarts ==
    {[order |-> order, cap |-> cap,
      ctx |-> [s \in Slot |-> Context(ids[s], Processing(2), ZeroBytes)]] :
        order \in [Slot -> Slot], cap \in {0, 2, 3}, ids \in [Slot -> {0, 4}]}
MCStarts == StreamStarts \cup TableStarts

Fragments == {<<>>, <<0>>, <<1>>, <<1, 0>>, <<0, 1>>, <<1, 0, 0, 0>>, <<1, 1, 0, 0, 1>>,
              <<1, 0, 0, 1, 0>>}
MCInputs == [c \in 0 .. Capacity |-> IF c = 1 THEN Fragments ELSE {}]

\* Addresses 1 and 2 hold the context; 10 is the last address.
Ranges == [at : {0, 2, 3, 6}, size : {0, 2, 4, 5}]
MCPlaces == [c \in 0 .. Capacity |-> IF c = 1 THEN Ranges ELSE {}]
=============================================================================
