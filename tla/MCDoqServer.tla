---------------------------- MODULE MCDoqServer -----------------------------
(* Two byte values and messages of 2 or 3 bytes.                           *)
EXTENDS DoqServer

Question   == <<1, 0, 0, 0>>      \* a valid question
Other      == <<1, 1, 0, 0, 0>>   \* whole, but not a question; its tail from
                                  \* the second byte is framed like Question
WrongId    == <<1, 0, 0, 1>>
Short      == <<1, 0, 0>>
Long       == <<1, 0, 0, 0, 0>>
TooSmall   == <<0, 1, 0>>

Malformed  == {WrongId, Short, Long, TooSmall}
WellFormed == {Question, Other}

MCStreamId == {0, 4}

\* One stream may misbehave in every way while the other is served.
MCWires == [id \in MCStreamId |-> IF id = 0 THEN {Question} ELSE WellFormed \cup Malformed]
HonestWires == [id \in MCStreamId |-> WellFormed]

\* One stream per connection.
OneStream == {0}
OneWires == [id \in OneStream |-> WellFormed \cup Malformed]

MCValidQuestion == {<<0, 0>>}
=============================================================================
