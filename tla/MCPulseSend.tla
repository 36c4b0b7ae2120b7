---------------------------- MODULE MCPulseSend -----------------------------
(* Three slots and three ids: the reserved context can be first, middle or *)
(* last, and share its id with another.                                    *)
EXTENDS PulseSend

MCSendId == {0, 4, 8}
=============================================================================
