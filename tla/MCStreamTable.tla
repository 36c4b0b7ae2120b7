--------------------------- MODULE MCStreamTable ---------------------------
(* One more stream than slots; ids as QUIC numbers client streams.         *)
EXTENDS StreamTable

MCStreamId  == {0, 4, 8, 12}
MCPhaseName == {"ReadingLength", "ReadingMessage", "Done"}
=============================================================================
