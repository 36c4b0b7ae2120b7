-------------------------- MODULE MCStreamFraming --------------------------
(* Two byte values and messages of 2 or 3 bytes: every byte string up to   *)
(* one byte past the longest framed message, every stale buffer.           *)
EXTENDS StreamFraming

MaxWire == 6

MCWires == UNION {[1 .. n -> Byte] : n \in 0 .. MaxWire}

MCStaleBuffers == Buffer
=============================================================================
