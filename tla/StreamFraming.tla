--------------------------- MODULE StreamFraming ---------------------------
(***************************************************************************)
(* One stream context fed by a peer: the peer's bytes (wire) arrive in     *)
(* order, cut into fragments anywhere, and FIN arrives at the end of them, *)
(* possibly reported more than once.  The context lives in a recycled      *)
(* slot, so its buffer starts with bytes of an earlier stream.             *)
(***************************************************************************)
EXTENDS StreamPhase

CONSTANTS
    Wires,         \* the byte strings a peer may send
    StaleBuffers   \* what an earlier stream may have left in the buffer

ASSUME FramingInputs ==
    /\ Wires \subseteq Seq(Byte)
    /\ StaleBuffers \subseteq Buffer

VARIABLES
    wire,   \* everything the peer sends before its FIN
    pos,    \* how many bytes of it were delivered
    fin,    \* whether FIN was delivered
    ctx     \* the stream_context: phase and message buffer

framingVars == <<wire, pos, fin, ctx>>

FramingInit ==
    /\ wire \in Wires
    /\ pos = 0
    /\ fin = FALSE
    /\ \E stale \in StaleBuffers : ctx = [phase |-> ReadingLength, buf |-> stale]

(* handle_stream_data on the next n bytes.                                 *)
Data(n) ==
    /\ n \in 0 .. Len(wire) - pos
    /\ pos' = pos + n
    /\ ctx' = handle_stream_data(ctx, SubSeq(wire, pos + 1, pos + n))
    /\ UNCHANGED <<wire, fin>>

(* handle_stream_fin.  QUIC reports FIN only at the stream's final offset. *)
Fin ==
    /\ pos = Len(wire)
    /\ fin' = TRUE
    /\ ctx' = handle_stream_fin(ctx)
    /\ UNCHANGED <<wire, pos>>

FramingNext == (\E n \in 0 .. Len(wire) : Data(n)) \/ Fin

FramingSpec == FramingInit /\ [][FramingNext]_framingVars

----------------------------------------------------------------------------
FramingTypeOK ==
    /\ wire \in Wires
    /\ pos \in 0 .. Len(wire)
    /\ fin \in BOOLEAN
    /\ ctx \in [phase : Phase, buf : Buffer]

(* The bytes of the message copied so far while the stream is live.        *)
MessageBytes ==
    CASE ctx.phase.tag = "ReadingMessage" -> ctx.phase.current
      [] ctx.phase.tag \in {"AwaitingFin", "Processing"} -> ctx.phase.expected
      [] OTHER -> 0

(* Framing does not depend on how QUIC cut the stream: before FIN the      *)
(* phase computed fragment by fragment is the phase of the delivered       *)
(* prefix taken whole (fragment_phase, lemma_body_fragmentation).          *)
FragmentationIndependent == ~fin => ctx.phase = WholeStreamPhase(wire, pos)

(* The message buffer holds the peer's body bytes in order, none skipped,  *)
(* repeated or left over from the slot's previous stream, as far as the    *)
(* phase says bytes were received (fragment_copy_plan, copy_body_bytes).   *)
BufferHoldsBody == \A i \in 0 .. MessageBytes - 1 : ctx.buf[i] = wire[i + 3]

(* A stream is handed to the worker (Processing) exactly when its FIN has  *)
(* arrived, the prefix announced precisely the bytes sent, the length      *)
(* covers a header and the DNS ID is zero; every other stream is rejected  *)
(* at FIN, whatever the stale buffer bytes say (handle_stream_fin).        *)
ReadyIffWholeQuery ==
    fin => ctx.phase = IF WholeQuery(wire) THEN Processing(Expected(wire)) ELSE Done
=============================================================================
