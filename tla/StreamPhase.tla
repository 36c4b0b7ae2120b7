---------------------------- MODULE StreamPhase ----------------------------
(***************************************************************************)
(* The length-prefixed framing of one DNS-over-QUIC stream: the phases of  *)
(* DNS.QUIC.StreamModel and the two handlers of DNS.QUIC.StreamMapping     *)
(* that advance a stream context, as operators on values.                  *)
(*                                                                         *)
(* Arithmetic on uint32_t is written over Nat: advance_message_checked     *)
(* rejects incoming > remaining before it adds, so no sum exceeds          *)
(* MaxMessage.                                                             *)
(***************************************************************************)
EXTENDS Integers, Sequences

CONSTANTS
    ByteRadix,   \* number of byte values (256 in the code)
    MinMessage   \* shortest accepted message, the DNS header (12 in the code)

(* A message carries its two ID bytes, and every accepted length fits the  *)
(* two-byte prefix.                                                        *)
ASSUME FramingConstants ==
    /\ ByteRadix \in Nat \ {0}
    /\ MinMessage \in Nat
    /\ MinMessage >= 2
    /\ MinMessage <= ByteRadix * ByteRadix - 1

Byte == 0 .. ByteRadix - 1

MaxMessage == ByteRadix * ByteRadix - 1    \* 65535 in the code

(* sc_buf, the caller-owned message buffer of a stream.                    *)
Buffer == [0 .. MaxMessage - 1 -> Byte]

PhaseRecord(tag, hi, expected, current) ==
    [tag |-> tag, hi |-> hi, expected |-> expected, current |-> current]

Done                              == PhaseRecord("Done", 0, 0, 0)
ReadingLength                     == PhaseRecord("ReadingLength", 0, 0, 0)
ReadingLengthHigh(hi)             == PhaseRecord("ReadingLengthHigh", hi, 0, 0)
ReadingMessage(expected, current) == PhaseRecord("ReadingMessage", 0, expected, current)
AwaitingFin(expected)             == PhaseRecord("AwaitingFin", 0, expected, 0)
Processing(expected)              == PhaseRecord("Processing", 0, expected, 0)

Phase ==
    [tag : {"Done", "ReadingLength", "ReadingLengthHigh", "ReadingMessage",
            "AwaitingFin", "Processing"},
     hi : Byte, expected : 0 .. MaxMessage, current : 0 .. MaxMessage]

----------------------------------------------------------------------------
(* One fragment of the peer's bytes.                                       *)

u32_from_be_u16_bytes(hi, lo) == hi * ByteRadix + lo

remaining_message(expected, current) ==
    IF current >= expected THEN 0 ELSE expected - current

(* Faulty variant: forgets the bytes of earlier fragments.                 *)
advance_fragment_only(expected, current, incoming) ==
    IF incoming >= expected
    THEN AwaitingFin(expected)
    ELSE ReadingMessage(expected, incoming)

advance_message(expected, current, incoming) ==
    IF current + incoming >= expected
    THEN AwaitingFin(expected)
    ELSE ReadingMessage(expected, current + incoming)

advance_message_checked(expected, current, incoming) ==
    IF \/ expected < MinMessage
       \/ current > expected
       \/ incoming > remaining_message(expected, current)
    THEN Done
    ELSE advance_message(expected, current, incoming)

advance_body_phase(phase, incoming) ==
    CASE phase.tag = "ReadingMessage" ->
            advance_message_checked(phase.expected, phase.current, incoming)
      [] phase.tag \in {"AwaitingFin", "Processing"} ->
            IF incoming > 0 THEN Done ELSE phase
      [] OTHER -> Done

fragment_phase(phase, len, first, second) ==
    CASE phase.tag = "ReadingLengthHigh" ->
            IF len >= 1
            THEN advance_message_checked(u32_from_be_u16_bytes(phase.hi, first), 0, len - 1)
            ELSE phase
      [] phase.tag = "ReadingLength" ->
            IF len >= 2
            THEN advance_message_checked(u32_from_be_u16_bytes(first, second), 0, len - 2)
            ELSE IF len = 1 THEN ReadingLengthHigh(first) ELSE phase
      [] OTHER -> advance_body_phase(phase, len)

bounded_copy_len(available, wanted) == IF available < wanted THEN available ELSE wanted

CopyPlan(source, destination, count) ==
    [source |-> source, destination |-> destination, count |-> count]

(* Which bytes of the fragment go where in sc_buf.  A rejected fragment    *)
(* may still copy a bounded prefix.                                        *)
fragment_copy_plan(phase, len, first, second) ==
    CASE phase.tag = "ReadingLengthHigh" /\ len >= 1 ->
            CopyPlan(1, 0, bounded_copy_len(len - 1, u32_from_be_u16_bytes(phase.hi, first)))
      [] phase.tag = "ReadingLength" /\ len >= 2 ->
            CopyPlan(2, 0, bounded_copy_len(len - 2, u32_from_be_u16_bytes(first, second)))
      [] phase.tag = "ReadingMessage" /\ phase.current < phase.expected ->
            CopyPlan(0, phase.current,
                     bounded_copy_len(len, remaining_message(phase.expected, phase.current)))
      [] OTHER -> CopyPlan(0, 0, 0)

(* Faulty variant: skips the first byte of the range.                      *)
copied_after_first(before, input, plan) ==
    [i \in DOMAIN before |->
        IF plan.destination < i /\ i < plan.destination + plan.count
        THEN input[plan.source + i - plan.destination + 1]
        ELSE before[i]]

(* The blit of copy_body_bytes, as the code's copied_bytes states it.      *)
copied_bytes(before, input, plan) ==
    [i \in DOMAIN before |->
        IF plan.destination <= i /\ i < plan.destination + plan.count
        THEN input[plan.source + i - plan.destination + 1]
        ELSE before[i]]

ByteAt(data, i) == IF Len(data) >= i THEN data[i] ELSE 0

(* ctx has at least the fields phase and buf.                              *)
handle_stream_data(ctx, data) ==
    LET len    == Len(data)
        first  == ByteAt(data, 1)
        second == ByteAt(data, 2)
    IN  [ctx EXCEPT
            !.phase = fragment_phase(ctx.phase, len, first, second),
            !.buf   = copied_bytes(ctx.buf, data,
                                   fragment_copy_plan(ctx.phase, len, first, second))]

----------------------------------------------------------------------------
(* FIN.                                                                    *)

(* Faulty variant: FIN completes a message that is still being read.       *)
finish_partial_message(phase) ==
    IF phase.tag \in {"ReadingMessage", "AwaitingFin", "Processing"}
    THEN Processing(phase.expected) ELSE Done

finish_stream_phase(phase) ==
    CASE phase.tag = "AwaitingFin" -> Processing(phase.expected)
      [] phase.tag = "Processing" -> phase
      [] OTHER -> Done

finish_doq_phase(phase, id_hi, id_lo) ==
    IF id_hi = 0 /\ id_lo = 0 THEN finish_stream_phase(phase) ELSE Done

handle_stream_fin(ctx) ==
    [ctx EXCEPT !.phase = finish_doq_phase(ctx.phase, ctx.buf[0], ctx.buf[1])]

----------------------------------------------------------------------------
(* What the shell sees: a code for the phase, and the length of a framed   *)
(* response (0 when it does not fit).                                      *)
shell_phase_code(phase) ==
    CASE phase.tag \in {"ReadingLength", "ReadingLengthHigh"} -> 0
      [] phase.tag = "ReadingMessage" -> 1
      [] phase.tag = "Processing" -> 2
      [] phase.tag = "Done" -> 3
      [] phase.tag = "AwaitingFin" -> 4

framed_length(length, capacity) ==
    IF length > MaxMessage \/ capacity < length + 2 THEN 0 ELSE length + 2

----------------------------------------------------------------------------
(* The reference: what the first n bytes of a peer's byte string w amount  *)
(* to, stated on the whole of it.                                          *)

Expected(w) == u32_from_be_u16_bytes(w[1], w[2])

WholeStreamPhase(w, n) ==
    CASE n = 0 -> ReadingLength
      [] n = 1 -> ReadingLengthHigh(w[1])
      [] n >= 2 -> IF Expected(w) < MinMessage \/ n - 2 > Expected(w) THEN Done
                   ELSE IF n - 2 = Expected(w) THEN AwaitingFin(Expected(w))
                   ELSE ReadingMessage(Expected(w), n - 2)

(* One query, framed precisely, long enough for a header, with a zero ID.  *)
WholeQuery(w) ==
    /\ Len(w) >= 2
    /\ Expected(w) >= MinMessage
    /\ Len(w) = Expected(w) + 2
    /\ w[3] = 0 /\ w[4] = 0
=============================================================================
