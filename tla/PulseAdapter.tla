---------------------------- MODULE PulseAdapter ----------------------------
(***************************************************************************)
(* The C on both sides of the neutral ABI between the shell and the Pulse  *)
(* candidate: the stable adapters (shell/pulse_*_adapter.c), which take a  *)
(* snapshot of the shell's connection and write results back, and the      *)
(* candidate ones (migration/c/ism_pulse_*.c), which check a descriptor    *)
(* and call the extracted code.                                            *)
(*                                                                         *)
(* The shell's connection is a Multiplexer table with three more fields:   *)
(* own (slot -> the message buffer sc_buf points at, NULL for none), cap   *)
(* (cc_capacity) and based (cc_active = active).  active may hold NULL.    *)
(* Distinct message buffers are disjoint.                                  *)
(***************************************************************************)
EXTENDS StreamPhase, PulseMultiplexer

INVALID == -2   \* ISM_PULSE_TABLE_INVALID

----------------------------------------------------------------------------
(* Phases.  The neutral tags are neither compiler's enum values, so each   *)
(* conversion is a switch of its own, on the shell's side to and from the  *)
(* wire and on the candidate's side again.                                 *)

ISM_PULSE_LENGTH       == 0
ISM_PULSE_LENGTH_HIGH  == 1
ISM_PULSE_BODY         == 2
ISM_PULSE_AWAITING_FIN == 3
ISM_PULSE_PROCESSING   == 4
ISM_PULSE_DONE         == 5

BadTag == 255   \* UINT8_MAX, for a tag that is none of the enum's

WirePhase(tag, high, expected, current) ==
    [tag |-> tag, high |-> high, expected |-> expected, current |-> current]

phase_to_wire(p) ==
    CASE p.tag = "ReadingLength"     -> WirePhase(ISM_PULSE_LENGTH, 0, 0, 0)
      [] p.tag = "ReadingLengthHigh" -> WirePhase(ISM_PULSE_LENGTH_HIGH, p.hi, 0, 0)
      [] p.tag = "ReadingMessage"    -> WirePhase(ISM_PULSE_BODY, 0, p.expected, p.current)
      [] p.tag = "AwaitingFin"       -> WirePhase(ISM_PULSE_AWAITING_FIN, 0, p.expected, 0)
      [] p.tag = "Processing"        -> WirePhase(ISM_PULSE_PROCESSING, 0, p.expected, 0)
      [] p.tag = "Done"              -> WirePhase(ISM_PULSE_DONE, 0, 0, 0)
      [] OTHER                       -> WirePhase(BadTag, 0, 0, 0)

(* Faulty variant: the two lengths of a body change places.                *)
phase_from_wire_swapped(w) ==
    CASE w.tag = ISM_PULSE_LENGTH       -> ReadingLength
      [] w.tag = ISM_PULSE_LENGTH_HIGH  -> ReadingLengthHigh(w.high)
      [] w.tag = ISM_PULSE_BODY         -> ReadingMessage(w.current, w.expected)
      [] w.tag = ISM_PULSE_AWAITING_FIN -> AwaitingFin(w.expected)
      [] w.tag = ISM_PULSE_PROCESSING   -> Processing(w.expected)
      [] OTHER                          -> Done

phase_from_wire(w) ==
    CASE w.tag = ISM_PULSE_LENGTH       -> ReadingLength
      [] w.tag = ISM_PULSE_LENGTH_HIGH  -> ReadingLengthHigh(w.high)
      [] w.tag = ISM_PULSE_BODY         -> ReadingMessage(w.expected, w.current)
      [] w.tag = ISM_PULSE_AWAITING_FIN -> AwaitingFin(w.expected)
      [] w.tag = ISM_PULSE_PROCESSING   -> Processing(w.expected)
      [] OTHER                          -> Done

Decoded(phase) == [ok |-> TRUE, phase |-> phase]
NotDecoded     == [ok |-> FALSE, phase |-> Done]

(* Lengths beyond the message buffer are refused.                          *)
decode_phase(w) ==
    CASE w.tag = ISM_PULSE_LENGTH      -> Decoded(ReadingLength)
      [] w.tag = ISM_PULSE_LENGTH_HIGH -> Decoded(ReadingLengthHigh(w.high))
      [] w.tag = ISM_PULSE_BODY /\ w.expected <= MaxMessage ->
            Decoded(ReadingMessage(w.expected, w.current))
      [] w.tag = ISM_PULSE_AWAITING_FIN /\ w.expected <= MaxMessage ->
            Decoded(AwaitingFin(w.expected))
      [] w.tag = ISM_PULSE_PROCESSING /\ w.expected <= MaxMessage ->
            Decoded(Processing(w.expected))
      [] w.tag = ISM_PULSE_DONE        -> Decoded(Done)
      [] OTHER                         -> NotDecoded

(* ism_pulse_decode_phase returns true.                                    *)
decodable(w) == decode_phase(w).ok

StreamResult(phase, code) == [phase |-> phase, code |-> code]

rejected == StreamResult(WirePhase(ISM_PULSE_DONE, 0, 0, 0), 3)

encode(p) ==
    CASE p.tag = "ReadingLength"     -> StreamResult(WirePhase(ISM_PULSE_LENGTH, 0, 0, 0), 0)
      [] p.tag = "ReadingLengthHigh" ->
            StreamResult(WirePhase(ISM_PULSE_LENGTH_HIGH, p.hi, 0, 0), 0)
      [] p.tag = "ReadingMessage"    ->
            StreamResult(WirePhase(ISM_PULSE_BODY, 0, p.expected, p.current), 1)
      [] p.tag = "AwaitingFin"       ->
            StreamResult(WirePhase(ISM_PULSE_AWAITING_FIN, 0, p.expected, 0), 4)
      [] p.tag = "Processing"        ->
            StreamResult(WirePhase(ISM_PULSE_PROCESSING, 0, p.expected, 0), 2)
      [] OTHER                       -> rejected

----------------------------------------------------------------------------
(* Stream ingress.  ok says that the byte ranges are usable: message and   *)
(* input in range and disjoint.                                            *)

ism_pulse_stream_data(wire, buf, data, ok) ==
    IF ~decodable(wire) \/ (data # <<>> /\ ~ok) THEN [result |-> rejected, buf |-> buf]
    ELSE [result |-> encode(handle_stream_data(
                        [phase |-> decode_phase(wire).phase, buf |-> buf], data).phase),
          buf    |-> handle_stream_data(
                        [phase |-> decode_phase(wire).phase, buf |-> buf], data).buf]

ism_pulse_stream_fin(wire, buf) ==
    IF ~decodable(wire) THEN rejected
    ELSE encode(handle_stream_fin([phase |-> decode_phase(wire).phase, buf |-> buf]).phase)

reject(ctx) == [ctx |-> [ctx EXCEPT !.phase = Done], code |-> 3]

IngressResult(ctx, r, buf) ==
    [ctx |-> [ctx EXCEPT !.phase = phase_from_wire(r.phase), !.buf = buf], code |-> r.code]

Ingested(ctx, r) == IngressResult(ctx, r.result, r.buf)

ism_pulse_ingress_data(ctx, id, data) ==
    IF ctx.id # id THEN reject(ctx)
    ELSE Ingested(ctx, ism_pulse_stream_data(phase_to_wire(ctx.phase), ctx.buf, data, TRUE))

ism_pulse_ingress_fin(ctx) ==
    IngressResult(ctx, ism_pulse_stream_fin(phase_to_wire(ctx.phase), ctx.buf), ctx.buf)

----------------------------------------------------------------------------
(* The table.                                                              *)

(* Faulty variant: trusts the active flags.                                *)
snapshot_ok_without_flags(t) ==
    /\ t.based /\ t.num <= t.cap /\ t.cap <= Capacity
    /\ \A i \in Slot : t.active[i] \in Slot
    /\ PointersDistinct(t)
    /\ \A s \in Slot : t.own[s] = s

(* snapshot returns true.                                                  *)
snapshot_ok(t) ==
    /\ t.based /\ t.num <= t.cap /\ t.cap <= Capacity
    /\ \A i \in Slot : t.active[i] \in Slot
    /\ PointersDistinct(t)
    /\ \A s \in Slot : t.own[s] = s
    /\ FlagsMatchPrefix(t)

snapshot(t) ==
    [order    |-> t.active,
     slot     |-> [s \in Slot |-> [id |-> t.ctx[s].id, phase |-> phase_to_wire(t.ctx[s].phase),
                                   message |-> s, message_capacity |-> MaxMessage]],
     count    |-> t.num,
     capacity |-> t.cap]

(* The descriptor checks of ism_pulse_table_apply.                         *)
descriptor_ok(w) ==
    /\ w.count <= w.capacity /\ w.capacity <= Capacity
    /\ \A i \in Slot :
          /\ w.order[i] \in Slot
          /\ w.slot[i].message # NULL /\ w.slot[i].message_capacity >= MaxMessage
          /\ decodable(w.slot[i].phase)
    /\ OrderDistinct(w)
    /\ \A i, j \in Slot : w.slot[i].message = w.slot[j].message => i = j

(* The three operations of ism_pulse_table_apply.                          *)
table_find(w, id) == IF descriptor_ok(w) THEN find_index(w, id) ELSE INVALID

table_allocate(w, id) ==
    IF descriptor_ok(w) THEN pulse_allocate(w, id, WirePhase(ISM_PULSE_LENGTH, 0, 0, 0))
    ELSE [w |-> w, result |-> INVALID]

table_close(w, id) ==
    IF ~descriptor_ok(w) THEN [w |-> w, result |-> INVALID]
    ELSE [w |-> pulse_close(w, id).w, result |-> IF pulse_close(w, id).closed THEN 1 ELSE 0]

(* A NULL result when the connection or the descriptor is refused.         *)
FoundAt(t, w, index) == IF index \in Active(w) THEN w.order[index] ELSE NULL

ism_pulse_table_find(t, id) ==
    IF snapshot_ok(t) THEN FoundAt(t, snapshot(t), table_find(snapshot(t), id)) ELSE NULL

(* Write back the one context, its flag and the count.                     *)
Allocated(t, w, physical) ==
    [table |-> [t EXCEPT !.ctx[physical]  = [@ EXCEPT !.id    = w.slot[physical].id,
                                                      !.phase = phase_from_wire(w.slot[physical].phase)],
                         !.used[physical] = TRUE,
                         !.num            = w.count],
     slot  |-> physical]

NotOpened(t) == [table |-> t, slot |-> NULL]

AllocatedIf(t, r) ==
    IF r.result \in 0 .. r.w.capacity - 1 THEN Allocated(t, r.w, r.w.order[r.result])
    ELSE NotOpened(t)

OpenedAt(t, w, id, index) ==
    CASE index = INVALID -> NotOpened(t)
      [] index \in Active(w) -> [table |-> t, slot |-> w.order[index]]
      [] OTHER -> AllocatedIf(t, table_allocate(w, id))

(* Open is idempotent, unlike the allocation underneath.                   *)
ism_pulse_table_open(t, id) ==
    IF snapshot_ok(t) THEN OpenedAt(t, snapshot(t), id, table_find(snapshot(t), id))
    ELSE NotOpened(t)

(* Write back the permutation and the count; flags are left to the sync.   *)
ClosedWith(t, r) ==
    [table  |-> IF r.result = 1 THEN [t EXCEPT !.active = r.w.order, !.num = r.w.count] ELSE t,
     result |-> IF r.result = INVALID THEN 0 ELSE 1]

ism_pulse_table_close(t, id) ==
    IF snapshot_ok(t) THEN ClosedWith(t, table_close(snapshot(t), id))
    ELSE [table |-> t, result |-> 0]

----------------------------------------------------------------------------
(* Response framing over a flat address space; a range is [at, size].      *)

CONSTANT AddressLimit   \* UINTPTR_MAX

ASSUME AddressAssumption == AddressLimit \in Nat

(* Faulty variant: only the start of the second range is tested.           *)
ism_response_disjoint_start(a, b) ==
    /\ a.at # 0 /\ a.size <= AddressLimit - a.at
    /\ b.at # 0 /\ b.size <= AddressLimit - b.at
    /\ \/ a.size = 0 \/ b.size = 0
       \/ a.at + a.size <= b.at \/ b.at < a.at

ism_response_range_ok(r) == r.at # 0 /\ r.size <= AddressLimit - r.at

ism_response_disjoint(a, b) ==
    /\ ism_response_range_ok(a) /\ ism_response_range_ok(b)
    /\ \/ a.size = 0 \/ b.size = 0
       \/ a.at + a.size <= b.at \/ b.at + b.size <= a.at

(* An empty response is read from a local byte.                            *)
ism_pulse_response_frame(src, dst) ==
    IF /\ ism_response_range_ok(dst)
       /\ src.size > 0 => ism_response_disjoint(src, dst)
    THEN framed_length(src.size, dst.size) ELSE 0

(* context: where the stream's context lives; message: its sc_buf.         *)
ism_pulse_prepare_doq_response(context, message, src, dst) ==
    IF ism_response_disjoint(context, dst) /\ message # NULL
    THEN ism_pulse_response_frame(src, dst) ELSE 0
=============================================================================
