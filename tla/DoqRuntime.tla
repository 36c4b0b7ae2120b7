----------------------------- MODULE DoqRuntime -----------------------------
(***************************************************************************)
(* The code that runs inside one MsQuic callback, as operators on the      *)
(* state it shares: the minimal responder (DNS.Worker.Minimal), the shell  *)
(* dispatchers (ism_shell.c), the single-send adapter (msquic_adapter.c),  *)
(* the event dispatcher (ism_event_queue.c), the per-stream runtime        *)
(* (msquic_runtime.c) and the stream slots (msquic_connection_runtime.c).  *)
(* Calls are serialized, as docs/THREAT_MODEL.md requires, so each is one  *)
(* function of the state m:                                                *)
(*   m.table    the connection's stream table (Multiplexer)                *)
(*   m.adapter  send_in_flight, send_stream_id, send_len                   *)
(*   m.sendbuf  the frame in adapter->send_buffer                          *)
(*   m.queue    the event queue (EventQueue implements it as a ring)       *)
(*   m.slots    the connection's stream slots                              *)
(*   m.sends    what MsQuic was asked to send on each stream               *)
(***************************************************************************)
EXTENDS StreamPhase, Multiplexer

CONSTANTS
    StreamId,           \* QUIC ids of the peer's streams
    ConnSlotCount,      \* stream_slot_count
    QueueCapacity,      \* queue->capacity
    IngressCapacity,    \* ingress_capacity of every slot
    ResponseCapacity,   \* adapter->response_capacity
    SendCapacity,       \* adapter->send_capacity
    ValidQuestion       \* the messages the question validator accepts

ASSUME RuntimeConstants ==
    /\ StreamId \subseteq Nat /\ 0 \in StreamId
    /\ {ConnSlotCount, QueueCapacity, IngressCapacity, ResponseCapacity, SendCapacity}
            \subseteq Nat \ {0}
    /\ ValidQuestion \subseteq Seq(Byte)

ConnSlot == 0 .. ConnSlotCount - 1

Idle == [send_in_flight |-> FALSE, send_stream_id |-> 0, send_len |-> 0]

(* ism_msquic_runtime_stream_init of a slot that is not in use.            *)
FreeSlot ==
    [in_use |-> FALSE, stream_id |-> 0, received_fin |-> FALSE,
     send_in_flight |-> FALSE, reset_pending |-> FALSE, response_len |-> 0]

Event(kind, id, data, len, dropped) ==
    [kind |-> kind, stream_id |-> id, data |-> data, len |-> len, dropped |-> dropped]

----------------------------------------------------------------------------
(* The responder.  A frame is the framed response: its length on the wire, *)
(* its RCODE and the question it echoes (none for FORMERR).                *)

Frame(len, rcode, question) == [len |-> len, rcode |-> rcode, question |-> question]
NoFrame == Frame(0, "none", <<>>)

Request(ctx) == [i \in 1 .. ctx.phase.expected |-> ctx.buf[i - 1]]

valid_doq_request_id(q) == Len(q) >= MinMessage /\ q[1] = 0 /\ q[2] = 0

(* response_len of the validated minimal responder, 0 for no response.     *)
prepare_worker_validated_minimal_response_send(q) ==
    CASE ~valid_doq_request_id(q) -> NoFrame
      [] valid_doq_request_id(q) /\ q \in ValidQuestion ->
            IF ResponseCapacity < Len(q) THEN NoFrame ELSE Frame(Len(q), "NOERROR", q)
      [] OTHER ->
            IF ResponseCapacity < MinMessage THEN NoFrame ELSE Frame(MinMessage, "FORMERR", <<>>)

dispatch_ready_stream_validated_minimal_response(t, id) ==
    LET s == find_stream(t, id)
    IN  IF s = NULL THEN NoFrame
        ELSE IF t.ctx[s].phase.tag # "Processing" THEN NoFrame
        ELSE prepare_worker_validated_minimal_response_send(Request(t.ctx[s]))

----------------------------------------------------------------------------
(* Sending.  up is the set of streams on which StreamSend would succeed.   *)

SlotOf(m, id) == {c \in ConnSlot : m.slots[c].in_use /\ m.slots[c].stream_id = id}

(* The send state of a slot while MsQuic owns its response, and after.     *)
Busy(slot, len) ==
    [slot EXCEPT !.response_len = len, !.send_in_flight = TRUE, !.reset_pending = FALSE]

Cleared(slot) ==
    [slot EXCEPT !.response_len = 0, !.send_in_flight = FALSE, !.reset_pending = FALSE]

(* connection_runtime_send and runtime_send: the first slot in use with    *)
(* this id; the runtime's send flags are set before StreamSend is called.  *)
runtime_send(m, id, frame, up) ==
    IF SlotOf(m, id) = {} THEN [m |-> m, sent |-> FALSE]
    ELSE LET c == CHOOSE k \in SlotOf(m, id) : \A j \in SlotOf(m, id) : k <= j
         IN  IF frame.len = 0 \/ m.slots[c].send_in_flight THEN [m |-> m, sent |-> FALSE]
             ELSE IF id \in up
             THEN [m |-> [m EXCEPT !.slots[c]  = Busy(@, frame.len),
                                   !.sends[id] = [state |-> "pending", frame |-> frame]],
                   sent |-> TRUE]
             ELSE [m |-> [m EXCEPT !.slots[c] = Cleared(@)], sent |-> FALSE]

(* ism_shell_prepare_doq_response_send, called only for a response.        *)
Framed(response) ==
    IF response.len = 0 THEN NoFrame
    ELSE Frame(framed_length(response.len, SendCapacity), response.rcode, response.question)

(* The send slot taken for a frame.                                        *)
Started(m, id, frame) ==
    [m EXCEPT !.adapter = [send_in_flight |-> TRUE, send_stream_id |-> id,
                           send_len |-> frame.len],
              !.sendbuf = frame]

(* The send slot given back and the stream closed.                         *)
Finished(m, id) ==
    [m EXCEPT !.table   = dispatch_response_send_finished(@, id, ReadingLength),
              !.adapter = Idle]

(* A send that MsQuic refuses is a dropped response.                       *)
SendOutcome(id, result) ==
    [m  |-> IF result.sent THEN result.m ELSE Finished(result.m, id),
     ok |-> result.sent]

NotSent(m) == [m |-> m, ok |-> FALSE]

StartSend(m, id, frame, up) ==
    IF frame.len = 0 THEN NotSent(m)
    ELSE SendOutcome(id, runtime_send(Started(m, id, frame), id, frame, up))

ReadyFrame(m, id) == Framed(dispatch_ready_stream_validated_minimal_response(m.table, id))

(* Faulty variants: frames over a buffer in flight; closes the stream when *)
(* MsQuic takes the bytes; keeps the send slot of a refused send.          *)
prepare_over_in_flight(m, id, up) == StartSend(m, id, ReadyFrame(m, id), up)

ClosedIfSent(r, id) ==
    IF r.ok THEN [r EXCEPT !.m.table = dispatch_response_send_finished(@, id, ReadingLength)]
    ELSE r

prepare_and_close(m, id, up) ==
    IF m.adapter.send_in_flight THEN NotSent(m)
    ELSE ClosedIfSent(StartSend(m, id, ReadyFrame(m, id), up), id)

SlotKept(r) == [r EXCEPT !.m.adapter.send_in_flight = TRUE]

prepare_keeping_slot(m, id, up) ==
    IF m.adapter.send_in_flight THEN NotSent(m)
    ELSE SlotKept(StartSend(m, id, ReadyFrame(m, id), up))

(* ok: bytes were handed to MsQuic (the code returns how many, or 0).      *)
prepare_ready_response(m, id, up) ==
    IF m.adapter.send_in_flight THEN NotSent(m)
    ELSE StartSend(m, id, ReadyFrame(m, id), up)

----------------------------------------------------------------------------
(* The adapter's entry points.                                             *)

(* The stream is opened if need be and the handler's context stored; a     *)
(* full table answers with the code of Done.                               *)
Stored(m, opened, ctx) ==
    [m    |-> [m EXCEPT !.table = [opened.table EXCEPT !.ctx[opened.slot] = ctx]],
     code |-> shell_phase_code(ctx.phase)]

TableFull(m, opened) == [m |-> [m EXCEPT !.table = opened.table], code |-> 3]

DataTo(m, opened, data) ==
    IF opened.slot = NULL THEN TableFull(m, opened)
    ELSE Stored(m, opened, handle_stream_data(opened.table.ctx[opened.slot], data))

FinTo(m, opened) ==
    IF opened.slot = NULL THEN TableFull(m, opened)
    ELSE Stored(m, opened, handle_stream_fin(opened.table.ctx[opened.slot]))

dispatch_authenticated_stream_data(m, id, data) ==
    DataTo(m, open_stream(m.table, id, ReadingLength), data)

ServedIfReady(r, id, up) ==
    [m  |-> IF r.code = 2 /\ ~r.m.adapter.send_in_flight
            THEN prepare_ready_response(r.m, id, up).m ELSE r.m,
     ok |-> r.code = 2]

(* ok: the phase code is that of Processing.                               *)
on_authenticated_stream_fin(m, id, up) ==
    ServedIfReady(FinTo(m, open_stream(m.table, id, ReadingLength)), id, up)

Completes(m, id, len) ==
    /\ len <= SendCapacity
    /\ m.adapter.send_in_flight
    /\ m.adapter.send_stream_id = id
    /\ m.adapter.send_len = len

(* Faulty variants: closes the stream and keeps the send slot; frees the   *)
(* send slot and leaves the stream ready.                                  *)
complete_without_slot(m, id, len) ==
    IF ~Completes(m, id, len) THEN [m |-> m, ok |-> FALSE]
    ELSE [m  |-> [Finished(m, id) EXCEPT !.adapter = m.adapter], ok |-> TRUE]

complete_without_close(m, id, len) ==
    IF ~Completes(m, id, len) THEN [m |-> m, ok |-> FALSE]
    ELSE [m  |-> [m EXCEPT !.adapter = Idle], ok |-> TRUE]

adapter_on_send_complete(m, id, len) ==
    IF ~Completes(m, id, len) THEN [m |-> m, ok |-> FALSE]
    ELSE [m |-> Finished(m, id), ok |-> TRUE]

(* Faulty variant: a reset without a send in flight changes nothing.       *)
adapter_reset_ignored(m, id) ==
    IF m.adapter.send_in_flight
    THEN IF m.adapter.send_stream_id # id THEN [m |-> m, ok |-> FALSE]
         ELSE adapter_on_send_complete(m, id, m.adapter.send_len)
    ELSE [m |-> m, ok |-> TRUE]

adapter_on_stream_reset(m, id) ==
    IF m.adapter.send_in_flight
    THEN IF m.adapter.send_stream_id # id THEN [m |-> m, ok |-> FALSE]
         ELSE adapter_on_send_complete(m, id, m.adapter.send_len)
    ELSE [m  |-> [m EXCEPT !.table = dispatch_stream_reset(@, id, ReadingLength)],
          ok |-> TRUE]

----------------------------------------------------------------------------
(* The event queue: staging and dispatching one event.                     *)

enqueue(m, event) ==
    IF Len(m.queue) >= QueueCapacity THEN [m |-> m, ok |-> FALSE]
    ELSE [m |-> [m EXCEPT !.queue = Append(@, event)], ok |-> TRUE]

BytesDispatched(r, id, up) ==
    IF r.code = 2 THEN prepare_ready_response(r.m, id, up)
    ELSE [m |-> r.m, ok |-> r.code # 3]

dispatch_event(m, e, up) ==
    CASE e.kind = "BYTES" ->
            BytesDispatched(dispatch_authenticated_stream_data(m, e.stream_id, e.data),
                            e.stream_id, up)
      [] e.kind = "FIN" -> on_authenticated_stream_fin(m, e.stream_id, up)
      [] e.kind = "READY" ->
            [m |-> prepare_ready_response(m, e.stream_id, up).m, ok |-> TRUE]
      [] e.kind = "SEND_COMPLETE" -> adapter_on_send_complete(m, e.stream_id, e.len)
      [] e.kind = "RESET" -> adapter_on_stream_reset(m, e.stream_id)

(* The event at the head is consumed whether or not its handler succeeds.  *)
dispatch_one(m, up) ==
    IF m.queue = <<>> THEN [m |-> m, ok |-> FALSE]
    ELSE dispatch_event([m EXCEPT !.queue = Tail(@)], Head(m.queue), up)

DispatchNext(r, up) ==
    IF r.ok /\ r.m.queue # <<>> THEN dispatch_one(r.m, up) ELSE r

(* At most max events, stopping at the first that fails.                   *)
dispatch_all(m, max, up) ==
    LET run[n \in 0 .. max] ==
            IF n = 0 THEN [m |-> m, ok |-> TRUE] ELSE DispatchNext(run[n - 1], up)
    IN  run[max].m

EnqueueAndDispatch(m, event, up) ==
    LET staged == enqueue(m, event)
    IN  IF staged.ok THEN dispatch_one(staged.m, up) ELSE staged

----------------------------------------------------------------------------
(* The per-stream runtime: c is the slot MsQuic passes as context.         *)

(* A zero-length buffer is skipped by the caller's loop.                   *)
copy_enqueue_and_dispatch(m, c, data, up) ==
    IF data = <<>> THEN [m |-> m, ok |-> TRUE]
    ELSE IF \/ Len(data) > IngressCapacity
            \/ m.queue # <<>>
            \/ m.slots[c].received_fin
    THEN [m |-> m, ok |-> FALSE]
    ELSE EnqueueAndDispatch(
            m, Event("BYTES", m.slots[c].stream_id, data, Len(data), FALSE), up)

FinRecorded(r, c) == [r EXCEPT !.m.slots[c].received_fin = r.ok]

DispatchFin(m, c, up) ==
    FinRecorded(
        EnqueueAndDispatch(m, Event("FIN", m.slots[c].stream_id, <<>>, 0, FALSE), up), c)

(* Faulty variant: both reports of FIN are dispatched.                     *)
on_every_fin(m, c, up) ==
    IF m.queue # <<>> THEN [m |-> m, ok |-> FALSE] ELSE DispatchFin(m, c, up)

on_fin(m, c, up) ==
    IF m.slots[c].received_fin THEN [m |-> m, ok |-> TRUE]
    ELSE IF m.queue # <<>> THEN [m |-> m, ok |-> FALSE]
    ELSE DispatchFin(m, c, up)

ThenBuffer(r, c, data, up) ==
    IF r.ok THEN copy_enqueue_and_dispatch(r.m, c, data, up) ELSE r

ThenFin(r, c, fin, up) == IF r.ok /\ fin THEN on_fin(r.m, c, up) ELSE r

(* A RECEIVE event with two buffers and possibly the FIN flag; the first   *)
(* failure ends it.                                                        *)
on_msquic_receive(m, c, first, second, fin, up) ==
    ThenFin(ThenBuffer(copy_enqueue_and_dispatch(m, c, first, up), c, second, up), c, fin, up)

(* Faulty variant: reads the length after clearing it.                     *)
on_send_complete_cleared(m, c, dropped, up) ==
    LET cleared == [m EXCEPT !.slots[c] = Cleared(@)]
    IN  IF ~m.slots[c].send_in_flight THEN [m |-> m, ok |-> FALSE]
        ELSE IF ~m.adapter.send_in_flight THEN [m |-> cleared, ok |-> TRUE]
        ELSE EnqueueAndDispatch(cleared,
                Event("SEND_COMPLETE", m.slots[c].stream_id, <<>>,
                      cleared.slots[c].response_len, dropped), up)

(* SEND_COMPLETE: the runtime's send state is cleared before the adapter   *)
(* is told.  The completion's context is this slot's send context.         *)
on_send_complete(m, c, dropped, up) ==
    LET slot    == m.slots[c]
        cleared == [m EXCEPT !.slots[c] = Cleared(@)]
    IN  IF ~slot.send_in_flight THEN [m |-> m, ok |-> FALSE]
        ELSE IF ~m.adapter.send_in_flight THEN [m |-> cleared, ok |-> TRUE]
        ELSE EnqueueAndDispatch(cleared,
                Event("SEND_COMPLETE", slot.stream_id, <<>>, slot.response_len,
                      dropped \/ slot.reset_pending), up)

(* Faulty variant: resets at once, although MsQuic still owns the bytes.   *)
on_stream_reset_at_once(m, c, up) ==
    EnqueueAndDispatch(m, Event("RESET", m.slots[c].stream_id, <<>>, 0, TRUE), up)

(* PEER_SEND_ABORTED, PEER_RECEIVE_ABORTED and SHUTDOWN_COMPLETE.          *)
on_stream_reset(m, c, up) ==
    IF m.slots[c].send_in_flight
    THEN [m |-> [m EXCEPT !.slots[c].reset_pending = TRUE], ok |-> TRUE]
    ELSE EnqueueAndDispatch(m, Event("RESET", m.slots[c].stream_id, <<>>, 0, TRUE), up)

----------------------------------------------------------------------------
(* The connection's stream slots.                                          *)

FreeSlots(m) == {c \in ConnSlot : ~m.slots[c].in_use}

(* The first free slot, bound to the stream.                               *)
allocate_slot(m, id) ==
    LET c == CHOOSE k \in FreeSlots(m) : \A j \in FreeSlots(m) : k <= j
    IN  [m    |-> [m EXCEPT !.slots[c] = [FreeSlot EXCEPT !.in_use = TRUE, !.stream_id = id]],
         slot |-> c]

release_slot(m, c) == [m EXCEPT !.slots[c] = FreeSlot]
=============================================================================
