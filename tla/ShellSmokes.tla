---------------------------- MODULE ShellSmokes -----------------------------
(***************************************************************************)
(* The repository's sequential smoke programs, replayed on the model and   *)
(* generalized: a smoke hands each query to the shell in one piece, here   *)
(* its bytes arrive cut in every possible way, and the smoke's assertions  *)
(* must hold whatever the cut.  A smoke is a sequence of calls, each with  *)
(* the observations its C code asserts after the call: return values and   *)
(* phase codes, the table's size, the send slot and the send buffer, the   *)
(* queue, the slot's flags and the calls of MsQuic's close and shutdown.   *)
(* Left out are assertions on what the model does not hold: the FIN flag   *)
(* and the number of calls of the fake send, addresses of buffers, the     *)
(* bytes of the ingress buffer, and calls with null pointers or with       *)
(* buffers of capacity zero.                                               *)
(*                                                                         *)
(* The smokes' fakes are the model's MsQuic: a send succeeds on the        *)
(* streams in up.  Where a smoke drives the adapter alone, slot 0 stands   *)
(* for the fake send function that takes the response.                     *)
(***************************************************************************)
EXTENDS DoqRuntime, FiniteSets

VARIABLES
    smoke, \* the smoke that runs, of Smokes
    at,    \* its next call
    done,  \* bytes of that call's data delivered so far
    m,     \* the shell, with the closes and shutdowns MsQuic was asked for
    seen   \* what can be observed after the last call

vars == <<smoke, at, done, m, seen>>

----------------------------------------------------------------------------
(* The responders and boundaries of ism_shell.c that only the smokes call. *)

prepare_worker_minimal_error_response_send(q) ==
    IF Len(q) < MinMessage \/ ResponseCapacity < MinMessage THEN NoFrame
    ELSE Frame(MinMessage, "FORMERR", <<>>)

prepare_worker_empty_noerror_response_send(q) ==
    IF Len(q) < MinMessage \/ ResponseCapacity < MinMessage THEN NoFrame
    ELSE Frame(MinMessage, "NOERROR", <<>>)

Ready(t, s) == s # NULL /\ t.ctx[s].phase.tag = "Processing"

process_ready_stream(t, id) ==
    IF ~Ready(t, find_stream(t, id)) THEN NoFrame
    ELSE prepare_worker_minimal_error_response_send(Request(t.ctx[find_stream(t, id)]))

process_ready_stream_empty_response(t, id) ==
    IF ~Ready(t, find_stream(t, id)) THEN NoFrame
    ELSE prepare_worker_empty_noerror_response_send(Request(t.ctx[find_stream(t, id)]))

process_ready_stream_validated_minimal_response(t, id) ==
    dispatch_ready_stream_validated_minimal_response(t, id)

(* The scheduler's dispatchers find the stream and call the same workers.  *)
dispatch_ready_stream(t, id) == process_ready_stream(t, id)

dispatch_ready_stream_empty_response(t, id) == process_ready_stream_empty_response(t, id)

prepare_response_send(t, id, len) == IF find_stream(t, id) = NULL THEN 0 ELSE len

prepare_doq_response_send(t, id, response) ==
    IF find_stream(t, id) = NULL THEN NoFrame ELSE Framed(response)

complete_response_send(t, id) == dispatch_response_send_finished(t, id, ReadingLength)

----------------------------------------------------------------------------
(* Calls.  Each yields the new state and the value the call returns.       *)

Returns(n, result) == [m |-> n, result |-> result]
Outcome(r) == Returns(r.m, r.ok)

Opens(n, opened) == Returns([n EXCEPT !.table = opened.table], opened.slot # NULL)

ShellCall(c, n) ==
    CASE c.op = "open" -> Opens(n, open_stream(n.table, c.id, ReadingLength))
      [] c.op = "find" -> Returns(n, find_stream(n.table, c.id) # NULL)
      [] c.op = "process error" -> Returns(n, process_ready_stream(n.table, c.id))
      [] c.op = "process empty" ->
            Returns(n, process_ready_stream_empty_response(n.table, c.id))
      [] c.op = "process validated" ->
            Returns(n, process_ready_stream_validated_minimal_response(n.table, c.id))
      [] c.op = "dispatch error" -> Returns(n, dispatch_ready_stream(n.table, c.id))
      [] c.op = "dispatch empty" ->
            Returns(n, dispatch_ready_stream_empty_response(n.table, c.id))
      [] c.op = "dispatch validated" ->
            Returns(n, dispatch_ready_stream_validated_minimal_response(n.table, c.id))
      [] c.op = "prepare" -> Returns(n, prepare_response_send(n.table, c.id, c.arg))
      [] c.op = "frame" -> Returns(n, prepare_doq_response_send(n.table, c.id, c.arg))
      [] c.op = "complete" ->
            Returns([n EXCEPT !.table = complete_response_send(@, c.id)], 1)
      [] c.op = "finished" ->
            Returns([n EXCEPT !.table = dispatch_response_send_finished(@, c.id, ReadingLength)], 1)

AdapterCall(c, n, up) ==
    CASE c.op = "adapter prepare" -> Outcome(prepare_ready_response(n, c.id, up))
      [] c.op = "adapter complete" -> Outcome(adapter_on_send_complete(n, c.id, c.arg))
      [] c.op = "adapter reset" -> Outcome(adapter_on_stream_reset(n, c.id))
      [] c.op = "enqueue" -> Outcome(enqueue(n, c.arg))
      [] c.op = "dequeue" -> IF n.queue = <<>> THEN Returns(n, "empty")
                             ELSE Returns([n EXCEPT !.queue = Tail(@)], Head(n.queue))
      [] c.op = "dispatch one" -> Outcome(dispatch_one(n, up))

(* PEER_STREAM_STARTED; arg says whether GetParam succeeds.                *)
peer_stream_started(c, n) ==
    IF c.arg /\ FreeSlots(n) # {} THEN Returns(allocate_slot(n, c.id).m, TRUE)
    ELSE Returns([n EXCEPT !.streams_closed = @ + 1], FALSE)

ReleasedIf(r) ==
    IF ~r.ok THEN Outcome(r)
    ELSE Returns([release_slot(r.m, 0) EXCEPT !.streams_closed = @ + 1], TRUE)

RuntimeCall(c, n, up) ==
    CASE c.op = "fin" -> Outcome(on_fin(n, 0, up))
      [] c.op = "runtime complete" ->
            Outcome(EnqueueAndDispatch(n, Event("SEND_COMPLETE", c.id, <<>>, c.arg, FALSE), up))
      [] c.op = "runtime reset" ->
            Outcome(EnqueueAndDispatch(n, Event("RESET", c.id, <<>>, 0, TRUE), up))
      [] c.op = "send complete" -> Outcome(on_send_complete(n, 0, c.arg, up))
      [] c.op = "aborted" -> Outcome(on_stream_reset(n, 0, up))
      [] c.op = "shutdown" -> ReleasedIf(on_stream_reset(n, 0, up))
      [] c.op = "stream started" -> peer_stream_started(c, n)
      [] c.op = "connection shutdown" ->
            Returns([n EXCEPT !.connections_closed = @ + 1], TRUE)
      [] c.op = "set in_use" -> Returns([n EXCEPT !.slots[0].in_use = c.arg], TRUE)
      [] c.op = "receive at once" ->
            Outcome(copy_enqueue_and_dispatch(n, 0, c.data, up))

RuntimeOps == {"fin", "runtime complete", "runtime reset", "send complete", "aborted",
               "shutdown", "stream started", "connection shutdown", "set in_use",
               "receive at once"}
AdapterOps == {"adapter prepare", "adapter complete", "adapter reset",
               "enqueue", "dequeue", "dispatch one"}
DataOps    == {"shell ingest", "adapter ingest", "receive"}

(* What one call does that is handed no data to cut.                       *)
Called(c, n, up) ==
    CASE c.op \in RuntimeOps -> RuntimeCall(c, n, up)
      [] c.op \in AdapterOps -> AdapterCall(c, n, up)
      [] OTHER -> ShellCall(c, n)

(* ingest_direct_complete and ingest_scheduler_complete: FIN follows when  *)
(* all the bytes leave the stream waiting for it.                          *)
FinIfAwaited(r, id, last) ==
    IF last /\ r.code = 4 THEN FinTo(r.m, open_stream(r.m.table, id, ReadingLength)) ELSE r

ShellIngest(c, n, piece, last) ==
    FinIfAwaited(dispatch_authenticated_stream_data(n, c.id, piece), c.id, last)

ServedAsCode(r) == [m |-> r.m, code |-> IF r.ok THEN 2 ELSE 3]

(* ingest_with_fin, over the adapter's two entry points.                   *)
on_authenticated_stream_bytes(r, id, up) ==
    IF r.code = 2 THEN [r EXCEPT !.m = prepare_ready_response(r.m, id, up).m] ELSE r

AdapterFinIfAwaited(r, id, last, up) ==
    IF last /\ r.code = 4 THEN ServedAsCode(on_authenticated_stream_fin(r.m, id, up)) ELSE r

AdapterIngest(c, n, piece, last, up) ==
    AdapterFinIfAwaited(
        on_authenticated_stream_bytes(
            dispatch_authenticated_stream_data(n, c.id, piece), c.id, up),
        c.id, last, up)

(* A RECEIVE that fails shuts the connection down; arg is the FIN flag.    *)
ShutDownIfFailed(r) ==
    IF r.ok THEN Outcome(r) ELSE Returns([r.m EXCEPT !.shutdowns = @ + 1], FALSE)

Coded(r) == Returns(r.m, r.code)

Received(c, n, piece, last, up) ==
    CASE c.op = "shell ingest" -> Coded(ShellIngest(c, n, piece, last))
      [] c.op = "adapter ingest" -> Coded(AdapterIngest(c, n, piece, last, up))
      [] c.op = "receive" ->
            ShutDownIfFailed(on_msquic_receive(n, 0, piece, <<>>, last /\ c.arg, up))

----------------------------------------------------------------------------
(* What a smoke can look at.                                               *)

Observed(n, result) ==
    [result             |-> result,
     num                |-> n.table.num,
     in_flight          |-> n.adapter.send_in_flight,
     send_id            |-> n.adapter.send_stream_id,
     send_len           |-> n.adapter.send_len,
     send_buffer        |-> n.sendbuf,
     queued             |-> Len(n.queue),
     sent               |-> Cardinality({id \in StreamId : n.sends[id].state # "none"}),
     in_use             |-> n.slots[0].in_use,
     slot_in_flight     |-> n.slots[0].send_in_flight,
     reset_pending      |-> n.slots[0].reset_pending,
     streams_closed     |-> n.streams_closed,
     connections_closed |-> n.connections_closed,
     shutdowns          |-> n.shutdowns]

(* Slot 0 is bound to the stream a smoke below the connection drives.      *)
Fresh(bound) ==
    [table   |-> connection_init(ReadingLength, [i \in 0 .. MaxMessage - 1 |-> 0]),
     adapter |-> Idle,
     sendbuf |-> NoFrame,
     queue   |-> <<>>,
     slots   |-> [c \in ConnSlot |->
                    IF bound = NULL THEN FreeSlot
                    ELSE [FreeSlot EXCEPT !.in_use = TRUE, !.stream_id = bound]],
     sends   |-> [id \in StreamId |-> [state |-> "none", frame |-> NoFrame]],
     streams_closed |-> 0, connections_closed |-> 0, shutdowns |-> 0]

Data(op, id, data, arg, expect) ==
    [op |-> op, id |-> id, data |-> data, arg |-> arg, expect |-> expect]
Call(op, id, arg, expect) == Data(op, id, <<>>, arg, expect)

Script(bound, up, calls) == [bound |-> bound, up |-> up, calls |-> calls]

(* exact_a_query (its question is valid), the header-only query, the       *)
(* responses the smokes compare with, and the first byte of a prefix.      *)
Query    == <<1, 1, 0, 0, 1>>
Header   == <<1, 0, 0, 0>>
FirstByte == <<1>>
Answer   == Frame(3, "NOERROR", <<0, 0, 1>>)
Empty    == Frame(2, "NOERROR", <<>>)
FormErr  == Frame(2, "FORMERR", <<>>)
OnWire(response) == [response EXCEPT !.len = @ + 2]

----------------------------------------------------------------------------
(* link_shell_scaffold_smoke.c: completion, reopening and compaction, then *)
(* each responder, called directly and through the scheduler.              *)
ScaffoldTable == Script(NULL, {}, <<
    Data("shell ingest", 1, Header, 0, [result |-> 2, num |-> 1]),
    Call("prepare", 1, 0, [result |-> 0]),
    Call("complete", 1, 0, [result |-> 1, num |-> 0]),
    Data("shell ingest", 1, Header, 0, [result |-> 2]),
    Data("shell ingest", 2, Header, 0, [result |-> 2, num |-> 2]),
    Call("complete", 1, 0, [result |-> 1, num |-> 1]),
    Call("find", 1, 0, [result |-> FALSE]),
    Call("find", 2, 0, [result |-> TRUE]),
    Call("open", 3, 0, [result |-> TRUE, num |-> 2]),
    Call("find", 2, 0, [result |-> TRUE]),
    Call("find", 3, 0, [result |-> TRUE]) >>)

ScaffoldError == Script(NULL, {}, <<
    Data("shell ingest", 1, Query, 0, [result |-> 2]),
    Call("process error", 1, 0, [result |-> FormErr]),
    Call("dispatch error", 1, 0, [result |-> FormErr]),
    Call("finished", 1, 0, [result |-> 1, num |-> 0]) >>)

ScaffoldEmpty == Script(NULL, {}, <<
    Data("shell ingest", 1, Query, 0, [result |-> 2]),
    Call("process empty", 1, 0, [result |-> Empty]),
    Call("dispatch empty", 1, 0, [result |-> Empty]),
    Call("finished", 1, 0, [result |-> 1, num |-> 0]) >>)

ScaffoldValidated == Script(NULL, {}, <<
    Data("shell ingest", 1, Query, 0, [result |-> 2]),
    Call("process validated", 1, 0, [result |-> Answer]),
    Call("dispatch validated", 1, 0, [result |-> Answer]),
    Call("frame", 1, Answer, [result |-> OnWire(Answer)]),
    Call("finished", 1, 0, [result |-> 1, num |-> 0]) >>)

ScaffoldInvalid == Script(NULL, {}, <<
    Data("shell ingest", 1, Header, 0, [result |-> 2]),
    Call("dispatch validated", 1, 0, [result |-> FormErr]),
    Call("frame", 1, FormErr, [result |-> OnWire(FormErr)]) >>)

----------------------------------------------------------------------------
(* link_msquic_adapter_smoke.c: one send at a time, and only its own       *)
(* completion or reset ends it.                                            *)
AdapterSend == Script(1, {1}, <<
    Data("adapter ingest", 1, Query, 0,
         [result |-> 2, sent |-> 1, in_flight |-> TRUE, send_id |-> 1, send_len |-> 5,
          send_buffer |-> OnWire(Answer)]),
    Call("adapter prepare", 1, 0, [result |-> FALSE, sent |-> 1, in_flight |-> TRUE]),
    Call("adapter complete", 2, 5, [result |-> FALSE, in_flight |-> TRUE]),
    Call("adapter reset", 2, 0, [result |-> FALSE, in_flight |-> TRUE]),
    Call("adapter complete", 1, 6, [result |-> FALSE, in_flight |-> TRUE]),
    Call("adapter reset", 1, 0,
         [result |-> TRUE, in_flight |-> FALSE, send_len |-> 0, num |-> 0]),
    Call("adapter reset", 1, 0, [result |-> TRUE, num |-> 0]) >>)

AdapterFormErr == Script(2, {2}, <<
    Data("adapter ingest", 2, Header, 0,
         [result |-> 2, sent |-> 1, in_flight |-> TRUE, send_id |-> 2, send_len |-> 4,
          send_buffer |-> OnWire(FormErr)]),
    Call("adapter complete", 2, 4,
         [result |-> TRUE, in_flight |-> FALSE, send_len |-> 0, num |-> 0]) >>)

(* A stream that is reset while its length prefix is still incomplete.     *)
(* The smoke's adapter with buffers of capacity zero is left out: the      *)
(* capacities are constants of the model, and positive.                    *)
AdapterReset == Script(3, {3}, <<
    Data("adapter ingest", 3, FirstByte, 0, [result |-> 0, sent |-> 0, num |-> 1]),
    Call("adapter reset", 3, 0, [result |-> TRUE, num |-> 0, in_flight |-> FALSE]),
    Call("adapter reset", 3, 0, [result |-> TRUE, num |-> 0]) >>)

(* The fake send fails: the response was framed for it, the stream is      *)
(* closed and the send slot is free.                                       *)
AdapterFailedSend == Script(1, {}, <<
    Data("adapter ingest", 1, Query, 0,
         [result |-> 2, in_flight |-> FALSE, send_id |-> 0, send_len |-> 0, num |-> 0,
          send_buffer |-> OnWire(Answer)]) >>)

----------------------------------------------------------------------------
(* link_event_queue_smoke.c: FIFO order and overflow, then each event kind *)
(* dispatched.                                                             *)
Bytes(id, data) == Event("BYTES", id, data, Len(data), FALSE)
Fin(id)         == Event("FIN", id, <<>>, 0, FALSE)
ReadyEvent(id)  == Event("READY", id, <<>>, 0, FALSE)
Complete(id, len) == Event("SEND_COMPLETE", id, <<>>, len, FALSE)
Reset(id)       == Event("RESET", id, <<>>, 0, TRUE)

QueueOrder == Script(NULL, {}, <<
    Call("enqueue", 1, Bytes(1, Query), [result |-> TRUE]),
    Call("enqueue", 2, ReadyEvent(2), [result |-> TRUE]),
    Call("enqueue", 3, Complete(3, 4), [result |-> FALSE, queued |-> 2]),
    Call("dequeue", 0, 0, [result |-> Bytes(1, Query)]),
    Call("dequeue", 0, 0, [result |-> ReadyEvent(2)]),
    Call("dequeue", 0, 0, [result |-> "empty"]) >>)

QueueDispatch == Script(1, {1}, <<
    Call("enqueue", 1, Bytes(1, Query), [result |-> TRUE]),
    Call("dispatch one", 0, 0, [result |-> TRUE, sent |-> 0]),
    Call("enqueue", 1, Fin(1), [result |-> TRUE]),
    Call("dispatch one", 0, 0, [result |-> TRUE, sent |-> 1, send_id |-> 1, send_len |-> 5,
                                queued |-> 0, send_buffer |-> OnWire(Answer)]),
    Call("enqueue", 1, Complete(1, 5), [result |-> TRUE]),
    Call("dispatch one", 0, 0, [result |-> TRUE, num |-> 0]),
    Call("enqueue", 1, Bytes(1, FirstByte), [result |-> TRUE]),
    Call("dispatch one", 0, 0, [result |-> TRUE, num |-> 1]),
    Call("enqueue", 1, Reset(1), [result |-> TRUE]),
    Call("dispatch one", 0, 0, [result |-> TRUE, num |-> 0]) >>)

----------------------------------------------------------------------------
(* link_msquic_runtime_smoke.c: one stream's runtime below the connection. *)
RuntimeSend == Script(1, {1}, <<
    Data("receive", 1, Query, FALSE, [result |-> TRUE, sent |-> 0]),
    Call("fin", 1, 0, [result |-> TRUE, sent |-> 1, send_id |-> 1, send_len |-> 5,
                       send_buffer |-> OnWire(Answer), queued |-> 0]),
    Call("runtime complete", 1, 5, [result |-> TRUE, num |-> 0, queued |-> 0]) >>)

RuntimeReset == Script(2, {2}, <<
    Data("receive", 2, FirstByte, FALSE, [result |-> TRUE, sent |-> 0, num |-> 1]),
    Call("runtime reset", 2, 0, [result |-> TRUE, num |-> 0]),
    Call("runtime reset", 2, 0, [result |-> TRUE, queued |-> 0]) >>)

(* Data that does not fit the ingress buffer: the smoke takes a smaller    *)
(* buffer, the model longer data.                                          *)
RuntimeUndersized == Script(1, {1}, <<
    Data("receive at once", 1, Query \o Query, 0, [result |-> FALSE, queued |-> 0]) >>)

----------------------------------------------------------------------------
(* msquic_connection_smoke.c: a stream is served and gives its slot to the *)
(* next, whose send the peer aborts.                                       *)
ConnectionServed == <<
    Call("stream started", 1, TRUE, [result |-> TRUE, in_use |-> TRUE]),
    Data("receive", 1, Query, TRUE,
         [result |-> TRUE, sent |-> 1, slot_in_flight |-> TRUE, in_flight |-> TRUE,
          send_buffer |-> OnWire(Answer)]),
    Call("send complete", 1, FALSE,
         [result |-> TRUE, slot_in_flight |-> FALSE, in_flight |-> FALSE, num |-> 0]),
    Call("shutdown", 1, 0, [result |-> TRUE, in_use |-> FALSE, streams_closed |-> 1]) >>

ConnectionAborted == <<
    Call("stream started", 2, TRUE, [result |-> TRUE]),
    Data("receive", 2, Query, TRUE,
         [result |-> TRUE, sent |-> 2, slot_in_flight |-> TRUE, in_flight |-> TRUE, num |-> 1]),
    Call("aborted", 2, 0, [result |-> TRUE, slot_in_flight |-> TRUE, reset_pending |-> TRUE,
                           in_flight |-> TRUE, num |-> 1]),
    Call("send complete", 2, TRUE, [result |-> TRUE, slot_in_flight |-> FALSE,
                                    reset_pending |-> FALSE, in_flight |-> FALSE, num |-> 0]),
    Call("shutdown", 2, 0, [result |-> TRUE, in_use |-> FALSE, streams_closed |-> 2]) >>

(* No free slot, then a stream whose id cannot be read.                    *)
ConnectionRefused == <<
    Call("connection shutdown", 0, 0, [result |-> TRUE, connections_closed |-> 1]),
    Call("set in_use", 0, TRUE, [result |-> TRUE]),
    Call("stream started", 2, TRUE, [result |-> FALSE, streams_closed |-> 3]),
    Call("set in_use", 0, FALSE, [result |-> TRUE]),
    Call("stream started", 2, FALSE, [result |-> FALSE, streams_closed |-> 4]) >>

(* smoke_protocol_errors: cut short, a message id other than zero, a byte  *)
(* too many, a byte after the message.  The ingress buffer holds them all. *)
Violates(data, n) == Data("receive", 1, data, TRUE, [result |-> FALSE, shutdowns |-> n])

ProtocolErrors == <<
    <<Violates(SubSeq(Query, 1, 3), 1)>>,
    <<Violates([Query EXCEPT ![3] = 1], 1)>>,
    <<Violates(Query \o <<0>>, 1)>>,
    <<Data("receive", 1, Query, FALSE, [result |-> TRUE, shutdowns |-> 0]),
      Violates(<<0>>, 1)>> >>

----------------------------------------------------------------------------
Smokes ==
    <<ScaffoldTable, ScaffoldError, ScaffoldEmpty, ScaffoldValidated, ScaffoldInvalid,
     AdapterSend, AdapterFormErr, AdapterReset, AdapterFailedSend,
     QueueOrder, QueueDispatch, RuntimeSend, RuntimeReset, RuntimeUndersized,
     Script(NULL, StreamId, ConnectionServed \o ConnectionAborted \o ConnectionRefused)>>
    \o [i \in 1 .. 4 |-> Script(1, {}, ProtocolErrors[i])]

Init ==
    /\ smoke \in DOMAIN Smokes
    /\ at = 1
    /\ done = 0
    /\ m = Fresh(Smokes[smoke].bound)
    /\ seen = Observed(m, TRUE)

Running == at <= Len(Smokes[smoke].calls)
Now == Smokes[smoke].calls[at]

(* The call is over.                                                       *)
Over(r) ==
    /\ m' = r.m
    /\ seen' = Observed(r.m, r.result)
    /\ at' = at + 1
    /\ done' = 0
    /\ UNCHANGED smoke

MakeCall ==
    /\ Running
    /\ Now.op \notin DataOps
    /\ Over(Called(Now, m, Smokes[smoke].up))

(* A failure ends the call, whatever bytes are left.                       *)
OverOrMore(r, n) ==
    IF (Now.op = "receive" /\ ~r.result) \/ done + n = Len(Now.data) THEN Over(r)
    ELSE /\ m' = r.m
         /\ done' = done + n
         /\ UNCHANGED <<smoke, at, seen>>

Deliver ==
    /\ Running
    /\ Now.op \in DataOps
    /\ \E n \in 1 .. Len(Now.data) - done :
          OverOrMore(Received(Now, m, SubSeq(Now.data, done + 1, done + n),
                              done + n = Len(Now.data), Smokes[smoke].up), n)

Passed == ~Running /\ UNCHANGED vars

Next == MakeCall \/ Deliver \/ Passed

Spec == Init /\ [][Next]_vars

----------------------------------------------------------------------------
(* After each of its calls, what a smoke program asserts of the call's     *)
(* result, the table, the send slot and buffer, the queue, the slot and    *)
(* the handles closed (the fields of Observed) holds, in whichever pieces  *)
(* the bytes before it arrived.                                            *)
AsTested ==
    at > 1 /\ done = 0 =>
        \A f \in DOMAIN Smokes[smoke].calls[at - 1].expect :
            seen[f] = Smokes[smoke].calls[at - 1].expect[f]
=============================================================================
