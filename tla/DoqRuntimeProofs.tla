-------------------------- MODULE DoqRuntimeProofs --------------------------
(***************************************************************************)
(* The inductive invariant of the server, stated on a shell value m and a  *)
(* peer value p so that it can be carried through the steps inside one     *)
(* callback, and what the runtime's handlers do to it: the table, the      *)
(* responder, serving a ready stream, bytes, FIN, completions, resets, and *)
(* a whole RECEIVE event.  Nothing here bounds the table, the number of    *)
(* stream slots, the buffers, the streams or what the peer sends on them.  *)
(***************************************************************************)
EXTENDS ServerLemmas

ShellState ==
    [table : TableOf(ServerShape), adapter : Adapter, sendbuf : Frames,
     queue : {<<>>}, slots : [ConnSlot -> ConnSlotState], sends : [StreamId -> Send]]

ShellOK(m) == m \in ShellState /\ Good(m.table)

----------------------------------------------------------------------------
(* One stream: q is what MsQuic and the peer know of it, slot its stream   *)
(* slot, send its response; has says that the table holds it, in ctx.      *)

(* The stream's slot is its own and forgets nothing MsQuic still owes.     *)
BoundOK(id, slot, send, q) ==
    Bound(q) => /\ q.slot \in ConnSlot
                /\ slot.in_use /\ slot.stream_id = id
                /\ slot.send_in_flight => send.state = "pending"
                /\ slot.received_fin => q.eof \/ q.fin

(* A table entry is never orphaned, and is ready only after FIN.           *)
EntryOK(has, ctx, slot, q) ==
    has => Bound(q) /\ (ctx.phase.tag = "Processing" => slot.received_fin)

(* While MsQuic owns the response, everything that names it agrees (a is   *)
(* the adapter's record, buf the send buffer).                             *)
PendingOK(id, has, ctx, slot, send, a, buf, q) ==
    send.state = "pending" =>
        /\ q.life = "live"
        /\ has /\ ctx.phase.tag = "Processing"
        /\ a = [send_in_flight |-> TRUE, send_stream_id |-> id, send_len |-> send.frame.len]
        /\ buf = send.frame
        /\ slot.send_in_flight /\ slot.response_len = send.frame.len
        /\ send.frame.len \in 1 .. SendCapacity

(* A response answers the query of its own stream, and a completed one has *)
(* closed its table entry.                                                 *)
SentOK(has, slot, send, q) ==
    send.state # "none" =>
        /\ q.life # "idle"
        /\ WholeQuery(q.wire) /\ send.frame = ExpectedFrame(q.wire)
        /\ Bound(q) => slot.received_fin
        /\ send.state = "done" => ~has

(* As long as no protocol error was reported, the entry stands where the   *)
(* bytes the peer sent put it.                                             *)
FramedOK(has, ctx, slot, q) ==
    q.life = "live" /\ ~q.stopped =>
        /\ has /\ slot.received_fin =>
              /\ WholeQuery(q.wire) /\ ctx.phase = Processing(Expected(q.wire))
              /\ BodyHeld(q.wire, ctx.buf, Len(q.wire))
        /\ has /\ ~slot.received_fin =>
              /\ ctx.phase = WholeStreamPhase(q.wire, q.pos)
              /\ BodyHeld(q.wire, ctx.buf, q.pos)
        /\ ~has /\ ~slot.received_fin => q.reset \/ q.pos = 0

StreamOK(m, q, id) ==
    LET has  == id \in ActiveIds(m.table)
        ctx  == Ctx(m.table, id)
        slot == m.slots[q.slot]
    IN  /\ BoundOK(id, slot, m.sends[id], q)
        /\ EntryOK(has, ctx, slot, q)
        /\ PendingOK(id, has, ctx, slot, m.sends[id], m.adapter, m.sendbuf, q)
        /\ SentOK(has, slot, m.sends[id], q)

StreamFramed(m, q, id) ==
    FramedOK(id \in ActiveIds(m.table), Ctx(m.table, id), m.slots[q.slot], q)

----------------------------------------------------------------------------
(* The whole.                                                              *)

(* A slot in use belongs to the stream that holds it.                      *)
OwnersOK(m, p) ==
    \A c \in ConnSlot : m.slots[c].in_use =>
        Bound(p[m.slots[c].stream_id]) /\ p[m.slots[c].stream_id].slot = c

(* The send slot is taken only for a response MsQuic owns.                 *)
AdapterOK(m) ==
    IF m.adapter.send_in_flight THEN m.sends[m.adapter.send_stream_id].state = "pending"
    ELSE m.adapter = Idle

Inv(m, p) ==
    /\ ShellOK(m) /\ PeerOK(p)
    /\ OwnersOK(m, p) /\ AdapterOK(m)
    /\ \A id \in StreamId : StreamOK(m, p[id], id)

AllFramed(m, p) == \A id \in StreamId : StreamFramed(m, p[id], id)

ConnOK ==
    /\ conn \in {"open", "shutting", "closed"} /\ connections \in 0 .. MaxConnections
    /\ fault \in BOOLEAN
    /\ fault => conn # "open"
    /\ \A id \in StreamId : Live(id) => conn # "closed"
    /\ conn # "closed" => connections # 0
    /\ connections = 0 => \A id \in StreamId : peer[id].life = "idle"
    /\ \A id \in StreamId : peer[id].life = "idle" => peer[id] = Unstarted
    /\ StreamId = {0} => HandleClosedAfterShutdown

ServerInv == Inv(Shell, peer) /\ (~fault => AllFramed(Shell, peer)) /\ ConnOK

----------------------------------------------------------------------------
(* The bytes of a RECEIVE.                                                 *)

(* The next n bytes of a wire.                                             *)
LEMMA NextBytes ==
    ASSUME NEW w \in Seq(Byte), NEW p \in 0 .. Len(w), NEW n \in 0 .. Len(w) - p
    PROVE  /\ SubSeq(w, p + 1, p + n) \in Seq(Byte)
           /\ Len(SubSeq(w, p + 1, p + n)) = n
           /\ \A k \in 1 .. n : SubSeq(w, p + 1, p + n)[k] = w[p + k]
<1>1. Len(w) \in Nat /\ p \in Nat /\ n \in Nat /\ p + n <= Len(w)
  OBVIOUS
<1>2. Len(SubSeq(w, p + 1, p + n)) = n
  BY <1>1
<1>3. \A k \in 1 .. n : SubSeq(w, p + 1, p + n)[k] = w[p + k]
  BY <1>1
<1>4. SubSeq(w, p + 1, p + n) \in Seq(Byte)
  <2>1. \A i \in p + 1 .. p + n : w[i] \in Byte
    BY <1>1
  <2> QED
    BY <1>1, <2>1
<1> QED
  BY <1>2, <1>3, <1>4, Zenon

----------------------------------------------------------------------------
(* The responder.                                                          *)
(* A stream that holds a whole query is answered with what it asks for.    *)
LEMMA ReadyFrameAnswers ==
    ASSUME NEW m, Good(m.table), NEW id \in StreamId, ReadyFrame(m, id).len # 0,
           NEW w \in Seq(Byte), WholeQuery(w),
           Ctx(m.table, id).phase = Processing(Expected(w)),
           BodyHeld(w, Ctx(m.table, id).buf, Len(w))
    PROVE  ReadyFrame(m, id) = ExpectedFrame(w)
<1> DEFINE ctx == Ctx(m.table, id)
           q == Request(ctx)
           e == SubSeq(w, 3, Len(w))
<1>1. ctx \in Context
  BY ReadyFrameType, TableFind, Zenon
<1>2. ctx.phase.expected = Expected(w) /\ Len(w) \in Nat /\ Len(w) = Expected(w) + 2
      /\ Expected(w) \in Nat /\ Expected(w) >= MinMessage
  BY ExpectedType, MessageSizes DEF Processing, PhaseRecord, WholeQuery
<1>3. q \in Seq(Byte) /\ Len(q) = Len(w) - 2
  BY <1>1, <1>2, RequestType
<1>4. \A i \in 1 .. Len(q) : q[i] = w[i + 2]
  <2>1. \A i \in 0 .. Len(w) - 3 : ctx.buf[i] = w[i + 3]
    BY <1>2 DEF BodyHeld, Accepted
  <2>2. \A i \in 1 .. Len(q) : q[i] = ctx.buf[i - 1]
    BY <1>2, <1>3 DEF Request
  <2> HIDE DEF ctx, q
  <2>3. ASSUME NEW i \in 1 .. Len(q) PROVE q[i] = w[i + 2]
    <3>1. i - 1 \in 0 .. Len(w) - 3 /\ (i - 1) + 3 = i + 2
      BY <1>2, <1>3
    <3> QED
      BY <2>1, <2>2, <3>1, Zenon
  <2> QED
    BY <2>3, Zenon
<1>5. e \in Seq(Byte) /\ Len(e) = Len(w) - 2 /\ \A i \in 1 .. Len(e) : e[i] = w[i + 2]
  <2>1. 2 \in 0 .. Len(w) /\ Len(w) - 2 \in 0 .. Len(w) - 2 /\ 2 + (Len(w) - 2) = Len(w)
    BY <1>2
  <2>2. /\ SubSeq(w, 2 + 1, 2 + (Len(w) - 2)) \in Seq(Byte)
        /\ Len(SubSeq(w, 2 + 1, 2 + (Len(w) - 2))) = Len(w) - 2
        /\ \A k \in 1 .. Len(w) - 2 : SubSeq(w, 2 + 1, 2 + (Len(w) - 2))[k] = w[2 + k]
    BY <2>1, NextBytes, Zenon
  <2> QED
    BY <1>2, <2>1, <2>2
<1> HIDE DEF ctx, q, e
<1>6. q = e
  BY <1>3, <1>4, <1>5, SameSequence, Zenon
<1> QED
  BY <1>6, ReadyFrameType, Zenon DEF ExpectedFrame, ctx, q, e

----------------------------------------------------------------------------
(* What a handler leaves of the shell.                                     *)

(* n is a shell state that differs from m only in stream id and its slot.  *)
Touches(m, n, id, c) ==
    /\ ShellOK(n)
    /\ \A j \in StreamId \ {id} :
          /\ j \in ActiveIds(n.table) <=> j \in ActiveIds(m.table)
          /\ j \in ActiveIds(m.table) => Ctx(n.table, j) = Ctx(m.table, j)
          /\ n.sends[j] = m.sends[j]
    /\ \A d \in ConnSlot \ {c} : n.slots[d] = m.slots[d]

(* An event staged by a callback is the one it dispatches.                 *)
LEMMA Direct ==
    ASSUME NEW m \in ShellState, NEW e, NEW up
    PROVE  EnqueueAndDispatch(m, e, up) = dispatch_event(m, e, up)
<1> DEFINE s == [m EXCEPT !.queue = Append(@, e)]
<1>1. m.queue = <<>> /\ Len(m.queue) < QueueCapacity
  BY RuntimeConstants DEF ShellState
<1>2. enqueue(m, e) = [m |-> s, ok |-> TRUE]
  BY <1>1, RuntimeConstants DEF enqueue
<1>3. s.queue = <<e>>
  BY <1>1 DEF ShellState
<1>4. [s EXCEPT !.queue = Tail(@)] = m
  <2>1. Tail(s.queue) = <<>>
    BY <1>3
  <2>2. [s EXCEPT !.queue = <<>>] = [m EXCEPT !.queue = <<>>]
    BY Zenon
  <2>3. [m EXCEPT !.queue = <<>>] = m
    BY <1>1, Zenon DEF ShellState
  <2> QED
    BY <2>1, <2>2, <2>3, Zenon
<1>5. dispatch_one(s, up) = dispatch_event(m, e, up)
  BY <1>3, <1>4 DEF dispatch_one
<1> HIDE DEF s
<1> QED
  BY <1>2, <1>5 DEF EnqueueAndDispatch

----------------------------------------------------------------------------
(* Serving a ready stream.                                                 *)

(* MsQuic took the frame.                                                  *)
Sent(m, n, id, c, frame) ==
    /\ n \in ShellState /\ n.table = m.table
    /\ n.adapter = [send_in_flight |-> TRUE, send_stream_id |-> id, send_len |-> frame.len]
    /\ n.sendbuf = frame
    /\ n.slots = [m.slots EXCEPT ![c] = Busy(@, frame.len)]
    /\ n.sends = [m.sends EXCEPT ![id] = [state |-> "pending", frame |-> frame]]

(* MsQuic refused it: the response is dropped and the stream closed.       *)
Dropped(m, n, id, c, frame) ==
    /\ n \in ShellState
    /\ n.table = dispatch_response_send_finished(m.table, id, ReadingLength)
    /\ n.adapter = Idle
    /\ n.sendbuf = frame
    /\ n.slots = [m.slots EXCEPT ![c] = Cleared(@)]
    /\ n.sends = m.sends

LEMMA Serve ==
    ASSUME NEW m, ShellOK(m), NEW id \in StreamId, NEW c \in ConnSlot, SlotOf(m, id) = {c},
           m.adapter = Idle, ~m.slots[c].send_in_flight, NEW up,
           NEW n, n = prepare_ready_response(m, id, up).m
    PROVE  \/ n = m
           \/ /\ ReadyFrame(m, id).len # 0
              /\ \/ id \in up /\ Sent(m, n, id, c, ReadyFrame(m, id))
                 \/ Dropped(m, n, id, c, ReadyFrame(m, id))
<1> DEFINE fr == ReadyFrame(m, id)
           s == Started(m, id, fr)
           r == runtime_send(s, id, fr, up)
<1>1. prepare_ready_response(m, id, up) =
          IF fr.len = 0 THEN NotSent(m) ELSE SendOutcome(id, r)
  BY IdleType, Zenon DEF prepare_ready_response, StartSend
<1>2. CASE fr.len = 0
  BY <1>1, <1>2 DEF NotSent
<1>3. CASE fr.len # 0
  <2>1. fr \in Frames /\ fr.len \in 0 .. MaxMessage + 2
    <3>1. fr \in Frames
      BY ReadyFrameType, Zenon DEF ShellOK
    <3> QED
      BY <3>1, MessageSizes DEF Frames, NoFrame, Frame
  <2>2. m \in ShellState /\ m.slots[c] \in ConnSlotState /\ m.slots \in [ConnSlot -> ConnSlotState]
        /\ m.sends \in [StreamId -> Send]
    BY Zenon DEF ShellOK, ShellState
  <2> HIDE DEF fr
  <2>3. /\ s \in ShellState /\ s.table = m.table /\ s.slots = m.slots /\ s.sends = m.sends
        /\ s.adapter = [send_in_flight |-> TRUE, send_stream_id |-> id, send_len |-> fr.len]
        /\ s.sendbuf = fr
    BY <2>1, <2>2, Zenon DEF Started, ShellState, Adapter
  <2> HIDE DEF s
  <2>4. SlotOf(s, id) = {c} /\ c = CHOOSE k \in SlotOf(s, id) : \A j \in SlotOf(s, id) : k <= j
    <3>1. SlotOf(s, id) = {c}
      BY <2>3, Zenon DEF SlotOf
    <3>2. c \in Int
      BY DEF ConnSlot
    <3> QED
      BY <3>1, <3>2
  <2>5. n = SendOutcome(id, r).m
    BY <1>1, <1>3, Zenon
  <2>6. CASE id \in up
    <3> DEFINE t == [s EXCEPT !.slots[c]  = Busy(@, fr.len),
                              !.sends[id] = [state |-> "pending", frame |-> fr]]
    <3>1. r = [m |-> t, sent |-> TRUE]
      BY <1>3, <2>3, <2>4, <2>6, Zenon DEF runtime_send
    <3>2. n = t
      BY <2>5, <3>1 DEF SendOutcome
    <3>3. /\ t.table = m.table /\ t.adapter = s.adapter /\ t.sendbuf = fr /\ t.queue = <<>>
          /\ t.slots = [m.slots EXCEPT ![c] = Busy(@, fr.len)]
          /\ t.sends = [m.sends EXCEPT ![id] = [state |-> "pending", frame |-> fr]]
      BY <2>2, <2>3, Zenon DEF ShellState
    <3>4. t \in ShellState
      <4>1. [m.slots EXCEPT ![c] = Busy(@, fr.len)] \in
                [ConnSlot -> ConnSlotState]
        <5>1. Busy(m.slots[c], fr.len) \in ConnSlotState
          BY <2>1, <2>2, SlotStates, Zenon
        <5> QED
          BY <2>2, <5>1, Zenon
      <4>2. [m.sends EXCEPT ![id] = [state |-> "pending", frame |-> fr]] \in [StreamId -> Send]
        <5>1. [state |-> "pending", frame |-> fr] \in Send
          BY <2>1, Zenon DEF Send
        <5> QED
          BY <2>2, <5>1, Zenon
      <4> QED
        BY <2>3, <3>3, <4>1, <4>2, Zenon DEF ShellState
    <3> HIDE DEF t
    <3> QED
      BY <1>3, <2>3, <2>6, <3>2, <3>3, <3>4, Zenon DEF Sent, fr
  <2>7. CASE id \notin up
    <3> DEFINE t == [s EXCEPT !.slots[c] = Cleared(@)]
    <3>1. r = [m |-> t, sent |-> FALSE]
      BY <1>3, <2>3, <2>4, <2>7, Zenon DEF runtime_send
    <3>2. n = Finished(t, id)
      BY <2>5, <3>1 DEF SendOutcome
    <3>3. /\ t.table = m.table /\ t.sendbuf = fr /\ t.queue = <<>>
          /\ t.slots = [m.slots EXCEPT ![c] = Cleared(@)]
          /\ t.sends = m.sends
      BY <2>2, <2>3, Zenon DEF ShellState
    <3>4. t \in ShellState
      <4>1. [m.slots EXCEPT ![c] = Cleared(@)] \in
                [ConnSlot -> ConnSlotState]
        <5>1. Cleared(m.slots[c]) \in ConnSlotState
          BY <2>2, SlotStates, NoLength, Zenon
        <5> QED
          BY <2>2, <5>1, Zenon
      <4> QED
        BY <2>3, <3>3, <4>1, Zenon DEF ShellState
    <3> HIDE DEF t
    <3>5. dispatch_response_send_finished(m.table, id, ReadingLength) \in TableOf(ServerShape)
      BY TableClose, Zenon DEF ShellOK, Closings, Good, GoodTable
    <3>6. /\ n \in ShellState
          /\ n.table = dispatch_response_send_finished(m.table, id, ReadingLength)
          /\ n.adapter = Idle /\ n.sendbuf = t.sendbuf /\ n.slots = t.slots /\ n.sends = t.sends
      BY <3>2, <3>3, <3>4, <3>5, IdleType, Zenon DEF Finished, ShellState
    <3> QED
      BY <1>3, <3>3, <3>6, Zenon DEF Dropped, fr
  <2> QED
    BY <2>6, <2>7, Zenon
<1> QED
  BY <1>2, <1>3, Zenon

LEMMA SentTouches ==
    ASSUME NEW m, ShellOK(m), NEW id \in StreamId, NEW c \in ConnSlot, NEW frame, NEW n,
           Sent(m, n, id, c, frame)
    PROVE  /\ Touches(m, n, id, c)
           /\ n.slots[c] = Busy(m.slots[c], frame.len)
           /\ n.sends[id].state = "pending" /\ n.sends[id].frame = frame
<1>1. m.slots \in [ConnSlot -> ConnSlotState] /\ m.sends \in [StreamId -> Send]
  BY Zenon DEF ShellOK, ShellState
<1> QED
  BY <1>1 DEF Sent, Touches, ShellOK

LEMMA DroppedTouches ==
    ASSUME NEW m, ShellOK(m), NEW id \in StreamId, NEW c \in ConnSlot, NEW frame, NEW n,
           Dropped(m, n, id, c, frame)
    PROVE  /\ Touches(m, n, id, c)
           /\ n.slots[c] = Cleared(m.slots[c])
           /\ ActiveIds(n.table) = ActiveIds(m.table) \ {id}
<1>1. m.slots \in [ConnSlot -> ConnSlotState] /\ n \in ShellState
  BY Zenon DEF ShellOK, ShellState, Dropped
<1>2. /\ Good(n.table) /\ ActiveIds(n.table) = ActiveIds(m.table) \ {id}
      /\ \A j \in ActiveIds(n.table) : Ctx(n.table, j) = Ctx(m.table, j)
  BY TableClose DEF ShellOK, Dropped, Closings
<1> QED
  BY <1>1, <1>2, Zenon DEF Dropped, Touches, ShellOK

----------------------------------------------------------------------------
(* Bytes and FIN.                                                          *)

(* n is m with stream id open and its context ctx.                         *)
Wrote(m, n, id, ctx) ==
    /\ ShellOK(n)
    /\ ActiveIds(n.table) = ActiveIds(m.table) \cup {id}
    /\ Ctx(n.table, id) = ctx
    /\ \A j \in ActiveIds(m.table) \ {id} : Ctx(n.table, j) = Ctx(m.table, j)
    /\ n.adapter = m.adapter /\ n.sendbuf = m.sendbuf
    /\ n.slots = m.slots /\ n.sends = m.sends

(* The context a handler is called with.                                   *)
Opened(m, id, ctx) ==
    /\ ctx \in Context /\ ctx.id = id
    /\ id \in ActiveIds(m.table) => ctx = Ctx(m.table, id)
    /\ id \notin ActiveIds(m.table) => ctx.phase = ReadingLength

LEMMA WroteTouches ==
    ASSUME NEW m, NEW n, NEW id, NEW c, NEW ctx, Wrote(m, n, id, ctx)
    PROVE  Touches(m, n, id, c)
  BY Zenon DEF Wrote, Touches

LEMMA StoreEffect ==
    ASSUME NEW m, ShellOK(m), NEW id \in StreamId,
           NEW o, o = open_stream(m.table, id, ReadingLength), o.slot # NULL,
           NEW ctx \in Context, ctx.id = id
    PROVE  Wrote(m, Stored(m, o, ctx).m, id, ctx)
<1> DEFINE n == Stored(m, o, ctx).m
<1>1. n = [m EXCEPT !.table = Put(o, ctx)]
  BY Zenon DEF Stored, Put
<1>2. /\ Good(Put(o, ctx))
      /\ ActiveIds(Put(o, ctx)) = ActiveIds(m.table) \cup {id}
      /\ Ctx(Put(o, ctx), id) = ctx
      /\ \A j \in ActiveIds(m.table) \ {id} : Ctx(Put(o, ctx), j) = Ctx(m.table, j)
  BY TableOpen DEF ShellOK
<1> HIDE DEF n
<1>3. /\ n \in ShellState /\ n.table = Put(o, ctx)
      /\ n.adapter = m.adapter /\ n.sendbuf = m.sendbuf
      /\ n.slots = m.slots /\ n.sends = m.sends
  BY <1>1, <1>2, Zenon DEF ShellOK, ShellState, Good, GoodTable
<1> QED
  BY <1>2, <1>3, Zenon DEF Wrote, ShellOK, n

(* A full table leaves the shell as it was.                                *)
LEMMA FullEffect ==
    ASSUME NEW m, ShellOK(m), NEW o, o.table = m.table
    PROVE  TableFull(m, o).m = m /\ TableFull(m, o).code = 3
<1>1. [m EXCEPT !.table = m.table] = m
  BY Zenon DEF ShellOK, ShellState
<1> QED
  BY <1>1, Zenon DEF TableFull

(* There is no table entry for the stream.                                 *)
NoRoom(t, id) == id \notin ActiveIds(t) /\ t.num = Capacity

(* Reasons to refuse a buffer without a look at its bytes.                 *)
Denied(m, c, id, data) ==
    \/ Len(data) > IngressCapacity
    \/ m.slots[c].received_fin
    \/ NoRoom(m.table, id)

(* The shell left the buffer aside, or handed it to the stream's handler.  *)
Skipped(m, r, c, id, data) ==
    /\ r.m = m
    /\ data # <<>> => ~r.ok
    /\ r.ok \/ Denied(m, c, id, data)

Handled(m, r, id, ctx, data) ==
    /\ Opened(m, id, ctx)
    /\ Wrote(m, r.m, id, handle_stream_data(ctx, data))
    /\ handle_stream_data(ctx, data).phase.tag # "Done" => r.ok

(* One buffer of a RECEIVE on a stream that is not ready: refused, or      *)
(* handed to the stream's handler.  No response is prepared.               *)
LEMMA DataEffect ==
    ASSUME NEW m, ShellOK(m), NEW c \in ConnSlot, NEW id \in StreamId, m.slots[c].stream_id = id,
           id \in ActiveIds(m.table) => Ctx(m.table, id).phase.tag # "Processing",
           NEW data \in Seq(Byte), NEW up,
           NEW r, r = copy_enqueue_and_dispatch(m, c, data, up)
    PROVE  Skipped(m, r, c, id, data) \/ \E ctx : Handled(m, r, id, ctx, data)
<1> DEFINE e == Event("BYTES", id, data, Len(data), FALSE)
           o == open_stream(m.table, id, ReadingLength)
           ctx == o.table.ctx[o.slot]
           h == handle_stream_data(ctx, data)
<1>1. CASE data = <<>> \/ Len(data) > IngressCapacity \/ m.slots[c].received_fin
  <2>1. r.m = m /\ (data # <<>> => ~r.ok) /\ (data = <<>> => r.ok)
    BY <1>1, Zenon DEF copy_enqueue_and_dispatch
  <2> QED
    BY <1>1, <2>1, Zenon DEF Denied, Skipped
<1>2. CASE data # <<>> /\ ~(Len(data) > IngressCapacity) /\ ~m.slots[c].received_fin
  <2>1. m \in ShellState /\ m.queue = <<>>
    BY Zenon DEF ShellOK, ShellState
  <2>2. r = dispatch_event(m, e, up)
    BY <1>2, <2>1, Direct, Zenon DEF copy_enqueue_and_dispatch
  <2>3. r = BytesDispatched(DataTo(m, o, data), id, up)
    BY <2>2, Zenon DEF dispatch_event, Event, dispatch_authenticated_stream_data
  <2>4. CASE o.slot = NULL
    <3>1. o.table = m.table /\ NoRoom(m.table, id)
      BY <2>4, TableOpen, Zenon DEF ShellOK, NoRoom
    <3>2. DataTo(m, o, data) = TableFull(m, o)
      BY <2>4, Zenon DEF DataTo
    <3> HIDE DEF o
    <3>3. TableFull(m, o).m = m /\ TableFull(m, o).code = 3
      BY <3>1, FullEffect, Zenon
    <3>4. TableFull(m, o).code # 2
      BY <3>3
    <3>5. r = [m |-> TableFull(m, o).m, ok |-> TableFull(m, o).code # 3]
      BY <2>3, <3>2, <3>4, Zenon DEF BytesDispatched
    <3>6. r.m = m /\ ~r.ok
      <4>1. (TableFull(m, o).code # 3) = FALSE
        BY <3>3, Zenon
      <4>2. r = [m |-> m, ok |-> FALSE]
        BY <3>3, <3>5, <4>1, Zenon
      <4> QED
        BY <4>2
    <3> QED
      BY <3>1, <3>6, Zenon DEF Denied, Skipped
  <2>5. CASE o.slot # NULL
    <3>1. Opened(m, id, ctx)
      BY <2>5, TableOpen, SMTT(20) DEF Opened, ShellOK
    <3>2. DataTo(m, o, data) = Stored(m, o, h)
      BY <2>5, Zenon DEF DataTo
    <3> HIDE DEF o, ctx
    <3>3. h \in Context /\ h.id = id /\ h.phase.tag # "Processing"
      BY <3>1, DataHandler, ServerShapeOK DEF Opened, Context
    <3> HIDE DEF h
    <3>4. Stored(m, o, h).code # 2
      BY <3>3, PhaseCodes, Zenon DEF Stored
    <3>5. r = [m |-> Stored(m, o, h).m, ok |-> Stored(m, o, h).code # 3]
      BY <2>3, <3>2, <3>4, Zenon DEF BytesDispatched
    <3>7. r.m = Stored(m, o, h).m
      BY <3>5
    <3>8. h.phase.tag # "Done" => r.ok
      <4>1. h.phase.tag # "Done" => (Stored(m, o, h).code # 3) = TRUE
        BY <3>3, PhaseCodes, Zenon DEF Stored
      <4>2. ASSUME h.phase.tag # "Done" PROVE r = [m |-> Stored(m, o, h).m, ok |-> TRUE]
        BY <3>5, <4>1, <4>2, Zenon
      <4> QED
        BY <4>2
    <3>6. Wrote(m, r.m, id, h)
      BY <2>5, <3>3, <3>7, StoreEffect, Zenon DEF o
    <3> QED
      BY <3>1, <3>6, <3>8, Zenon DEF h, Handled
  <2> QED
    BY <2>4, <2>5, Zenon
<1> QED
  BY <1>1, <1>2, Zenon

(* n is what serving stream id makes of m.                                 *)
Served(m, n, id, c, up) ==
    \/ n = m
    \/ /\ m.adapter = Idle
       /\ ReadyFrame(m, id).len # 0
       /\ \/ id \in up /\ Sent(m, n, id, c, ReadyFrame(m, id))
          \/ Dropped(m, n, id, c, ReadyFrame(m, id))

FinnedAt(m, c) == [m EXCEPT !.slots = [m.slots EXCEPT ![c] = Finned(@)]]

(* What n, m with the FIN recorded in slot c, keeps of m.                  *)
FinnedFrom(m, n, c) ==
    /\ ShellOK(n) /\ n.table = m.table /\ n.adapter = m.adapter
    /\ n.sendbuf = m.sendbuf /\ n.sends = m.sends
    /\ n.slots[c] = Finned(m.slots[c])
    /\ \A d \in ConnSlot \ {c} : n.slots[d] = m.slots[d]

LEMMA FinnedState ==
    ASSUME NEW m, ShellOK(m), NEW c \in ConnSlot, NEW n, n = FinnedAt(m, c)
    PROVE  FinnedFrom(m, n, c)
<1> USE DEF FinnedFrom
<1>1. m \in ShellState /\ m.slots \in [ConnSlot -> ConnSlotState] /\ m.slots[c] \in ConnSlotState
  BY Zenon DEF ShellOK, ShellState
<1>2. Finned(m.slots[c]) \in ConnSlotState
  BY <1>1, Zenon DEF Finned, ConnSlotState
<1>3. [m.slots EXCEPT ![c] = Finned(@)] \in [ConnSlot -> ConnSlotState]
  BY <1>1, <1>2, Zenon
<1>4. /\ n \in ShellState /\ n.table = m.table /\ n.adapter = m.adapter
      /\ n.sendbuf = m.sendbuf /\ n.sends = m.sends
      /\ n.slots = [m.slots EXCEPT ![c] = Finned(@)]
  BY <1>1, <1>3, Zenon DEF FinnedAt, ShellState
<1> QED
  BY <1>1, <1>4, Zenon DEF ShellOK

(* The outcome of a FIN is recorded in the slot.                           *)
LEMMA RecordFin ==
    ASSUME NEW m, ShellOK(m), NEW c \in ConnSlot, ~m.slots[c].received_fin
    PROVE  /\ FinRecorded([m |-> m, ok |-> TRUE], c) = [m |-> FinnedAt(m, c), ok |-> TRUE]
           /\ FinRecorded([m |-> m, ok |-> FALSE], c) = [m |-> m, ok |-> FALSE]
<1>1. m \in ShellState /\ m.slots \in [ConnSlot -> ConnSlotState] /\ m.slots[c] \in ConnSlotState
  BY Zenon DEF ShellOK, ShellState
<1>2. ASSUME NEW b
      PROVE  FinRecorded([m |-> m, ok |-> b], c) =
                 [m |-> [m EXCEPT !.slots[c].received_fin = b], ok |-> b]
  <2> DEFINE r == [m |-> m, ok |-> b]
             n == [m EXCEPT !.slots[c].received_fin = b]
  <2>1. r.m = m /\ r.ok = b
    OBVIOUS
  <2>2. FinRecorded(r, c) = [r EXCEPT !.m = n]
    BY <2>1, Zenon DEF FinRecorded
  <2> HIDE DEF n
  <2>3. [r EXCEPT !.m = n] = [m |-> n, ok |-> b]
    OBVIOUS
  <2> QED
    BY <2>2, <2>3, Zenon DEF n
<1>3. [m EXCEPT !.slots[c].received_fin = TRUE] = FinnedAt(m, c)
  BY Zenon DEF FinnedAt, Finned
<1>4. [m EXCEPT !.slots[c].received_fin = FALSE] = m
  <2>1. m.slots[c].received_fin = FALSE
    BY <1>1, Zenon DEF ConnSlotState
  <2>2. [m.slots[c] EXCEPT !.received_fin = FALSE] = m.slots[c]
    BY <1>1, <2>1, Zenon DEF ConnSlotState
  <2>3. [m.slots EXCEPT ![c] = m.slots[c]] = m.slots
    BY <1>1, Zenon
  <2>4. [m EXCEPT !.slots = m.slots] = m
    BY <1>1, Zenon DEF ShellState
  <2> QED
    BY <2>2, <2>3, <2>4, Zenon
<1> QED
  BY <1>2, <1>3, <1>4, Zenon

(* The first report of a FIN: refused; or the stream is Done; or it is     *)
(* ready and, when the send slot is free, served at once.                  *)
FinOutcome(m, r, id, c, up) ==
    \/ r.m = m /\ ~r.ok /\ NoRoom(m.table, id)
    \/ \E ctx, w : /\ Opened(m, id, ctx)
                   /\ Wrote(m, w, id, handle_stream_fin(ctx))
                   /\ \/ ~r.ok /\ r.m = w /\ handle_stream_fin(ctx).phase.tag = "Done"
                      \/ /\ r.ok /\ handle_stream_fin(ctx).phase.tag = "Processing"
                         /\ \E s : Served(w, s, id, c, up) /\ r.m = FinnedAt(s, c)

LEMMA FinEffect ==
    ASSUME NEW m, ShellOK(m), NEW c \in ConnSlot, NEW id \in StreamId, SlotOf(m, id) = {c},
           ~m.slots[c].received_fin,
           m.adapter.send_in_flight \/ (m.adapter = Idle /\ ~m.slots[c].send_in_flight),
           NEW up, NEW r, r = on_fin(m, c, up)
    PROVE  FinOutcome(m, r, id, c, up)
<1> USE DEF FinOutcome
<1> DEFINE e == Event("FIN", id, <<>>, 0, FALSE)
           o == open_stream(m.table, id, ReadingLength)
           ctx == o.table.ctx[o.slot]
           h == handle_stream_fin(ctx)
           w == Stored(m, o, h).m
<1>1. m \in ShellState /\ m.queue = <<>> /\ m.slots[c].stream_id = id
  BY Zenon DEF ShellOK, ShellState, SlotOf
<1>2. r = FinRecorded(ServedIfReady(FinTo(m, o), id, up), c)
  <2>1. r = FinRecorded(dispatch_event(m, e, up), c)
    BY <1>1, Direct, Zenon DEF on_fin, DispatchFin
  <2> QED
    BY <2>1, Zenon DEF dispatch_event, Event, on_authenticated_stream_fin
<1>3. CASE o.slot = NULL
  <2>1. o.table = m.table /\ NoRoom(m.table, id)
    BY <1>3, TableOpen DEF ShellOK, NoRoom
  <2>2. FinTo(m, o) = TableFull(m, o)
    BY <1>3, Zenon DEF FinTo
  <2> HIDE DEF o
  <2>3. TableFull(m, o).m = m /\ TableFull(m, o).code # 2
    BY <2>1, FullEffect
  <2>4. ServedIfReady(FinTo(m, o), id, up) = [m |-> m, ok |-> FALSE]
    <3>1. (FinTo(m, o).code = 2) = FALSE
      BY <2>2, <2>3, Zenon
    <3> QED
      BY <2>2, <2>3, <3>1, Zenon DEF ServedIfReady
  <2>5. r = [m |-> m, ok |-> FALSE]
    BY <1>2, <2>4, RecordFin, Zenon
  <2> QED
    BY <2>1, <2>5
<1>4. CASE o.slot # NULL
  <2>1. Opened(m, id, ctx)
    BY <1>4, TableOpen, SMTT(20) DEF Opened, ShellOK
  <2>2. FinTo(m, o) = Stored(m, o, h)
    BY <1>4, Zenon DEF FinTo
  <2> HIDE DEF o, ctx
  <2>3. h \in Context /\ h.id = id /\ h.phase.tag \in {"Processing", "Done"}
    BY <2>1, FinHandler, Zenon DEF Opened, Context
  <2> HIDE DEF h
  <2>4. Wrote(m, w, id, h)
    BY <1>4, <2>3, StoreEffect, Zenon DEF o
  <2>5. FinTo(m, o).m = w /\ FinTo(m, o).code = shell_phase_code(h.phase)
    BY <2>2 DEF Stored
  <2> HIDE DEF w
  <2>6. ShellOK(w) /\ w.slots = m.slots /\ w.adapter = m.adapter
    BY <2>4, Zenon DEF Wrote
  <2>7. CASE h.phase.tag = "Done"
    <3>1. ServedIfReady(FinTo(m, o), id, up) = [m |-> w, ok |-> FALSE]
      <4>1. (FinTo(m, o).code = 2) = FALSE
        BY <2>3, <2>5, <2>7, PhaseCodes, Zenon
      <4> QED
        BY <2>5, <4>1, Zenon DEF ServedIfReady
    <3>2. r = [m |-> w, ok |-> FALSE]
      BY <1>2, <2>6, <3>1, RecordFin, Zenon
    <3>3. r.m = w /\ ~r.ok
      BY <3>2
    <3> QED
      BY <2>1, <2>4, <2>7, <3>3, Zenon DEF h
  <2>8. CASE h.phase.tag = "Processing"
    <3>1. (FinTo(m, o).code = 2) = TRUE
      BY <2>3, <2>5, <2>8, PhaseCodes, Zenon
    <3>2. \E s : /\ Served(w, s, id, c, up) /\ ShellOK(s) /\ ~s.slots[c].received_fin
                 /\ ServedIfReady(FinTo(m, o), id, up) = [m |-> s, ok |-> TRUE]
      <4>1. CASE w.adapter.send_in_flight
        <5>1. ServedIfReady(FinTo(m, o), id, up) = [m |-> w, ok |-> TRUE]
          BY <2>5, <3>1, <4>1, Zenon DEF ServedIfReady
        <5> QED
          BY <2>6, <5>1, Zenon DEF Served
      <4>2. CASE ~w.adapter.send_in_flight
        <5> DEFINE s == prepare_ready_response(w, id, up).m
        <5>1. ServedIfReady(FinTo(m, o), id, up) = [m |-> s, ok |-> TRUE]
          BY <2>5, <3>1, <4>2, Zenon DEF ServedIfReady
        <5> HIDE DEF s
        <5>2. SlotOf(w, id) = {c} /\ w.adapter = Idle /\ ~w.slots[c].send_in_flight
          BY <2>6, <4>2, Zenon DEF SlotOf
        <5>3. Served(w, s, id, c, up)
          BY <2>6, <5>2, Serve, Zenon DEF Served, s
        <5>4. ShellOK(s) /\ ~s.slots[c].received_fin
          <6>1. w.slots[c] \in ConnSlotState
            BY <2>6, Zenon DEF ShellOK, ShellState
          <6>2. CASE s = w
            BY <2>6, <6>2, Zenon
          <6>3. CASE Sent(w, s, id, c, ReadyFrame(w, id))
            <7>1. ShellOK(s) /\ s.slots[c] = Busy(w.slots[c], ReadyFrame(w, id).len)
              <8>1. Touches(w, s, id, c) /\ s.slots[c] = Busy(w.slots[c], ReadyFrame(w, id).len)
                BY <2>6, <6>3, SentTouches
              <8> QED
                BY <8>1, Zenon DEF Touches
            <7> QED
              BY <2>6, <6>1, <7>1, SlotFields
          <6>4. CASE Dropped(w, s, id, c, ReadyFrame(w, id))
            <7>1. ShellOK(s) /\ s.slots[c] = Cleared(w.slots[c])
              BY <2>6, <6>4, DroppedTouches DEF Touches
            <7> QED
              BY <2>6, <6>1, <7>1, SlotFields, Zenon
          <6> QED
            BY <5>3, <6>2, <6>3, <6>4, Zenon DEF Served
        <5> QED
          BY <5>1, <5>3, <5>4, Zenon
      <4> QED
        BY <4>1, <4>2, Zenon
    <3>3. PICK s : /\ Served(w, s, id, c, up) /\ ShellOK(s) /\ ~s.slots[c].received_fin
                   /\ ServedIfReady(FinTo(m, o), id, up) = [m |-> s, ok |-> TRUE]
      BY <3>2, Zenon
    <3>4. r = [m |-> FinnedAt(s, c), ok |-> TRUE]
      BY <1>2, <3>3, RecordFin, Zenon
    <3>5. Served(w, s, id, c, up) /\ r.m = FinnedAt(s, c) /\ r.ok
      BY <3>3, <3>4
    <3> QED
      BY <2>1, <2>4, <2>8, <3>5, Zenon DEF h
  <2> QED
    BY <2>3, <2>7, <2>8, Zenon
<1> QED
  BY <1>3, <1>4, Zenon

----------------------------------------------------------------------------
(* Completions and resets.                                                 *)

LEMMA SlotReplaced ==
    ASSUME NEW m, ShellOK(m), NEW c \in ConnSlot, NEW s \in ConnSlotState,
           NEW n, n = WithSlot(m, c, s)
    PROVE  /\ ShellOK(n) /\ n.table = m.table /\ n.adapter = m.adapter
           /\ n.sendbuf = m.sendbuf /\ n.sends = m.sends
           /\ n.slots[c] = s
           /\ \A d \in ConnSlot \ {c} : n.slots[d] = m.slots[d]
<1>1. m \in ShellState /\ m.slots \in [ConnSlot -> ConnSlotState]
  BY Zenon DEF ShellOK, ShellState
<1>2. [m.slots EXCEPT ![c] = s] \in [ConnSlot -> ConnSlotState]
  BY <1>1, Zenon
<1>3. /\ n \in ShellState /\ n.table = m.table /\ n.adapter = m.adapter
      /\ n.sendbuf = m.sendbuf /\ n.sends = m.sends
      /\ n.slots = [m.slots EXCEPT ![c] = s]
  BY <1>1, <1>2, Zenon DEF ShellState, WithSlot
<1> QED
  BY <1>1, <1>3, Zenon DEF ShellOK

(* The table entry closed, by either call, and the send slot free.         *)
ClosedIn(m, t) == [m EXCEPT !.table = t, !.adapter = Idle]

LEMMA EntryClosed ==
    ASSUME NEW m, ShellOK(m), NEW id \in StreamId, NEW t \in Closings(m.table, id, ReadingLength),
           NEW n, n = ClosedIn(m, t)
    PROVE  /\ ShellOK(n)
           /\ ActiveIds(n.table) = ActiveIds(m.table) \ {id}
           /\ \A j \in ActiveIds(n.table) : Ctx(n.table, j) = Ctx(m.table, j)
           /\ n.adapter = Idle
           /\ n.sendbuf = m.sendbuf /\ n.slots = m.slots /\ n.sends = m.sends
<1>1. /\ Good(t) /\ ActiveIds(t) = ActiveIds(m.table) \ {id}
      /\ \A j \in ActiveIds(t) : Ctx(t, j) = Ctx(m.table, j)
  BY TableClose DEF ShellOK
<1>2. /\ n \in ShellState /\ n.table = t /\ n.adapter = Idle
      /\ n.sendbuf = m.sendbuf /\ n.slots = m.slots /\ n.sends = m.sends
  BY <1>1, IdleType, Zenon DEF ClosedIn, ShellOK, ShellState, Good, GoodTable
<1> QED
  BY <1>1, <1>2, Zenon DEF ShellOK

(* The adapter's record of a send.                                         *)
InFlight(id, len) == [send_in_flight |-> TRUE, send_stream_id |-> id, send_len |-> len]

AfterComplete(m, id, c, canceled, up) ==
    [on_send_complete(m, c, canceled, up).m EXCEPT !.sends[id].state = "done"]

(* The completion of the send in flight matches it, gives back the send    *)
(* slot and closes the stream.                                             *)
LEMMA CompleteEffect ==
    ASSUME NEW m, ShellOK(m), NEW c \in ConnSlot, NEW id \in StreamId,
           m.slots[c].stream_id = id, m.slots[c].send_in_flight,
           m.slots[c].response_len \in 1 .. SendCapacity,
           m.adapter = InFlight(id, m.slots[c].response_len),
           NEW canceled, NEW up,
           NEW n, n = AfterComplete(m, id, c, canceled, up)
    PROVE  /\ Touches(m, n, id, c)
           /\ id \notin ActiveIds(n.table)
           /\ n.adapter = Idle
           /\ n.slots[c] = Cleared(m.slots[c])
           /\ n.sends[id].state = "done" /\ n.sends[id].frame = m.sends[id].frame
<1> DEFINE len == m.slots[c].response_len
           k == [m EXCEPT !.slots[c] = Cleared(@)]
           e == Event("SEND_COMPLETE", id, <<>>, len, canceled \/ m.slots[c].reset_pending)
           t == dispatch_response_send_finished(k.table, id, ReadingLength)
           u == ClosedIn(k, t)
<1>1. /\ m \in ShellState /\ m.slots[c] \in ConnSlotState
      /\ m.slots \in [ConnSlot -> ConnSlotState] /\ m.adapter.send_in_flight
  BY DEF ShellOK, ShellState, InFlight
<1>2. /\ k.table = m.table /\ k.adapter = m.adapter /\ k.sendbuf = m.sendbuf
      /\ k.queue = <<>> /\ k.sends = m.sends
      /\ k.slots = [m.slots EXCEPT ![c] = Cleared(@)]
  BY <1>1, Zenon DEF ShellState
<1>3. on_send_complete(m, c, canceled, up) = EnqueueAndDispatch(k, e, up)
  BY <1>1, Zenon DEF on_send_complete
<1>4. /\ ShellOK(k) /\ k.slots[c] = Cleared(m.slots[c])
      /\ \A d \in ConnSlot \ {c} : k.slots[d] = m.slots[d]
  <2>1. Cleared(m.slots[c]) \in ConnSlotState
    BY <1>1, SlotStates, NoLength, Zenon
  <2>2. k.slots \in [ConnSlot -> ConnSlotState]
    BY <1>1, <1>2, <2>1
  <2>3. k \in ShellState
    BY <1>1, <1>2, <2>2, Zenon DEF ShellState
  <2> HIDE DEF k
  <2> QED
    BY <1>1, <1>2, <2>3, Zenon DEF ShellOK
<1> HIDE DEF k
<1>6. EnqueueAndDispatch(k, e, up) = adapter_on_send_complete(k, id, len)
  <2>1. EnqueueAndDispatch(k, e, up) = dispatch_event(k, e, up)
    BY <1>4, Direct, Zenon DEF ShellOK
  <2> QED
    BY <2>1, Zenon DEF dispatch_event, Event
<1>7. Completes(k, id, len)
  BY <1>2 DEF Completes, InFlight
<1>8. on_send_complete(m, c, canceled, up).m = u
  <2>1. on_send_complete(m, c, canceled, up) = [m |-> Finished(k, id), ok |-> TRUE]
    BY <1>3, <1>6, <1>7, Zenon DEF adapter_on_send_complete
  <2>2. Finished(k, id) = u
    BY Zenon DEF Finished, ClosedIn
  <2> QED
    BY <2>1, <2>2
<1>9. /\ ShellOK(u)
      /\ ActiveIds(u.table) = ActiveIds(m.table) \ {id}
      /\ \A j \in ActiveIds(u.table) : Ctx(u.table, j) = Ctx(m.table, j)
      /\ u.adapter = Idle
      /\ u.slots = k.slots /\ u.sends = m.sends
  <2>1. t \in Closings(k.table, id, ReadingLength)
    BY Zenon DEF Closings
  <2> HIDE DEF t
  <2> QED
    BY <1>2, <1>4, <2>1, EntryClosed
<1> HIDE DEF u
<1>10. /\ n \in ShellState
       /\ n.table = u.table /\ n.adapter = u.adapter /\ n.slots = u.slots
       /\ n.sends[id].state = "done" /\ n.sends[id].frame = u.sends[id].frame
       /\ \A j \in StreamId \ {id} : n.sends[j] = u.sends[j]
  <2>1. u \in ShellState /\ u.sends \in [StreamId -> Send] /\ u.sends[id] \in Send
    BY <1>9, Zenon DEF ShellOK, ShellState
  <2> DEFINE d == [u.sends[id] EXCEPT !.state = "done"]
             x == [u.sends EXCEPT ![id] = d]
  <2>2. d \in Send /\ d.state = "done" /\ d.frame = u.sends[id].frame
    BY <2>1, Zenon DEF Send
  <2>3. n = [u EXCEPT !.sends = x]
    BY <1>8, Zenon DEF AfterComplete
  <2> HIDE DEF d
  <2>4. x \in [StreamId -> Send] /\ x[id] = d /\ \A j \in StreamId \ {id} : x[j] = u.sends[j]
    BY <2>1, <2>2, Zenon
  <2> HIDE DEF x
  <2> QED
    BY <2>1, <2>2, <2>3, <2>4, Zenon DEF ShellState
<1> HIDE DEF len
<1>11. Touches(m, n, id, c)
  <2>1. ShellOK(n)
    BY <1>9, <1>10, Zenon DEF ShellOK
  <2>2. \A d \in ConnSlot \ {c} : n.slots[d] = m.slots[d]
    BY <1>4, <1>9, <1>10
  <2>3. \A j \in StreamId \ {id} :
            /\ j \in ActiveIds(n.table) <=> j \in ActiveIds(m.table)
            /\ j \in ActiveIds(m.table) => Ctx(n.table, j) = Ctx(m.table, j)
            /\ n.sends[j] = m.sends[j]
    BY <1>9, <1>10
  <2> QED
    BY <2>1, <2>2, <2>3, Zenon DEF Touches
<1> QED
  BY <1>4, <1>9, <1>10, <1>11, Zenon

(* A reset waits for the completion of its own send, is refused during     *)
(* another stream's send, and otherwise closes the stream.                 *)
LEMMA ResetEffect ==
    ASSUME NEW m, ShellOK(m), NEW c \in ConnSlot, NEW id \in StreamId, m.slots[c].stream_id = id,
           m.adapter.send_in_flight \/ m.adapter = Idle,
           m.adapter.send_in_flight /\ m.adapter.send_stream_id = id => m.slots[c].send_in_flight,
           NEW up, NEW r, r = on_stream_reset(m, c, up)
    PROVE  \/ /\ m.slots[c].send_in_flight /\ r.ok
              /\ r.m = WithSlot(m, c, Deferred(m.slots[c]))
           \/ /\ m.adapter.send_in_flight /\ ~r.ok
              /\ r.m = m
           \/ /\ ~m.adapter.send_in_flight /\ r.ok
              /\ \E t \in Closings(m.table, id, ReadingLength) :
                    r.m = ClosedIn(m, t)
<1>1. m \in ShellState /\ m.slots[c] \in ConnSlotState
  BY Zenon DEF ShellOK, ShellState
<1>2. CASE m.slots[c].send_in_flight
  <2>1. [m EXCEPT !.slots[c].reset_pending = TRUE] =
            WithSlot(m, c, Deferred(m.slots[c]))
    BY Zenon DEF Deferred, WithSlot
  <2>2. r.ok /\ r.m = [m EXCEPT !.slots[c].reset_pending = TRUE]
    BY <1>2, Zenon DEF on_stream_reset
  <2> QED
    BY <1>2, <2>1, <2>2, Zenon
<1>3. CASE ~m.slots[c].send_in_flight
  <2> DEFINE e == Event("RESET", id, <<>>, 0, TRUE)
             t == dispatch_stream_reset(m.table, id, ReadingLength)
  <2>1. r = dispatch_event(m, e, up)
    BY <1>1, <1>3, Direct, Zenon DEF on_stream_reset
  <2>2. r = adapter_on_stream_reset(m, id)
    BY <2>1, Zenon DEF dispatch_event, Event
  <2>3. CASE m.adapter.send_in_flight
    <3>1. r = [m |-> m, ok |-> FALSE]
      BY <1>3, <2>2, <2>3, Zenon DEF adapter_on_stream_reset
    <3> QED
      BY <2>3, <3>1
  <2>4. CASE ~m.adapter.send_in_flight
    <3>1. r = [m |-> [m EXCEPT !.table = t], ok |-> TRUE]
      BY <2>2, <2>4, Zenon DEF adapter_on_stream_reset
    <3>2. t \in Closings(m.table, id, ReadingLength)
      BY Zenon DEF Closings
    <3> HIDE DEF t
    <3>3. [m EXCEPT !.table = t] = ClosedIn(m, t)
      BY <1>1, <2>4, Zenon DEF ClosedIn, ShellState
    <3>4. r.ok /\ r.m = ClosedIn(m, t)
      BY <3>1, <3>3
    <3> QED
      BY <2>4, <3>2, <3>4, Zenon
  <2> QED
    BY <2>3, <2>4, Zenon
<1> QED
  BY <1>2, <1>3, Zenon

----------------------------------------------------------------------------
(* A callback of one stream and the others.                                *)

(* The slot MsQuic passes for a stream is the only one bound to it.        *)
LEMMA BoundSlot ==
    ASSUME NEW m, NEW p, Inv(m, p), NEW id \in StreamId, Bound(p[id])
    PROVE  /\ p[id].slot \in ConnSlot
           /\ m.slots[p[id].slot].in_use /\ m.slots[p[id].slot].stream_id = id
           /\ SlotOf(m, id) = {p[id].slot}
<1>1. /\ p[id].slot \in ConnSlot
      /\ m.slots[p[id].slot].in_use /\ m.slots[p[id].slot].stream_id = id
  BY Zenon DEF Inv, StreamOK, BoundOK
<1>2. \A c \in SlotOf(m, id) : c = p[id].slot
  BY Zenon DEF Inv, OwnersOK, SlotOf
<1> QED
  BY <1>1, <1>2, Zenon DEF SlotOf

(* What StreamOK says of a stream whose response MsQuic owns.              *)
LEMMA PendingView ==
    ASSUME NEW m, NEW q, NEW id, StreamOK(m, q, id), m.sends[id].state = "pending"
    PROVE  /\ q.life = "live" /\ Bound(q)
           /\ id \in ActiveIds(m.table) /\ Ctx(m.table, id).phase.tag = "Processing"
           /\ m.adapter.send_in_flight /\ m.adapter.send_stream_id = id
           /\ m.adapter = InFlight(id, m.slots[q.slot].response_len)
           /\ m.sendbuf = m.sends[id].frame
           /\ m.slots[q.slot].send_in_flight
           /\ m.slots[q.slot].response_len = m.sends[id].frame.len
           /\ m.slots[q.slot].response_len \in 1 .. SendCapacity
<1> DEFINE a == InFlight(id, m.sends[id].frame.len)
<1>1. /\ q.life = "live"
      /\ id \in ActiveIds(m.table) /\ Ctx(m.table, id).phase.tag = "Processing"
      /\ m.adapter = a
      /\ m.sendbuf = m.sends[id].frame
      /\ m.slots[q.slot].send_in_flight
      /\ m.slots[q.slot].response_len = m.sends[id].frame.len
      /\ m.sends[id].frame.len \in 1 .. SendCapacity
  BY Zenon DEF StreamOK, PendingOK, InFlight
<1>2. a.send_in_flight /\ a.send_stream_id = id
  BY Zenon DEF InFlight
<1> QED
  BY <1>1, <1>2, Zenon DEF Bound

(* No more stream slots than the table has entries, as in every caller of  *)
(* ism_msquic_connection_runtime_init.                                     *)
EntryPerSlot == ConnSlotCount <= Capacity

(* Then a stream with a slot finds a table entry: the open streams have    *)
(* slots of their own, and there are no more of those.                     *)
LEMMA RoomFor ==
    ASSUME NEW m, NEW p, Inv(m, p), EntryPerSlot, NEW id \in StreamId, Bound(p[id])
    PROVE  ~NoRoom(m.table, id)
<1> SUFFICES ASSUME id \notin ActiveIds(m.table), m.table.num = Capacity
             PROVE  FALSE
  BY Zenon DEF NoRoom
<1> DEFINE t == m.table
           holder == [i \in 0 .. Capacity |->
                         IF i = Capacity THEN id ELSE t.ctx[t.active[i]].id]
           f == [i \in 0 .. Capacity |-> p[holder[i]].slot]
<1>1. /\ Capacity \in Nat /\ Prefix(t) = 0 .. Capacity - 1 /\ IdsDistinct(t)
      /\ \A j \in ActiveIds(t) : j \in StreamId
  <2>1. Good(t)
    BY Zenon DEF Inv, ShellOK
  <2> QED
    BY <2>1, CapacityAssumption, TableFind, Zenon DEF Good, GoodTable, Prefix
<1>2. \A i \in 0 .. Capacity - 1 : t.ctx[t.active[i]].id \in ActiveIds(t)
  BY <1>1, Zenon DEF ActiveIds, ActiveSlots
<1>3. \A i \in 0 .. Capacity : holder[i] \in ActiveIds(t) \cup {id}
  BY <1>1, <1>2
<1>4. \A i, j \in 0 .. Capacity : holder[i] = holder[j] => i = j
  <2>1. \A i \in 0 .. Capacity : i # Capacity =>
            i \in Prefix(t) /\ holder[i] = t.ctx[t.active[i]].id /\ holder[i] # id
    BY <1>1, <1>2
  <2>2. holder[Capacity] = id
    BY <1>1
  <2> HIDE DEF holder
  <2> QED
    BY <1>1, <2>1, <2>2 DEF IdsDistinct
<1> HIDE DEF holder
<1>5. \A j \in ActiveIds(t) \cup {id} :
          p[j].slot \in ConnSlot /\ m.slots[p[j].slot].stream_id = j
  <2>1. ASSUME NEW j \in ActiveIds(t) PROVE j \in StreamId /\ Bound(p[j])
    BY <1>1, Zenon DEF Inv, StreamOK, EntryOK
  <2> QED
    BY <2>1, BoundSlot
<1>6. ConnSlot \subseteq 0 .. Capacity - 1
  BY <1>1, RuntimeConstants DEF EntryPerSlot, ConnSlot
<1>7. f \in [0 .. Capacity -> 0 .. Capacity - 1]
  BY <1>3, <1>5, <1>6, Zenon
<1>8. \A i, j \in 0 .. Capacity : f[i] = f[j] => i = j
  BY <1>3, <1>4, <1>5
<1> HIDE DEF f
<1> QED
  BY <1>1, <1>7, <1>8, Pigeonhole, Zenon

(* A step that touches one stream, and the slot c that is its own or free, *)
(* keeps the invariant if it keeps what it says about that stream.         *)
LEMMA StreamStep ==
    ASSUME NEW m, NEW p, Inv(m, p), NEW id \in StreamId, NEW c,
           Bound(p[id]) => p[id].slot = c,
           c \in ConnSlot /\ m.slots[c].in_use => m.slots[c].stream_id = id,
           NEW n, Touches(m, n, id, c),
           NEW q \in PeerStream, q.pos <= Len(q.wire),
           c \in ConnSlot /\ n.slots[c].in_use =>
               n.slots[c].stream_id = id /\ Bound(q) /\ q.slot = c,
           AdapterOK(n),
           \/ n.adapter = m.adapter /\ n.sendbuf = m.sendbuf
           \/ ~m.adapter.send_in_flight
           \/ m.adapter.send_stream_id = id,
           StreamOK(n, q, id)
    PROVE  /\ Inv(n, [p EXCEPT ![id] = q])
           /\ AllFramed(m, p) /\ StreamFramed(n, q, id) => AllFramed(n, [p EXCEPT ![id] = q])
<1> DEFINE P == [p EXCEPT ![id] = q]
<1>1. /\ PeerOK(P) /\ P[id] = q
      /\ \A j \in StreamId \ {id} : P[j] = p[j]
  BY Zenon DEF Inv, PeerOK
<1> HIDE DEF P
<1>2. ASSUME NEW j \in StreamId \ {id}, Bound(p[j])
      PROVE  p[j].slot \in ConnSlot \ {c} /\ n.slots[p[j].slot] = m.slots[p[j].slot]
  BY <1>2, BoundSlot DEF Touches
<1>3. OwnersOK(n, P)
  <2> SUFFICES ASSUME NEW d \in ConnSlot, n.slots[d].in_use
               PROVE  Bound(P[n.slots[d].stream_id]) /\ P[n.slots[d].stream_id].slot = d
    BY Zenon DEF OwnersOK
  <2>1. CASE d = c
    BY <1>1, <2>1, Zenon
  <2>2. CASE d # c
    <3>1. n.slots[d] = m.slots[d] /\ n.slots[d].stream_id \in StreamId
      BY <2>2, Zenon DEF Touches, ShellOK, ShellState, ConnSlotState
    <3>2. Bound(p[n.slots[d].stream_id]) /\ p[n.slots[d].stream_id].slot = d
      BY <3>1, Zenon DEF Inv, OwnersOK
    <3> QED
      BY <1>1, <2>2, <3>1, <3>2, Zenon
  <2> QED
    BY <2>1, <2>2, Zenon
<1>4. ASSUME NEW j \in StreamId \ {id}
      PROVE  /\ j \in ActiveIds(n.table) <=> j \in ActiveIds(m.table)
             /\ j \in ActiveIds(m.table) => Ctx(n.table, j) = Ctx(m.table, j)
             /\ n.sends[j] = m.sends[j]
             /\ Bound(p[j]) => n.slots[p[j].slot] = m.slots[p[j].slot]
             /\ m.sends[j].state = "pending" => n.adapter = m.adapter /\ n.sendbuf = m.sendbuf
  <2>1. m.sends[j].state = "pending" => m.adapter.send_in_flight /\ m.adapter.send_stream_id = j
    <3>1. StreamOK(m, p[j], j)
      BY Zenon DEF Inv
    <3> QED
      BY <3>1, PendingView
  <2>2. m.sends[j].state = "pending" => n.adapter = m.adapter /\ n.sendbuf = m.sendbuf
    BY <2>1, Zenon
  <2>3. Bound(p[j]) => n.slots[p[j].slot] = m.slots[p[j].slot]
    BY <1>2, Zenon
  <2> QED
    BY <2>2, <2>3, Zenon DEF Touches
<1>5. ASSUME NEW j \in StreamId \ {id}
      PROVE  StreamOK(n, P[j], j)
  <2>1. StreamOK(m, p[j], j) /\ P[j] = p[j]
    BY <1>1, Zenon DEF Inv
  <2>2. BoundOK(j, n.slots[p[j].slot], n.sends[j], p[j])
    BY <1>4, <2>1, Zenon DEF StreamOK, BoundOK
  <2>3. EntryOK(j \in ActiveIds(n.table), Ctx(n.table, j), n.slots[p[j].slot], p[j])
    BY <1>4, <2>1, Zenon DEF StreamOK, EntryOK
  <2>4. PendingOK(j, j \in ActiveIds(n.table), Ctx(n.table, j), n.slots[p[j].slot],
                  n.sends[j], n.adapter, n.sendbuf, p[j])
    BY <1>4, <2>1, Zenon DEF StreamOK, PendingOK, Bound
  <2>5. SentOK(j \in ActiveIds(n.table), n.slots[p[j].slot], n.sends[j], p[j])
    BY <1>4, <2>1, Zenon DEF StreamOK, SentOK
  <2> QED
    BY <2>1, <2>2, <2>3, <2>4, <2>5, Zenon DEF StreamOK
<1>6. ASSUME NEW j \in StreamId \ {id}, AllFramed(m, p)
      PROVE  StreamFramed(n, P[j], j)
  <2>1. StreamFramed(m, p[j], j) /\ P[j] = p[j]
    BY <1>1, <1>6, Zenon DEF AllFramed
  <2> QED
    BY <1>4, <2>1, Zenon DEF StreamFramed, FramedOK, Bound
<1> QED
  <2>1. \A j \in StreamId : StreamOK(n, P[j], j)
    BY <1>1, <1>5, Zenon
  <2>2. AllFramed(m, p) /\ StreamFramed(n, q, id) => AllFramed(n, P)
    BY <1>1, <1>6, Zenon DEF AllFramed
  <2>3. ShellOK(n)
    BY Zenon DEF Touches
  <2> QED
    BY <1>1, <1>3, <2>1, <2>2, <2>3, Zenon DEF Inv, P

----------------------------------------------------------------------------
(* The callbacks of a live stream.                                         *)

(* q is what is known of a stream later than o, and the stream still live. *)
Follows(o, q) ==
    /\ q \in PeerStream /\ q.pos <= Len(q.wire)
    /\ o.life = "live" /\ q.life = "live" /\ q.slot = o.slot /\ q.wire = o.wire
    /\ o.eof \/ o.fin => q.eof \/ q.fin

(* No byte was received since o, and nothing undone.                       *)
Uncounted(o, q) ==
    \/ q.stopped
    \/ q.pos = o.pos /\ (q.stopped <=> o.stopped) /\ (o.reset => q.reset)

(* The peer's record may move while the shell stands still.                *)
LEMMA PeerMoves ==
    ASSUME NEW m, NEW p, Inv(m, p), NEW id \in StreamId,
           NEW q, Follows(p[id], q)
    PROVE  /\ Inv(m, [p EXCEPT ![id] = q])
           /\ AllFramed(m, p) /\ Uncounted(p[id], q) => AllFramed(m, [p EXCEPT ![id] = q])
<1> DEFINE c == p[id].slot
<1>1. Bound(p[id]) /\ Bound(q) /\ q \in PeerStream /\ q.pos <= Len(q.wire) /\ q.slot = c
  BY Zenon DEF Bound, Follows
<1>2. m.slots[c].stream_id = id
  BY <1>1, BoundSlot
<1>3. StreamOK(m, q, id)
  <2>1. StreamOK(m, p[id], id)
    BY Zenon DEF Inv
  <2> QED
    BY <2>1, Zenon DEF StreamOK, BoundOK, EntryOK, PendingOK, SentOK, Follows, Bound
<1>4. ASSUME AllFramed(m, p), Uncounted(p[id], q)
      PROVE  StreamFramed(m, q, id)
  <2>1. StreamFramed(m, p[id], id)
    BY <1>4, Zenon DEF AllFramed
  <2> QED
    BY <1>4, <2>1, Zenon DEF StreamFramed, FramedOK, Follows, Uncounted
<1>5. Touches(m, m, id, c) /\ AdapterOK(m)
  BY Zenon DEF Touches, Inv
<1> HIDE DEF c
<1> QED
  BY <1>1, <1>2, <1>3, <1>4, <1>5, StreamStep, Zenon DEF c

(* A stream whose FIN the shell has not seen is not ready and was not      *)
(* answered.                                                               *)
LEMMA BeforeFin ==
    ASSUME NEW m, NEW q, NEW id, StreamOK(m, q, id), Bound(q), ~m.slots[q.slot].received_fin
    PROVE  /\ m.sends[id].state # "pending" /\ ~(m.sends[id].state # "none")
           /\ ~m.slots[q.slot].send_in_flight
           /\ id \in ActiveIds(m.table) => Ctx(m.table, id).phase.tag # "Processing"
<1>1. id \in ActiveIds(m.table) => Ctx(m.table, id).phase.tag # "Processing"
  BY Zenon DEF StreamOK, EntryOK
<1>2. ~(m.sends[id].state # "none")
  BY Zenon DEF StreamOK, SentOK
<1>3. m.sends[id].state # "pending"
  BY <1>2, Zenon
<1>4. ~m.slots[q.slot].send_in_flight
  BY <1>3, Zenon DEF StreamOK, BoundOK
<1> QED
  BY <1>1, <1>2, <1>3, <1>4, Zenon

(* Without a protocol error, a handler is called with a context that       *)
(* stands where the bytes so far put it.                                   *)
LEMMA OpenedFramed ==
    ASSUME NEW m, NEW q \in PeerStream, NEW id, StreamFramed(m, q, id),
           q.life = "live", ~q.stopped, ~q.reset, ~m.slots[q.slot].received_fin,
           NEW ctx, Opened(m, id, ctx)
    PROVE  ctx.phase = WholeStreamPhase(q.wire, q.pos) /\ BodyHeld(q.wire, ctx.buf, q.pos)
<1>1. CASE id \in ActiveIds(m.table)
  BY <1>1, Zenon DEF StreamFramed, FramedOK, Opened
<1>2. CASE id \notin ActiveIds(m.table)
  <2>1. q.pos = 0 /\ ctx.phase = ReadingLength
    BY <1>2, Zenon DEF StreamFramed, FramedOK, Opened
  <2> QED
    BY <2>1 DEF WholeStreamPhase, BodyHeld
<1> QED
  BY <1>1, <1>2, Zenon

(* The next k bytes, handled in that context.                              *)
LEMMA DataFrames ==
    ASSUME NEW m, NEW q \in PeerStream, NEW id, StreamFramed(m, q, id),
           q.life = "live", ~q.stopped, ~q.reset, ~m.slots[q.slot].received_fin,
           NEW ctx, Opened(m, id, ctx),
           NEW k \in Nat, q.pos + k <= Len(q.wire),
           NEW h, h = handle_stream_data(ctx, SubSeq(q.wire, q.pos + 1, q.pos + k))
    PROVE  /\ h.phase = WholeStreamPhase(q.wire, q.pos + k)
           /\ BodyHeld(q.wire, h.buf, q.pos + k)
<1> DEFINE w == q.wire
           n == q.pos
           d == SubSeq(w, n + 1, n + k)
<1>1. ctx \in ContextWith(StreamId) /\ ctx.phase = WholeStreamPhase(w, n) /\ BodyHeld(w, ctx.buf, n)
  <2>1. ctx \in Context
    BY Zenon DEF Opened
  <2> QED
    BY <2>1, OpenedFramed, Zenon DEF Context
<1>2. w \in Seq(Byte) /\ n \in 0 .. Len(w) /\ k \in 0 .. Len(w) - n
  <2>1. w \in Seq(Byte) /\ n \in Nat /\ Len(w) \in Nat
    BY DEF PeerStream
  <2> QED
    BY <2>1
<1>3. d \in Seq(Byte) /\ Len(d) = k /\ \A i \in 1 .. k : d[i] = w[n + i]
  BY <1>2, NextBytes, Zenon
<1>4. h = handle_stream_data(ctx, d)
  OBVIOUS
<1> HIDE DEF w, n, d
<1>5. h.phase = WholeStreamPhase(w, n + k) /\ BodyHeld(w, h.buf, n + k)
  BY <1>1, <1>2, <1>3, <1>4, DataFramed
<1> QED
  BY <1>5, Zenon DEF w, n

(* A stream that is not ready does not become ready before its FIN.        *)
LEMMA DataNotReady ==
    ASSUME NEW ctx \in Context, ctx.phase.tag # "Processing", NEW d \in Seq(Byte),
           NEW h, h = handle_stream_data(ctx, d)
    PROVE  h \in Context /\ h.phase.tag # "Processing"
  BY DataHandler, Zenon DEF Context

(* No prefix of a proper query is refused.                                 *)
LEMMA QueryPrefix ==
    ASSUME NEW w \in Seq(Byte), WholeQuery(w), NEW n \in 0 .. Len(w)
    PROVE  WholeStreamPhase(w, n).tag # "Done"
<1>1. Len(w) \in Nat /\ Len(w) >= 2 /\ Expected(w) >= MinMessage /\ Len(w) = Expected(w) + 2
  BY DEF WholeQuery
<1>2. Expected(w) \in 0 .. MaxMessage
  BY <1>1, ExpectedType, Zenon
<1>3. Expected(w) \in Nat /\ Expected(w) <= MaxMessage /\ MaxMessage \in Nat /\ MinMessage \in Nat
  BY <1>2, MessageSizes
<1>4. CASE n \in {0, 1}
  BY <1>4 DEF WholeStreamPhase, ReadingLength, ReadingLengthHigh, PhaseRecord
<1>5. CASE n >= 2
  <2>1. ~(Expected(w) < MinMessage \/ n - 2 > Expected(w)) /\ n # 0 /\ n # 1
    BY <1>1, <1>3, <1>5
  <2>2. WholeStreamPhase(w, n) = IF n - 2 = Expected(w) THEN AwaitingFin(Expected(w))
                                 ELSE ReadingMessage(Expected(w), n - 2)
    BY <1>5, <2>1, Zenon DEF WholeStreamPhase
  <2> QED
    BY <2>2 DEF AwaitingFin, ReadingMessage, PhaseRecord
<1> QED
  BY <1>1, <1>4, <1>5

(* Responses given to MsQuic stay as they are.                             *)
Kept(m, n) == \A j \in StreamId : m.sends[j].state # "none" => n.sends[j] = m.sends[j]

LEMMA KeptTrans ==
    ASSUME NEW m, NEW w, NEW n, Kept(m, w), Kept(w, n)
    PROVE  Kept(m, n)
  BY Zenon DEF Kept

(* The peer of stream q does nothing wrong.                                *)
Proper(m, p, q) == EntryPerSlot /\ AllFramed(m, p) /\ ~q.stopped /\ WholeQuery(q.wire)

(* One buffer of a RECEIVE: the next k bytes.                              *)
LEMMA DataStep ==
    ASSUME NEW m, NEW p, Inv(m, p), NEW id \in StreamId,
           NEW q, Follows(p[id], q), ~p[id].eof, ~p[id].fin, ~p[id].reset,
           q.stopped <=> p[id].stopped,
           NEW k \in Nat, q.pos = p[id].pos + k,
           NEW data, data = SubSeq(q.wire, p[id].pos + 1, p[id].pos + k),
           NEW up, NEW r, r = copy_enqueue_and_dispatch(m, q.slot, data, up)
    PROVE  /\ Inv(r.m, [p EXCEPT ![id] = q])
           /\ AllFramed(m, p) /\ r.ok => AllFramed(r.m, [p EXCEPT ![id] = q])
           /\ Kept(m, r.m)
           /\ Proper(m, p, q) /\ k <= IngressCapacity => r.ok
<1> DEFINE c == q.slot
           o == p[id]
<1>1. /\ Bound(o) /\ Bound(q) /\ q \in PeerStream /\ q.pos <= Len(q.wire)
      /\ o.life = "live" /\ q.life = "live" /\ o.slot = c /\ o.wire = q.wire
  BY Zenon DEF Bound, Follows
<1>2. /\ o \in PeerStream /\ o.pos \in 0 .. Len(q.wire) /\ k \in 0 .. Len(q.wire) - o.pos
      /\ q.wire \in Seq(Byte) /\ q.pos = o.pos + k
  <2>1. o \in PeerStream
    BY Zenon DEF Inv, PeerOK
  <2>2. o.pos \in Nat /\ q.wire \in Seq(Byte) /\ Len(q.wire) \in Nat
    BY <1>1, <2>1 DEF PeerStream
  <2> QED
    BY <1>1, <2>1, <2>2
<1>3. /\ data \in Seq(Byte) /\ Len(data) = k
      /\ \A i \in 1 .. k : data[i] = q.wire[o.pos + i]
  BY <1>2, NextBytes, Zenon
<1>4. c \in ConnSlot /\ m.slots[c].in_use /\ m.slots[c].stream_id = id
  BY <1>1, BoundSlot
<1>5. StreamOK(m, o, id) /\ ShellOK(m) /\ AdapterOK(m) /\ ~m.slots[c].received_fin
  <2>1. StreamOK(m, o, id) /\ ShellOK(m) /\ AdapterOK(m)
    BY Zenon DEF Inv
  <2> QED
    BY <1>1, <2>1, Zenon DEF StreamOK, BoundOK, EntryOK, PendingOK, SentOK
<1>6. /\ m.sends[id].state # "pending" /\ ~(m.sends[id].state # "none")
      /\ ~m.slots[c].send_in_flight
      /\ id \in ActiveIds(m.table) => Ctx(m.table, id).phase.tag # "Processing"
  BY <1>1, <1>5, BeforeFin, Zenon
<1>7. Skipped(m, r, c, id, data) \/ \E ctx : Handled(m, r, id, ctx, data)
  BY <1>3, <1>4, <1>5, <1>6, DataEffect, Zenon
<1>10. WholeQuery(q.wire) => WholeStreamPhase(q.wire, q.pos).tag # "Done"
  <2>1. q.pos \in 0 .. Len(q.wire)
    BY <1>1, <1>2
  <2> QED
    BY <1>2, <2>1, QueryPrefix, Zenon
<1>8. CASE Skipped(m, r, c, id, data)
  <2>1. r.ok => Uncounted(p[id], q)
    <3>1. data = <<>> => k = 0
      BY <1>3, Zenon
    <3>2. k = 0 => q.pos = p[id].pos
      BY <1>2
    <3> QED
      BY <1>8, <3>1, <3>2, Zenon DEF Uncounted, Skipped
  <2>2. Proper(m, p, q) /\ k <= IngressCapacity => r.ok
    <3> SUFFICES ASSUME EntryPerSlot, k <= IngressCapacity PROVE r.ok
      BY Zenon DEF Proper
    <3>1. ~NoRoom(m.table, id)
      BY <1>1, RoomFor, Zenon
    <3>2. ~(Len(data) > IngressCapacity)
      BY <1>3, RuntimeConstants
    <3> QED
      BY <1>5, <1>8, <3>1, <3>2, Zenon DEF Denied, Skipped
  <2>3. Kept(m, r.m) /\ r.m = m
    BY <1>8, Zenon DEF Kept, Skipped
  <2> QED
    BY <2>1, <2>2, <2>3, PeerMoves, Zenon
<1>9. ASSUME NEW ctx, Handled(m, r, id, ctx, data)
      PROVE  /\ Inv(r.m, [p EXCEPT ![id] = q])
             /\ AllFramed(m, p) => AllFramed(r.m, [p EXCEPT ![id] = q])
             /\ Kept(m, r.m)
             /\ Proper(m, p, q) => r.ok
  <2> DEFINE n == r.m
             h == handle_stream_data(ctx, data)
  <2>11. /\ Opened(m, id, ctx) /\ Wrote(m, r.m, id, h)
         /\ h.phase.tag # "Done" => r.ok
    BY <1>9, Zenon DEF Handled
  <2>1. ctx \in Context /\ ctx.phase.tag # "Processing"
    BY <1>6, <2>11, ServerShapeOK, Zenon DEF Opened
  <2>2. h \in Context /\ h.phase.tag # "Processing"
    BY <1>3, <2>1, DataNotReady, Zenon
  <2>8. AllFramed(m, p) /\ ~q.stopped =>
            h.phase = WholeStreamPhase(q.wire, q.pos) /\ BodyHeld(q.wire, h.buf, q.pos)
    <3> SUFFICES ASSUME AllFramed(m, p), ~q.stopped
                 PROVE  /\ h.phase = WholeStreamPhase(q.wire, q.pos)
                        /\ BodyHeld(q.wire, h.buf, q.pos)
      OBVIOUS
    <3>1. StreamFramed(m, o, id)
      BY Zenon DEF AllFramed
    <3>2. ~o.stopped /\ ~o.reset /\ ~m.slots[o.slot].received_fin
      BY <1>1, <1>5, Zenon
    <3>3. h = handle_stream_data(ctx, SubSeq(o.wire, o.pos + 1, o.pos + k))
      BY <1>1, Zenon
    <3>4. o.pos + k <= Len(o.wire)
      BY <1>1, <1>2, Zenon
    <3> HIDE DEF o, h
    <3>5. h.phase = WholeStreamPhase(o.wire, o.pos + k) /\ BodyHeld(o.wire, h.buf, o.pos + k)
      BY <1>1, <1>2, <2>11, <3>1, <3>2, <3>3, <3>4, DataFrames, Zenon
    <3> QED
      BY <1>1, <1>2, <3>5, Zenon DEF o
  <2>3. AllFramed(m, p) => StreamFramed(n, q, id)
    BY <1>5, <2>11, <2>8, Zenon DEF StreamFramed, FramedOK, Wrote
  <2>9. Proper(m, p, q) => r.ok
    BY <2>11, <1>10, <2>8, Zenon DEF Proper
  <2> HIDE DEF h
  <2>4. /\ Touches(m, n, id, c) /\ n.slots = m.slots /\ n.sends = m.sends
        /\ n.adapter = m.adapter /\ n.sendbuf = m.sendbuf
        /\ id \in ActiveIds(n.table) /\ Ctx(n.table, id) = h
    <3>1. Touches(m, n, id, c)
      BY <2>11, WroteTouches, Zenon
    <3> QED
      BY <2>11, <3>1, Zenon DEF Wrote, h
  <2> HIDE DEF n
  <2>5. AdapterOK(n)
    BY <1>5, <2>4, Zenon DEF AdapterOK
  <2>6. StreamOK(n, q, id)
    BY <1>1, <1>4, <1>5, <1>6, <2>2, <2>4, Zenon
       DEF StreamOK, BoundOK, EntryOK, PendingOK, SentOK
  <2>7. /\ Inv(n, [p EXCEPT ![id] = q])
        /\ AllFramed(m, p) => AllFramed(n, [p EXCEPT ![id] = q])
    BY <1>1, <1>4, <2>3, <2>4, <2>5, <2>6, StreamStep, Zenon
  <2>10. Kept(m, n)
    BY <2>4, Zenon DEF Kept
  <2> QED
    BY <2>7, <2>9, <2>10, Zenon DEF n
<1> QED
  BY <1>7, <1>8, <1>9, Zenon

(* What serving a stream comes to: nothing; its response is MsQuic's; or   *)
(* its response was dropped and the stream closed.                         *)
Taken(w, s, id, c) ==
    /\ id \in ActiveIds(s.table) /\ Ctx(s.table, id) = Ctx(w.table, id)
    /\ Ctx(s.table, id).phase.tag = "Processing"
    /\ s.sends[id].state = "pending" /\ s.sends[id].frame = ReadyFrame(w, id)
    /\ s.sends[id].frame.len \in 1 .. SendCapacity
    /\ s.adapter = InFlight(id, s.sends[id].frame.len)
    /\ s.sendbuf = s.sends[id].frame
    /\ s.slots[c].send_in_flight /\ s.slots[c].response_len = s.sends[id].frame.len

Refused(w, s, id, c) ==
    /\ id \notin ActiveIds(s.table)
    /\ s.sends[id] = w.sends[id]
    /\ s.adapter = Idle
    /\ ~s.slots[c].send_in_flight

ServedFrom(w, s, id, c, up) ==
    /\ Touches(w, s, id, c)
    /\ s.slots[c].in_use = w.slots[c].in_use
    /\ s.slots[c].stream_id = w.slots[c].stream_id
    /\ s.slots[c].received_fin = w.slots[c].received_fin
    /\ \/ s = w
       \/ w.adapter = Idle /\ id \in up /\ ReadyFrame(w, id).len # 0 /\ Taken(w, s, id, c)
       \/ w.adapter = Idle /\ Refused(w, s, id, c)

LEMMA ServeOutcome ==
    ASSUME NEW w, ShellOK(w), NEW id \in StreamId, NEW c \in ConnSlot, NEW up,
           NEW s, Served(w, s, id, c, up)
    PROVE  ServedFrom(w, s, id, c, up)
<1> USE DEF ServedFrom
<1> DEFINE fr == ReadyFrame(w, id)
<1>1. w.slots[c] \in ConnSlotState
  BY Zenon DEF ShellOK, ShellState
<1>2. CASE s = w
  BY <1>2, Zenon DEF Touches
<1>3. CASE w.adapter = Idle /\ fr.len # 0 /\ id \in up /\ Sent(w, s, id, c, fr)
  <2>1. /\ fr.len \in 1 .. SendCapacity
        /\ id \in ActiveIds(w.table) /\ Ctx(w.table, id).phase.tag = "Processing"
    BY <1>3, ReadyFrameType, Zenon DEF ShellOK
  <2> HIDE DEF fr
  <2>2. /\ Touches(w, s, id, c)
        /\ s.slots[c] = Busy(w.slots[c], fr.len)
        /\ s.sends[id].state = "pending" /\ s.sends[id].frame = fr
    BY <1>3, SentTouches
  <2>3. /\ s.slots[c].in_use = w.slots[c].in_use
        /\ s.slots[c].stream_id = w.slots[c].stream_id
        /\ s.slots[c].received_fin = w.slots[c].received_fin
    BY <1>1, <2>2, SlotFields
  <2>4. s.slots[c].send_in_flight /\ s.slots[c].response_len = fr.len
    BY <1>1, <2>2, SendFlags
  <2>5. s.table = w.table /\ s.adapter = InFlight(id, fr.len) /\ s.sendbuf = fr
    BY <1>3, Zenon DEF Sent, InFlight
  <2>6. Taken(w, s, id, c)
    BY <2>1, <2>2, <2>4, <2>5, Zenon DEF Taken, fr
  <2> QED
    BY <1>3, <2>2, <2>3, <2>6, Zenon DEF fr
<1>4. CASE w.adapter = Idle /\ Dropped(w, s, id, c, fr)
  <2> HIDE DEF fr
  <2>1. /\ Touches(w, s, id, c)
        /\ s.slots[c] = Cleared(w.slots[c])
        /\ ActiveIds(s.table) = ActiveIds(w.table) \ {id}
    BY <1>4, DroppedTouches
  <2>2. /\ s.slots[c].in_use = w.slots[c].in_use
        /\ s.slots[c].stream_id = w.slots[c].stream_id
        /\ s.slots[c].received_fin = w.slots[c].received_fin
    BY <1>1, <2>1, SlotFields, Zenon
  <2>3. ~s.slots[c].send_in_flight
    BY <1>1, <2>1, SendFlags
  <2>4. Refused(w, s, id, c)
    BY <1>4, <2>1, <2>3, Zenon DEF Refused, Dropped
  <2> QED
    BY <1>4, <2>1, <2>2, <2>4, Zenon
<1> QED
  BY <1>2, <1>3, <1>4, Zenon DEF Served

(* Serving a stream the table holds as ready, after its FIN: n is the      *)
(* shell that results, w the one in which it was served.                   *)
LEMMA ServedOK ==
    ASSUME NEW w, NEW n, NEW id, NEW q, Bound(q),
           q.slot \in ConnSlot, n.slots[q.slot].in_use, n.slots[q.slot].stream_id = id,
           n.slots[q.slot].received_fin, q.eof \/ q.fin,
           ~(w.sends[id].state # "none"),
           \/ Refused(w, n, id, q.slot)
           \/ /\ Taken(w, n, id, q.slot) /\ q.life = "live"
              /\ WholeQuery(q.wire) /\ ReadyFrame(w, id) = ExpectedFrame(q.wire)
    PROVE  StreamOK(n, q, id)
<1>1. CASE Refused(w, n, id, q.slot)
  BY <1>1, Zenon DEF Refused, StreamOK, BoundOK, EntryOK, PendingOK, SentOK
<1>2. CASE /\ Taken(w, n, id, q.slot) /\ q.life = "live"
           /\ WholeQuery(q.wire) /\ ReadyFrame(w, id) = ExpectedFrame(q.wire)
  <2>1. n.sends[id].state # "none" /\ n.sends[id].state # "done"
    BY <1>2, Zenon DEF Taken
  <2> QED
    BY <1>2, <2>1, Zenon DEF Taken, InFlight, StreamOK, BoundOK, EntryOK, PendingOK, SentOK
<1> QED
  BY <1>1, <1>2, Zenon

LEMMA TouchesTrans ==
    ASSUME NEW m, NEW w, NEW n, NEW id, NEW c, Touches(m, w, id, c), Touches(w, n, id, c)
    PROVE  Touches(m, n, id, c)
  BY Zenon DEF Touches

(* The FIN, handled without a protocol error: a stream becomes ready just  *)
(* when the peer sent a whole query, and holds it.                         *)
LEMMA FinFrames ==
    ASSUME NEW m, NEW q \in PeerStream, NEW id, StreamFramed(m, q, id),
           q.life = "live", ~q.stopped, ~q.reset, ~m.slots[q.slot].received_fin,
           q.pos = Len(q.wire),
           NEW ctx, Opened(m, id, ctx),
           NEW h, h = handle_stream_fin(ctx)
    PROVE  /\ WholeQuery(q.wire) => h.phase.tag = "Processing"
           /\ h.phase.tag = "Processing" =>
                 /\ WholeQuery(q.wire) /\ h.phase = Processing(Expected(q.wire))
                 /\ BodyHeld(q.wire, h.buf, Len(q.wire))
<1> DEFINE w == q.wire
<1>1. /\ ctx \in ContextWith(StreamId)
      /\ ctx.phase = WholeStreamPhase(w, Len(w)) /\ BodyHeld(w, ctx.buf, Len(w))
  <2>1. ctx \in Context
    BY Zenon DEF Opened
  <2> QED
    BY <2>1, OpenedFramed, Zenon DEF Context
<1>2. w \in Seq(Byte)
  BY Zenon DEF PeerStream
<1> HIDE DEF w
<1>3. h.phase = IF WholeQuery(w) THEN Processing(Expected(w)) ELSE Done
  BY <1>1, <1>2, FinFramed, Zenon
<1>4. h.buf = ctx.buf
  BY <1>1, FinHandler, Zenon
<1>5. Done.tag = "Done" /\ Processing(Expected(w)).tag = "Processing"
  BY Zenon DEF Done, Processing, PhaseRecord
<1> QED
  BY <1>1, <1>3, <1>4, <1>5, Zenon DEF w

(* The FIN of a stream, by either report of it.                            *)
LEMMA FinStep ==
    ASSUME NEW m, NEW p, Inv(m, p), NEW id \in StreamId,
           NEW q, Follows(p[id], q), q.eof \/ q.fin, ~p[id].reset,
           q.pos = p[id].pos, q.pos = Len(q.wire), q.stopped <=> p[id].stopped,
           NEW up, id \in up => AllFramed(m, p) /\ ~q.stopped,
           NEW r, r = on_fin(m, q.slot, up)
    PROVE  /\ Inv(r.m, [p EXCEPT ![id] = q])
           /\ AllFramed(m, p) /\ r.ok => AllFramed(r.m, [p EXCEPT ![id] = q])
           /\ Kept(m, r.m)
           /\ Proper(m, p, q) => r.ok
<1> DEFINE c == q.slot
           o == p[id]
<1>1. /\ Bound(o) /\ Bound(q) /\ q \in PeerStream /\ q.pos <= Len(q.wire)
      /\ o.life = "live" /\ q.life = "live" /\ o.slot = c /\ o.wire = q.wire
  BY Zenon DEF Bound, Follows
<1>2. /\ c \in ConnSlot /\ m.slots[c].in_use /\ m.slots[c].stream_id = id
      /\ SlotOf(m, id) = {c}
  BY <1>1, BoundSlot
<1>3. StreamOK(m, o, id) /\ ShellOK(m) /\ AdapterOK(m) /\ o \in PeerStream
  BY Zenon DEF Inv, PeerOK
<1>4. ASSUME r.m = m, Proper(m, p, q) => r.ok
      PROVE  /\ Inv(r.m, [p EXCEPT ![id] = q])
             /\ AllFramed(m, p) /\ r.ok => AllFramed(r.m, [p EXCEPT ![id] = q])
             /\ Kept(m, r.m)
             /\ Proper(m, p, q) => r.ok
  <2>1. Uncounted(p[id], q)
    BY Zenon DEF Uncounted
  <2>2. Kept(m, r.m)
    BY <1>4, Zenon DEF Kept
  <2> QED
    BY <1>4, <2>1, <2>2, PeerMoves, Zenon
<1>5. CASE m.slots[c].received_fin
  <2>1. r.m = m /\ r.ok
    BY <1>5, Zenon DEF on_fin
  <2> QED
    BY <1>4, <2>1, Zenon
<1>6. CASE ~m.slots[c].received_fin
  <2>1. /\ m.sends[id].state # "pending" /\ ~(m.sends[id].state # "none")
        /\ ~m.slots[c].send_in_flight
    BY <1>1, <1>3, <1>6, BeforeFin, Zenon
  <2>2. m.adapter.send_in_flight \/ (m.adapter = Idle /\ ~m.slots[c].send_in_flight)
    BY <1>3, <2>1, Zenon DEF AdapterOK
  <2>7. ASSUME NEW ctx, Opened(m, id, ctx), AllFramed(m, p), ~q.stopped
        PROVE  /\ WholeQuery(q.wire) => handle_stream_fin(ctx).phase.tag = "Processing"
               /\ handle_stream_fin(ctx).phase.tag = "Processing" =>
                     /\ WholeQuery(q.wire)
                     /\ handle_stream_fin(ctx).phase = Processing(Expected(q.wire))
                     /\ BodyHeld(q.wire, handle_stream_fin(ctx).buf, Len(q.wire))
    <3> DEFINE h == handle_stream_fin(ctx)
    <3>1. StreamFramed(m, o, id)
      BY <2>7, Zenon DEF AllFramed
    <3>2. ~o.stopped /\ ~o.reset /\ ~m.slots[o.slot].received_fin
      BY <1>1, <1>6, <2>7, Zenon
    <3>3. o.pos = Len(o.wire)
      BY <1>1, Zenon
    <3> HIDE DEF o, h
    <3>4. /\ WholeQuery(o.wire) => h.phase.tag = "Processing"
          /\ h.phase.tag = "Processing" =>
                /\ WholeQuery(o.wire) /\ h.phase = Processing(Expected(o.wire))
                /\ BodyHeld(o.wire, h.buf, Len(o.wire))
      BY <1>1, <1>3, <2>7, <3>1, <3>2, <3>3, FinFrames, Zenon DEF h
    <3> QED
      BY <1>1, <3>4, Zenon DEF h
  <2>3. FinOutcome(m, r, id, c, up)
    BY <1>2, <1>3, <1>6, <2>2, FinEffect, Zenon
  <2>4. CASE r.m = m /\ ~r.ok /\ NoRoom(m.table, id)
    <3>1. ~Proper(m, p, q)
      BY <1>1, <2>4, RoomFor, Zenon DEF Proper
    <3> QED
      BY <1>4, <2>4, <3>1, Zenon
  <2>5. ASSUME NEW ctx, NEW w, Opened(m, id, ctx), Wrote(m, w, id, handle_stream_fin(ctx)),
               ~r.ok, r.m = w, handle_stream_fin(ctx).phase.tag = "Done"
        PROVE  /\ Inv(r.m, [p EXCEPT ![id] = q])
               /\ AllFramed(m, p) /\ r.ok => AllFramed(r.m, [p EXCEPT ![id] = q])
               /\ Kept(m, r.m)
               /\ Proper(m, p, q) => r.ok
    <3>5. ~Proper(m, p, q)
      BY <2>5, <2>7, Zenon DEF Proper
    <3>6. Kept(m, r.m)
      BY <2>5, Zenon DEF Kept, Wrote
    <3>1. Touches(m, w, id, c)
      BY <2>5, WroteTouches, Zenon
    <3>2. /\ w.slots = m.slots /\ w.sends = m.sends
          /\ w.adapter = m.adapter /\ w.sendbuf = m.sendbuf
          /\ id \in ActiveIds(w.table) /\ Ctx(w.table, id).phase.tag # "Processing"
      BY <2>5, Zenon DEF Wrote
    <3>3. AdapterOK(w)
      BY <1>3, <3>2, Zenon DEF AdapterOK
    <3>4. StreamOK(w, q, id)
      BY <1>1, <1>2, <1>6, <2>1, <3>2, Zenon
         DEF StreamOK, BoundOK, EntryOK, PendingOK, SentOK
    <3> QED
      BY <1>1, <1>2, <2>5, <3>1, <3>2, <3>3, <3>4, <3>5, <3>6, StreamStep
  <2>6. ASSUME NEW ctx, NEW w, NEW s, Opened(m, id, ctx), Wrote(m, w, id, handle_stream_fin(ctx)),
               handle_stream_fin(ctx).phase.tag = "Processing",
               Served(w, s, id, c, up), r.m = FinnedAt(s, c)
        PROVE  /\ Inv(r.m, [p EXCEPT ![id] = q])
               /\ AllFramed(m, p) => AllFramed(r.m, [p EXCEPT ![id] = q])
               /\ Kept(m, r.m)
    <3> DEFINE h == handle_stream_fin(ctx)
               n == r.m
    <3>1. AllFramed(m, p) /\ ~q.stopped =>
              /\ WholeQuery(q.wire) /\ h.phase = Processing(Expected(q.wire))
              /\ BodyHeld(q.wire, h.buf, Len(q.wire))
      BY <2>6, <2>7, Zenon
    <3> HIDE DEF h
    <3>2. /\ Touches(m, w, id, c) /\ ShellOK(w)
          /\ w.slots = m.slots /\ w.sends = m.sends
          /\ w.adapter = m.adapter /\ w.sendbuf = m.sendbuf
          /\ id \in ActiveIds(w.table) /\ Ctx(w.table, id) = h
          /\ Ctx(w.table, id).phase.tag = "Processing"
      <4>1. Touches(m, w, id, c)
        BY <2>6, WroteTouches, Zenon
      <4> QED
        BY <2>6, <4>1, Zenon DEF Wrote, h
    <3>3. /\ Touches(w, s, id, c) /\ ShellOK(s)
          /\ s.slots[c].in_use = w.slots[c].in_use
          /\ s.slots[c].stream_id = w.slots[c].stream_id
          /\ \/ s = w
             \/ w.adapter = Idle /\ id \in up /\ ReadyFrame(w, id).len # 0 /\ Taken(w, s, id, c)
             \/ w.adapter = Idle /\ Refused(w, s, id, c)
      <4>1. ServedFrom(w, s, id, c, up)
        BY <1>2, <2>6, <3>2, ServeOutcome, Zenon
      <4> QED
        BY <4>1, Zenon DEF ServedFrom, Touches
    <3>4. /\ ShellOK(n) /\ n.table = s.table /\ n.adapter = s.adapter
          /\ n.sendbuf = s.sendbuf /\ n.sends = s.sends
          /\ n.slots[c] = Finned(s.slots[c])
          /\ \A d \in ConnSlot \ {c} : n.slots[d] = s.slots[d]
      <4>1. FinnedFrom(s, n, c)
        BY <1>2, <2>6, <3>3, FinnedState, Zenon
      <4> QED
        BY <4>1, Zenon DEF FinnedFrom
    <3> HIDE DEF n
    <3>5. /\ n.slots[c].received_fin /\ n.slots[c].in_use /\ n.slots[c].stream_id = id
          /\ n.slots[c].send_in_flight = s.slots[c].send_in_flight
          /\ n.slots[c].response_len = s.slots[c].response_len
      <4>1. s.slots[c] \in ConnSlotState
        BY <1>2, <3>3, Zenon DEF ShellOK, ShellState
      <4> QED
        BY <1>2, <3>2, <3>3, <3>4, <4>1, FinnedFields, Zenon
    <3>6. Touches(m, n, id, c)
      <4>1. Touches(s, n, id, c)
        BY <3>4, Zenon DEF Touches
      <4> QED
        BY <3>2, <3>3, <4>1, TouchesTrans, Zenon
    <3>7. /\ StreamOK(n, q, id) /\ AdapterOK(n)
          /\ id \in ActiveIds(n.table) => Ctx(n.table, id) = h
          /\ (n.adapter = m.adapter /\ n.sendbuf = m.sendbuf) \/ ~m.adapter.send_in_flight
      <4>1. CASE s = w
        <5>1. AdapterOK(n)
          BY <1>3, <3>2, <3>4, <4>1, Zenon DEF AdapterOK
        <5>2. StreamOK(n, q, id)
          BY <1>1, <1>2, <2>1, <3>2, <3>4, <3>5, <4>1, Zenon
             DEF StreamOK, BoundOK, EntryOK, PendingOK, SentOK
        <5> QED
          BY <3>2, <3>4, <4>1, <5>1, <5>2, Zenon
      <4>2. CASE w.adapter = Idle /\ Refused(w, s, id, c)
        <5>1. Refused(w, n, id, c)
          BY <3>4, <3>5, <4>2, Zenon DEF Refused
        <5>2. StreamOK(n, q, id)
          BY <1>1, <1>2, <2>1, <3>2, <3>5, <5>1, ServedOK, Zenon
        <5>3. AdapterOK(n) /\ ~m.adapter.send_in_flight
          BY <3>2, <4>2, <5>1, IdleType, Zenon DEF AdapterOK, Refused
        <5> QED
          BY <5>1, <5>2, <5>3, Zenon DEF Refused
      <4>3. CASE w.adapter = Idle /\ id \in up /\ ReadyFrame(w, id).len # 0 /\ Taken(w, s, id, c)
        <5>1. Taken(w, n, id, c)
          BY <3>4, <3>5, <4>3, Zenon DEF Taken
        <5>2. WholeQuery(q.wire) /\ ReadyFrame(w, id) = ExpectedFrame(q.wire)
          <6>1. /\ WholeQuery(q.wire) /\ h.phase = Processing(Expected(q.wire))
                /\ BodyHeld(q.wire, h.buf, Len(q.wire))
            BY <3>1, <4>3, Zenon
          <6>2. q.wire \in Seq(Byte) /\ Good(w.table)
            BY <1>1, <3>2, Zenon DEF PeerStream, ShellOK
          <6> QED
            BY <3>2, <4>3, <6>1, <6>2, ReadyFrameAnswers, Zenon
        <5>3. StreamOK(n, q, id)
          BY <1>1, <1>2, <2>1, <3>2, <3>5, <5>1, <5>2, ServedOK, Zenon
        <5>4. AdapterOK(n) /\ ~m.adapter.send_in_flight
          <6>1. /\ n.adapter.send_in_flight /\ n.adapter.send_stream_id = id
                /\ n.sends[id].state = "pending"
            BY <5>1 DEF Taken, InFlight
          <6>2. ~m.adapter.send_in_flight
            BY <3>2, <4>3, IdleType, Zenon
          <6> QED
            BY <6>1, <6>2, Zenon DEF AdapterOK
        <5> QED
          BY <3>2, <5>1, <5>3, <5>4, Zenon DEF Taken
      <4> QED
        BY <3>3, <4>1, <4>2, <4>3, Zenon
    <3>8. AllFramed(m, p) => StreamFramed(n, q, id)
      BY <3>1, <3>5, <3>7, Zenon DEF StreamFramed, FramedOK
    <3>9. /\ Inv(n, [p EXCEPT ![id] = q])
          /\ AllFramed(m, p) => AllFramed(n, [p EXCEPT ![id] = q])
      BY <1>1, <1>2, <3>5, <3>6, <3>7, <3>8, StreamStep
    <3>10. Kept(m, n)
      BY <2>1, <3>6, Zenon DEF Kept, Touches
    <3> QED
      BY <3>9, <3>10, Zenon DEF n
  <2> QED
    BY <2>3, <2>4, <2>5, <2>6, Zenon DEF FinOutcome
<1> QED
  BY <1>5, <1>6, Zenon

(* The stream with its first k bytes received.                             *)
At(o, k) == [o EXCEPT !.pos = k]

LEMMA AtFollows ==
    ASSUME NEW o \in PeerStream, o.life = "live", NEW k \in Nat, k <= Len(o.wire)
    PROVE  /\ Follows(o, At(o, k)) /\ At(o, k) \in PeerStream
           /\ At(o, k).life = "live" /\ At(o, k).pos = k
           /\ At(o, k).wire = o.wire /\ At(o, k).slot = o.slot
           /\ At(o, k).eof = o.eof /\ At(o, k).fin = o.fin
           /\ At(o, k).reset = o.reset /\ At(o, k).stopped = o.stopped
  BY Zenon DEF At, Follows, PeerStream

(* The n bytes of w after the first p.                                     *)
Piece(w, p, n) == SubSeq(w, p + 1, p + n)

(* The two buffers of a RECEIVE, as bytes of the stream.                   *)
LEMMA TwoBuffers ==
    ASSUME NEW w \in Seq(Byte), NEW p \in 0 .. Len(w), NEW n \in 0 .. Len(w) - p,
           NEW cut \in 0 .. n, NEW d, d = Piece(w, p, n)
    PROVE  /\ SubSeq(d, 1, cut) = Piece(w, p, cut)
           /\ SubSeq(d, cut + 1, n) = Piece(w, p + cut, n - cut)
<1> USE DEF Piece
<1>1. /\ d \in Seq(Byte) /\ Len(d) = n
      /\ \A k \in 1 .. n : d[k] = w[p + k]
  BY NextBytes, Zenon
<1>2. /\ p \in Nat /\ n \in Nat /\ cut \in Nat /\ Len(w) \in Nat
      /\ cut <= n /\ p + n <= Len(w) /\ n - cut \in Nat
  OBVIOUS
<1>3. SubSeq(d, 1, cut) = SubSeq(w, p + 1, p + cut)
  <2> DEFINE a == SubSeq(d, 0 + 1, 0 + cut)
             b == SubSeq(w, p + 1, p + cut)
  <2>1. 0 \in 0 .. Len(d) /\ cut \in 0 .. Len(d) - 0 /\ cut \in 0 .. Len(w) - p
    BY <1>1, <1>2
  <2>2. a \in Seq(Byte) /\ Len(a) = cut /\ \A k \in 1 .. cut : a[k] = d[0 + k]
    BY <1>1, <2>1, NextBytes
  <2>3. b \in Seq(Byte) /\ Len(b) = cut /\ \A k \in 1 .. cut : b[k] = w[p + k]
    BY <2>1, NextBytes, Zenon
  <2> HIDE DEF a, b
  <2>4. a = b
    <3>1. \A k \in 1 .. cut : 0 + k = k /\ k \in 1 .. n
      BY <1>2
    <3>2. \A k \in 1 .. cut : a[k] = b[k]
      BY <1>1, <2>2, <2>3, <3>1, Zenon
    <3> QED
      BY <2>2, <2>3, <3>2, SameSequence, Zenon
  <2>5. 0 + 1 = 1 /\ 0 + cut = cut
    BY <1>2
  <2> QED
    BY <2>4, <2>5, Zenon DEF a, b
<1>4. SubSeq(d, cut + 1, n) = SubSeq(w, (p + cut) + 1, (p + cut) + (n - cut))
  <2> DEFINE a == SubSeq(d, cut + 1, cut + (n - cut))
             b == SubSeq(w, (p + cut) + 1, (p + cut) + (n - cut))
  <2>1. cut \in 0 .. Len(d) /\ n - cut \in 0 .. Len(d) - cut
    BY <1>1, <1>2
  <2>2. p + cut \in 0 .. Len(w) /\ n - cut \in 0 .. Len(w) - (p + cut)
    BY <1>2
  <2>3. a \in Seq(Byte) /\ Len(a) = n - cut /\ \A k \in 1 .. n - cut : a[k] = d[cut + k]
    BY <1>1, <2>1, NextBytes, Zenon
  <2>4. b \in Seq(Byte) /\ Len(b) = n - cut /\ \A k \in 1 .. n - cut : b[k] = w[(p + cut) + k]
    BY <2>2, NextBytes, Zenon
  <2>5. \A k \in 1 .. n - cut : cut + k \in 1 .. n /\ p + (cut + k) = (p + cut) + k
    BY <1>2
  <2> HIDE DEF a, b
  <2>6. a = b
    BY <1>1, <1>2, <2>3, <2>4, <2>5, SameSequence
  <2>7. cut + (n - cut) = n
    BY <1>2
  <2> QED
    BY <2>6, <2>7, Zenon DEF a, b
<1> QED
  BY <1>3, <1>4, Zenon

(* A RECEIVE event: two buffers, the FIN flag, and the first failure ends  *)
(* it.                                                                     *)
LEMMA ReceiveStep ==
    ASSUME NEW m, NEW p, Inv(m, p), NEW id \in StreamId,
           NEW q, Follows(p[id], q), ~p[id].eof, ~p[id].fin, ~p[id].reset,
           q.stopped <=> p[id].stopped,
           NEW k \in Nat, q.pos = p[id].pos + k, NEW cut \in 0 .. k,
           NEW flag, flag => q.pos = Len(q.wire) /\ q.eof,
           NEW d, d = SubSeq(q.wire, p[id].pos + 1, p[id].pos + k),
           NEW up, id \in up => AllFramed(m, p) /\ ~q.stopped,
           NEW r, r = on_msquic_receive(m, q.slot, SubSeq(d, 1, cut), SubSeq(d, cut + 1, k), flag, up)
    PROVE  /\ Inv(r.m, [p EXCEPT ![id] = q])
           /\ AllFramed(m, p) /\ r.ok => AllFramed(r.m, [p EXCEPT ![id] = q])
           /\ Kept(m, r.m)
           /\ Proper(m, p, q) /\ cut <= IngressCapacity /\ k - cut <= IngressCapacity => r.ok
<1> DEFINE o == p[id]
           c == q.slot
           w == q.wire
           q1 == At(o, o.pos + cut)
           q2 == At(o, o.pos + k)
           p1 == [p EXCEPT ![id] = q1]
           p2 == [p EXCEPT ![id] = q2]
           r1 == copy_enqueue_and_dispatch(m, c, SubSeq(d, 1, cut), up)
           r2 == ThenBuffer(r1, c, SubSeq(d, cut + 1, k), up)
<1>1. o \in PeerStream /\ o.life = "live" /\ o.wire = w /\ o.slot = c /\ q.pos <= Len(w)
      /\ p \in [StreamId -> PeerStream]
  BY Zenon DEF Inv, PeerOK, Follows
<1>2. /\ o.pos \in Nat /\ w \in Seq(Byte) /\ Len(w) \in Nat
      /\ cut \in Nat /\ cut <= k /\ o.pos + k <= Len(w)
  BY <1>1 DEF PeerStream
<1>3. /\ SubSeq(d, 1, cut) = SubSeq(w, o.pos + 1, o.pos + cut)
      /\ SubSeq(d, cut + 1, k) = SubSeq(w, (o.pos + cut) + 1, (o.pos + cut) + (k - cut))
  <2>1. o.pos \in 0 .. Len(w) /\ k \in 0 .. Len(w) - o.pos
    BY <1>2
  <2>2. d = Piece(w, o.pos, k)
    BY Zenon DEF Piece
  <2> HIDE DEF o, w
  <2>3. /\ SubSeq(d, 1, cut) = Piece(w, o.pos, cut)
        /\ SubSeq(d, cut + 1, k) = Piece(w, o.pos + cut, k - cut)
    BY <1>2, <2>1, <2>2, TwoBuffers, ZenonT(40)
  <2> QED
    BY <2>3, Zenon DEF Piece
<1>4. /\ Follows(o, q1) /\ q1 \in PeerStream
      /\ q1.life = "live" /\ q1.pos = o.pos + cut /\ q1.wire = w /\ q1.slot = c
      /\ q1.eof = o.eof /\ q1.fin = o.fin /\ q1.reset = o.reset /\ q1.stopped = o.stopped
  BY <1>1, <1>2, AtFollows
<1>5. /\ Follows(o, q2) /\ q2 \in PeerStream
      /\ q2.life = "live" /\ q2.pos = o.pos + k /\ q2.wire = w /\ q2.slot = c
      /\ q2.eof = o.eof /\ q2.fin = o.fin /\ q2.reset = o.reset /\ q2.stopped = o.stopped
  BY <1>1, <1>2, AtFollows
<1> HIDE DEF q1, q2
<1>6. p1[id] = q1 /\ p2[id] = q2 /\ [p1 EXCEPT ![id] = q2] = p2 /\ [p2 EXCEPT ![id] = q] = [p EXCEPT ![id] = q]
  BY <1>1, Zenon
<1>7. Follows(q1, q2) /\ Follows(q2, q)
  BY <1>1, <1>2, <1>4, <1>5, Zenon DEF Follows
<1>8. r = ThenFin(r2, c, flag, up)
  BY Zenon DEF on_msquic_receive
<1>13. /\ \A n, x : Proper(n, x, q) <=> Proper(n, x, q1)
       /\ \A n, x : Proper(n, x, q) <=> Proper(n, x, q2)
  BY <1>4, <1>5, Zenon DEF Proper
<1>9. /\ Inv(r1.m, p1) /\ (AllFramed(m, p) /\ r1.ok => AllFramed(r1.m, p1))
      /\ Kept(m, r1.m) /\ (Proper(m, p, q) /\ cut <= IngressCapacity => r1.ok)
  <2>1. SubSeq(d, 1, cut) = SubSeq(q1.wire, o.pos + 1, o.pos + cut)
    BY <1>3, <1>4, Zenon
  <2>2. r1 = copy_enqueue_and_dispatch(m, q1.slot, SubSeq(d, 1, cut), up)
    BY <1>4, Zenon
  <2>3. q1.stopped <=> o.stopped
    BY <1>4, Zenon
  <2> HIDE DEF r1
  <2> QED
    BY <1>2, <1>4, <1>13, <2>1, <2>2, <2>3, DataStep, Zenon
<1> HIDE DEF p1, r1
<1>10. /\ Inv(r2.m, p2) /\ (AllFramed(m, p) /\ r2.ok => AllFramed(r2.m, p2))
       /\ Kept(m, r2.m)
       /\ Proper(m, p, q) /\ cut <= IngressCapacity /\ k - cut <= IngressCapacity => r2.ok
  <2>1. CASE r1.ok
    <3> DEFINE e == SubSeq(d, cut + 1, k)
    <3>1. r2 = copy_enqueue_and_dispatch(r1.m, q2.slot, e, up)
      BY <1>5, <2>1, Zenon DEF ThenBuffer
    <3>2. e = SubSeq(q2.wire, p1[id].pos + 1, p1[id].pos + (k - cut))
      BY <1>3, <1>4, <1>5, <1>6, Zenon
    <3>3. k - cut \in Nat /\ q2.pos = p1[id].pos + (k - cut)
      BY <1>2, <1>4, <1>5, <1>6
    <3>4. /\ ~p1[id].eof /\ ~p1[id].fin /\ ~p1[id].reset
          /\ q2.stopped <=> p1[id].stopped
      BY <1>4, <1>5, <1>6, Zenon
    <3>5. Follows(p1[id], q2)
      BY <1>6, <1>7, Zenon
    <3> HIDE DEF r2, e
    <3>6. /\ Inv(r2.m, [p1 EXCEPT ![id] = q2])
          /\ AllFramed(r1.m, p1) /\ r2.ok => AllFramed(r2.m, [p1 EXCEPT ![id] = q2])
          /\ Kept(r1.m, r2.m)
          /\ Proper(r1.m, p1, q2) /\ k - cut <= IngressCapacity => r2.ok
      BY <1>9, <3>1, <3>2, <3>3, <3>4, <3>5, DataStep, Zenon
    <3>7. Kept(m, r2.m)
      BY <1>9, <3>6, KeptTrans, Zenon
    <3>8. Proper(m, p, q) => Proper(r1.m, p1, q2)
      BY <1>9, <1>13, <2>1, Zenon DEF Proper
    <3> QED
      BY <1>6, <1>9, <2>1, <3>6, <3>7, <3>8, Zenon
  <2>2. CASE ~r1.ok
    <3>1. r2 = r1
      BY <2>2, Zenon DEF ThenBuffer
    <3>2. Inv(r1.m, [p1 EXCEPT ![id] = q2])
      BY <1>6, <1>7, <1>9, PeerMoves, Zenon
    <3> QED
      BY <1>6, <1>9, <2>2, <3>1, <3>2, Zenon
  <2> QED
    BY <2>1, <2>2, Zenon
<1> HIDE DEF p2, r2
<1>11. CASE r2.ok /\ flag
  <2>1. r = on_fin(r2.m, q.slot, up)
    BY <1>8, <1>11, Zenon DEF ThenFin
  <2>2. /\ ~p2[id].reset /\ q.pos = p2[id].pos /\ q.pos = Len(q.wire)
        /\ q.stopped <=> p2[id].stopped
        /\ q.eof \/ q.fin
    BY <1>5, <1>6, <1>11, Zenon
  <2>3. id \in up => AllFramed(r2.m, p2) /\ ~q.stopped
    BY <1>10, <1>11, Zenon
  <2>4. Follows(p2[id], q)
    BY <1>6, <1>7, Zenon
  <2>5. /\ Inv(r.m, [p2 EXCEPT ![id] = q])
        /\ AllFramed(r2.m, p2) /\ r.ok => AllFramed(r.m, [p2 EXCEPT ![id] = q])
        /\ Kept(r2.m, r.m)
        /\ Proper(r2.m, p2, q) => r.ok
    BY <1>10, <2>1, <2>2, <2>3, <2>4, FinStep, Zenon
  <2>6. Kept(m, r.m)
    BY <1>10, <2>5, KeptTrans, Zenon
  <2>7. Proper(m, p, q) => Proper(r2.m, p2, q)
    BY <1>10, <1>11, Zenon DEF Proper
  <2> QED
    BY <1>6, <1>10, <1>11, <2>5, <2>6, <2>7, Zenon
<1>12. CASE ~(r2.ok /\ flag)
  <2>1. r = r2
    BY <1>8, <1>12, Zenon DEF ThenFin
  <2>2. Uncounted(p2[id], q)
    BY <1>5, <1>6, Zenon DEF Uncounted
  <2>3. Follows(p2[id], q)
    BY <1>6, <1>7, Zenon
  <2>4. /\ Inv(r2.m, [p2 EXCEPT ![id] = q])
        /\ AllFramed(r2.m, p2) => AllFramed(r2.m, [p2 EXCEPT ![id] = q])
    BY <1>10, <2>2, <2>3, PeerMoves, Zenon
  <2> QED
    BY <1>6, <1>10, <2>1, <2>4, Zenon
<1> QED
  BY <1>11, <1>12, Zenon
=============================================================================
