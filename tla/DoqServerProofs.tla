-------------------------- MODULE DoqServerProofs ---------------------------
(***************************************************************************)
(* The server's invariants, for every table capacity, number of stream     *)
(* slots, queue and buffer capacity, every set of streams and everything   *)
(* the peer may send on them, however it is cut.                           *)
(*                                                                         *)
(* The theorems assume StageLimit = 0: events are staged by the shell's    *)
(* own callbacks only, which dispatch what they staged before they return, *)
(* so the queue is empty between callbacks.                                *)
(***************************************************************************)
EXTENDS DoqRuntimeProofs

----------------------------------------------------------------------------
(* The other callbacks of a live stream.                                   *)

LEMMA SamePeer ==
    ASSUME NEW m, NEW p, Inv(m, p), NEW id \in StreamId
    PROVE  /\ [p EXCEPT ![id] = p[id]] = p
           /\ p[id] \in PeerStream /\ p[id].pos <= Len(p[id].wire)
           /\ StreamOK(m, p[id], id) /\ ShellOK(m) /\ AdapterOK(m)
<1>1. p \in [StreamId -> PeerStream]
  BY Zenon DEF Inv, PeerOK
<1> QED
  BY <1>1, Zenon DEF Inv, PeerOK

(* StreamSend may accept a response on the stream only while its peer      *)
(* listens and no protocol error was reported.                             *)
MaySend(m, p, id, up) ==
    id \in up => AllFramed(m, p) /\ p[id].life = "live" /\ ~p[id].stopped

(* What serving a ready stream does to the invariant.                      *)
LEMMA ServedStep ==
    ASSUME NEW m, NEW p, Inv(m, p), NEW id \in StreamId,
           NEW q, p[id] = q, NEW c, q.slot = c,
           ShellOK(m), StreamOK(m, q, id), Bound(q), q.eof \/ q.fin,
           c \in ConnSlot,
           m.slots[c].received_fin, id \in ActiveIds(m.table),
           ~m.adapter.send_in_flight, ~(m.sends[id].state # "none"),
           NEW up, MaySend(m, p, id, up),
           NEW n, Served(m, n, id, c, up)
    PROVE  Inv(n, p) /\ (AllFramed(m, p) => AllFramed(n, p)) /\ Kept(m, n)
<1>1. /\ [p EXCEPT ![id] = q] = p /\ q \in PeerStream /\ q.pos <= Len(q.wire)
  BY SamePeer, Zenon
<1>2. /\ Touches(m, n, id, c)
      /\ n.slots[c].in_use = m.slots[c].in_use
      /\ n.slots[c].stream_id = m.slots[c].stream_id
      /\ \/ n = m
         \/ m.adapter = Idle /\ id \in up /\ ReadyFrame(m, id).len # 0 /\ Taken(m, n, id, c)
         \/ m.adapter = Idle /\ Refused(m, n, id, c)
  BY ServeOutcome DEF ServedFrom
<1>0. m.slots[c].in_use /\ m.slots[c].stream_id = id
  BY BoundSlot
<1>3. n.slots[c].in_use /\ n.slots[c].stream_id = id /\ n.slots[c].received_fin
  <2>1. n.slots[c].received_fin = m.slots[c].received_fin
    BY ServeOutcome, Zenon DEF ServedFrom
  <2> QED
    BY <1>0, <1>2, <2>1, Zenon
<1> SUFFICES Inv(n, p) /\ (AllFramed(m, p) => AllFramed(n, p))
  BY <1>2, Zenon DEF Kept, Touches
<1>4. CASE n = m
  BY <1>4, Zenon
<1>5. CASE Refused(m, n, id, c)
  <2>1. StreamOK(n, q, id)
    BY <1>3, <1>5, ServedOK, Zenon
  <2>2. AdapterOK(n) /\ id \notin ActiveIds(n.table)
    BY <1>5, IdleType, Zenon DEF AdapterOK, Refused
  <2>3. StreamFramed(n, q, id)
    BY <1>3, <2>2, Zenon DEF StreamFramed, FramedOK
  <2>4. /\ Inv(n, [p EXCEPT ![id] = q])
        /\ AllFramed(m, p) => AllFramed(n, [p EXCEPT ![id] = q])
    BY <1>0, <1>1, <1>2, <1>3, <2>1, <2>2, <2>3, StreamStep, Zenon
  <2> QED
    BY <1>1, <2>4, Zenon
<1>6. CASE id \in up /\ ReadyFrame(m, id).len # 0 /\ Taken(m, n, id, c)
  <2>1. StreamFramed(m, q, id) /\ q.life = "live" /\ ~q.stopped
    BY <1>6, Zenon DEF AllFramed, MaySend
  <2>2. /\ WholeQuery(q.wire) /\ Ctx(m.table, id).phase = Processing(Expected(q.wire))
        /\ BodyHeld(q.wire, Ctx(m.table, id).buf, Len(q.wire))
    BY <2>1, Zenon DEF StreamFramed, FramedOK
  <2>3. ReadyFrame(m, id) = ExpectedFrame(q.wire)
    <3>1. q.wire \in Seq(Byte) /\ Good(m.table)
      BY <1>1, Zenon DEF PeerStream, ShellOK
    <3> QED
      BY <1>6, <2>2, <3>1, ReadyFrameAnswers, Zenon
  <2>4. StreamOK(n, q, id)
    BY <1>3, <1>6, <2>1, <2>2, <2>3, ServedOK, Zenon
  <2>5. AdapterOK(n)
    <3>1. n.adapter.send_in_flight /\ n.adapter.send_stream_id = id /\ n.sends[id].state = "pending"
      <4>1. n.adapter = InFlight(id, n.sends[id].frame.len) /\ n.sends[id].state = "pending"
        BY <1>6, Zenon DEF Taken
      <4>2. \A len : InFlight(id, len).send_in_flight /\ InFlight(id, len).send_stream_id = id
        BY Zenon DEF InFlight
      <4> QED
        BY <4>1, <4>2, Zenon
    <3> QED
      BY <3>1, Zenon DEF AdapterOK
  <2>6. StreamFramed(n, q, id)
    BY <1>3, <1>6, <2>2, Zenon DEF StreamFramed, FramedOK, Taken
  <2>7. /\ Inv(n, [p EXCEPT ![id] = q])
        /\ AllFramed(m, p) => AllFramed(n, [p EXCEPT ![id] = q])
    BY <1>0, <1>1, <1>2, <1>3, <2>4, <2>5, <2>6, StreamStep
  <2> QED
    BY <1>1, <2>7, Zenon
<1> QED
  BY <1>2, <1>4, <1>5, <1>6, Zenon

(* A ready stream, served by the scheduler.                                *)
AfterReady(m, id, up) ==
    EnqueueAndDispatch(m, Event("READY", id, <<>>, 0, FALSE), up).m

LEMMA ServeStep ==
    ASSUME NEW m, NEW p, Inv(m, p), NEW id \in StreamId,
           NEW q, p[id] = q, NEW c, q.slot = c,
           id \in ActiveIds(m.table), Ctx(m.table, id).phase.tag = "Processing",
           ~m.adapter.send_in_flight,
           NEW up, MaySend(m, p, id, up),
           NEW n, n = AfterReady(m, id, up)
    PROVE  Inv(n, p) /\ (AllFramed(m, p) => AllFramed(n, p)) /\ Kept(m, n)
<1>1. StreamOK(m, q, id) /\ ShellOK(m) /\ AdapterOK(m)
  BY SamePeer, Zenon
<1>0. ShellOK(m)
  BY <1>1, Zenon
<1>2. Bound(q) /\ m.slots[c].received_fin
  BY <1>1, Zenon DEF StreamOK, EntryOK
<1>3. q.eof \/ q.fin
  BY <1>1, <1>2, Zenon DEF StreamOK, BoundOK
<1>4. /\ c \in ConnSlot /\ m.slots[c].in_use /\ m.slots[c].stream_id = id
      /\ SlotOf(m, id) = {c}
  BY <1>2, BoundSlot
<1>5. m.adapter = Idle
  BY <1>1, Zenon DEF AdapterOK
<1>6. m.sends[id].state # "pending"
  BY <1>1, PendingView, Zenon
<1>7. /\ ~m.slots[c].send_in_flight
      /\ ~(m.sends[id].state # "none")
  <2>1. ~m.slots[c].send_in_flight
    BY <1>1, <1>2, <1>6, Zenon DEF StreamOK, BoundOK
  <2>2. m.sends[id].state # "done"
    <3>1. m.sends[id].state = "done" => m.sends[id].state # "none"
      OBVIOUS
    <3> QED
      BY <1>1, <3>1, Zenon DEF StreamOK, SentOK
  <2>3. m.sends[id].state \in {"none", "pending", "done"}
    BY <1>1, Zenon DEF ShellOK, ShellState, Send
  <2> QED
    BY <1>6, <2>1, <2>2, <2>3, Zenon
<1>8. n = prepare_ready_response(m, id, up).m
  <2>1. n = dispatch_event(m, Event("READY", id, <<>>, 0, FALSE), up).m
    BY <1>1, Direct, Zenon DEF ShellOK, AfterReady
  <2> QED
    BY <2>1, Zenon DEF dispatch_event, Event
<1>9. Served(m, n, id, c, up)
  <2>1. \/ n = m
        \/ /\ ReadyFrame(m, id).len # 0
           /\ \/ id \in up /\ Sent(m, n, id, c, ReadyFrame(m, id))
              \/ Dropped(m, n, id, c, ReadyFrame(m, id))
    BY <1>0, <1>4, <1>5, <1>7, <1>8, Serve, Zenon
  <2> QED
    BY <1>5, <2>1, Zenon DEF Served
<1> QED
  BY <1>0, <1>1, <1>2, <1>3, <1>4, <1>7, <1>9, ServedStep, Zenon


(* MsQuic completes a response.                                            *)
LEMMA CompletedStep ==
    ASSUME NEW m, NEW p, Inv(m, p), NEW id \in StreamId,
           NEW q, p[id] = q, NEW c, q.slot = c,
           m.sends[id].state = "pending",
           NEW n, Touches(m, n, id, c), id \notin ActiveIds(n.table), n.adapter = Idle,
           n.slots[c] = Cleared(m.slots[c]),
           n.sends[id].state = "done", n.sends[id].frame = m.sends[id].frame
    PROVE  Inv(n, p) /\ (AllFramed(m, p) => AllFramed(n, p))
<1>1. StreamOK(m, q, id) /\ ShellOK(m)
  BY SamePeer, Zenon
<1>2. [p EXCEPT ![id] = q] = p /\ q \in PeerStream /\ q.pos <= Len(q.wire)
  BY SamePeer, Zenon
<1>3. Bound(q) /\ m.adapter.send_in_flight /\ m.adapter.send_stream_id = id
  BY <1>1, PendingView
<1>4. c \in ConnSlot /\ m.slots[c].in_use /\ m.slots[c].stream_id = id
  BY <1>3, BoundSlot
<1>5. /\ q.life # "idle"
      /\ WholeQuery(q.wire) /\ m.sends[id].frame = ExpectedFrame(q.wire)
      /\ m.slots[c].received_fin
  <2>1. m.sends[id].state # "none"
    OBVIOUS
  <2> QED
    BY <1>1, <1>3, <2>1, Zenon DEF StreamOK, SentOK
<1>6. q.eof \/ q.fin
  BY <1>1, <1>3, <1>5, Zenon DEF StreamOK, BoundOK
<1>7. /\ n.slots[c].in_use /\ n.slots[c].stream_id = id /\ n.slots[c].received_fin
      /\ ~n.slots[c].send_in_flight
  <2>1. m.slots[c] \in ConnSlotState
    BY <1>1, <1>4, Zenon DEF ShellOK, ShellState
  <2>2. /\ n.slots[c].in_use = m.slots[c].in_use
        /\ n.slots[c].stream_id = m.slots[c].stream_id
        /\ n.slots[c].received_fin = m.slots[c].received_fin
    BY <2>1, SlotFields
  <2>3. ~n.slots[c].send_in_flight
    BY <2>1, SendFlags, Zenon
  <2> QED
    BY <1>4, <1>5, <2>2, <2>3, Zenon
<1>8. StreamOK(n, q, id)
  BY <1>3, <1>4, <1>5, <1>6, <1>7, Zenon DEF StreamOK, BoundOK, EntryOK, PendingOK, SentOK
<1>9. AdapterOK(n)
  BY IdleType, Zenon DEF AdapterOK
<1>10. StreamFramed(n, q, id)
  BY <1>7, Zenon DEF StreamFramed, FramedOK
<1>11. /\ Inv(n, [p EXCEPT ![id] = q])
       /\ AllFramed(m, p) => AllFramed(n, [p EXCEPT ![id] = q])
  BY <1>2, <1>3, <1>4, <1>7, <1>8, <1>9, <1>10, StreamStep, Zenon
<1> QED
  BY <1>2, <1>11, Zenon

(* The response on id is over, and nobody's bytes changed.                 *)
GivenBack(m, n, id) ==
    /\ n.sends[id].frame = m.sends[id].frame
    /\ \A j \in StreamId \ {id} : n.sends[j] = m.sends[j]

LEMMA CompleteStep ==
    ASSUME NEW m, NEW p, Inv(m, p), NEW id \in StreamId, NEW canceled, NEW up,
           m.sends[id].state = "pending",
           NEW n, n = AfterComplete(m, id, p[id].slot, canceled, up)
    PROVE  /\ Inv(n, p) /\ (AllFramed(m, p) => AllFramed(n, p))
           /\ GivenBack(m, n, id)
<1> DEFINE c == p[id].slot
<1>1. StreamOK(m, p[id], id) /\ ShellOK(m)
  BY SamePeer, Zenon
<1>2. /\ Bound(p[id]) /\ m.slots[c].send_in_flight
      /\ m.slots[c].response_len \in 1 .. SendCapacity
      /\ m.adapter = InFlight(id, m.slots[c].response_len)
  BY <1>1, PendingView, Zenon
<1>3. c \in ConnSlot /\ m.slots[c].stream_id = id
  BY <1>2, BoundSlot
<1>4. /\ Touches(m, n, id, c) /\ id \notin ActiveIds(n.table) /\ n.adapter = Idle
      /\ n.slots[c] = Cleared(m.slots[c])
      /\ n.sends[id].state = "done" /\ n.sends[id].frame = m.sends[id].frame
  BY <1>1, <1>2, <1>3, CompleteEffect
<1>5. GivenBack(m, n, id)
  BY <1>4, Zenon DEF Touches, GivenBack
<1> QED
  BY <1>4, <1>5, CompletedStep

(* A reset of a stream that has its slot: deferred to the completion of    *)
(* its own send, refused while another stream's send is in flight, or      *)
(* closing the table entry.                                                *)
LEMMA ResetOutcome ==
    ASSUME NEW m, NEW p, Inv(m, p), NEW id \in StreamId, Bound(p[id]),
           NEW c, c = p[id].slot, NEW up, NEW r, r = on_stream_reset(m, c, up)
    PROVE  \/ /\ m.slots[c].send_in_flight /\ r.ok
              /\ r.m = WithSlot(m, c, Deferred(m.slots[c]))
           \/ /\ m.adapter.send_in_flight /\ ~r.ok
              /\ r.m = m
           \/ /\ ~m.adapter.send_in_flight /\ r.ok
              /\ \E t \in Closings(m.table, id, ReadingLength) : r.m = ClosedIn(m, t)
<1>1. StreamOK(m, p[id], id) /\ ShellOK(m) /\ AdapterOK(m)
  BY SamePeer, Zenon
<1>2. c \in ConnSlot /\ m.slots[c].stream_id = id
  BY BoundSlot
<1>3. m.adapter.send_in_flight \/ m.adapter = Idle
  BY <1>1, Zenon DEF AdapterOK
<1>4. m.adapter.send_in_flight /\ m.adapter.send_stream_id = id => m.slots[c].send_in_flight
  <2> SUFFICES ASSUME m.adapter.send_in_flight, m.adapter.send_stream_id = id
               PROVE  m.slots[c].send_in_flight
    OBVIOUS
  <2>1. m.sends[id].state = "pending"
    BY <1>1, Zenon DEF AdapterOK
  <2> QED
    BY <1>1, <2>1, PendingView, Zenon
<1> QED
  BY <1>1, <1>2, <1>3, <1>4, ResetEffect

(* A reset gives MsQuic nothing and takes nothing back.                    *)
LEMMA ResetSends ==
    ASSUME NEW m, NEW p, Inv(m, p), NEW id \in StreamId, Bound(p[id]),
           NEW up, NEW r, r = on_stream_reset(m, p[id].slot, up)
    PROVE  r.m.sends = m.sends
<1> DEFINE c == p[id].slot
<1>1. ShellOK(m) /\ c \in ConnSlot
  BY SamePeer, BoundSlot, Zenon
<1>2. CASE r.m = WithSlot(m, c, Deferred(m.slots[c]))
  BY <1>1, <1>2, Zenon DEF WithSlot, ShellOK, ShellState
<1>3. ASSUME NEW t, r.m = ClosedIn(m, t) PROVE r.m.sends = m.sends
  BY <1>1, <1>3, Zenon DEF ClosedIn, ShellOK, ShellState
<1> QED
  BY <1>2, <1>3, ResetOutcome

LEMMA DeferStep ==
    ASSUME NEW m, NEW p, Inv(m, p), NEW id \in StreamId, Bound(p[id]),
           NEW q, p[id] = q, NEW c, q.slot = c,
           NEW n, ShellOK(n), n.table = m.table, n.adapter = m.adapter,
           n.sendbuf = m.sendbuf, n.sends = m.sends,
           n.slots[c] = Deferred(m.slots[c]),
           \A d \in ConnSlot \ {c} : n.slots[d] = m.slots[d]
    PROVE  Inv(n, p) /\ (AllFramed(m, p) => AllFramed(n, p))
<1>1. StreamOK(m, q, id) /\ ShellOK(m) /\ AdapterOK(m)
  BY SamePeer, Zenon
<1>2. [p EXCEPT ![id] = q] = p /\ q \in PeerStream /\ q.pos <= Len(q.wire)
  BY SamePeer, Zenon
<1>3. c \in ConnSlot /\ m.slots[c].in_use /\ m.slots[c].stream_id = id
  BY BoundSlot
<1>4. m.slots[c] \in ConnSlotState
  BY <1>1, <1>3, Zenon DEF ShellOK, ShellState
<1>6. /\ n.slots[c].in_use = m.slots[c].in_use /\ n.slots[c].stream_id = m.slots[c].stream_id
      /\ n.slots[c].received_fin = m.slots[c].received_fin
      /\ n.slots[c].send_in_flight = m.slots[c].send_in_flight
      /\ n.slots[c].response_len = m.slots[c].response_len
  BY <1>4, SlotFields, SendFlags
<1>7. Touches(m, n, id, c)
  BY Zenon DEF Touches
<1>8. StreamOK(n, q, id)
  BY <1>1, <1>6, Zenon DEF StreamOK, BoundOK, EntryOK, PendingOK, SentOK
<1>9. AdapterOK(n)
  BY <1>1, Zenon DEF AdapterOK
<1>10. StreamFramed(m, q, id) => StreamFramed(n, q, id)
  <2>1. n.slots[q.slot].received_fin <=> m.slots[q.slot].received_fin
    BY <1>6, Zenon
  <2> QED
    BY <2>1, Zenon DEF StreamFramed, FramedOK
<1>11. /\ Inv(n, [p EXCEPT ![id] = q])
       /\ AllFramed(m, p) /\ StreamFramed(n, q, id) => AllFramed(n, [p EXCEPT ![id] = q])
  BY <1>2, <1>3, <1>6, <1>7, <1>8, <1>9, StreamStep
<1>12. AllFramed(m, p) => StreamFramed(m, q, id)
  BY Zenon DEF AllFramed
<1> QED
  BY <1>2, <1>10, <1>11, <1>12, Zenon

LEMMA CloseStep ==
    ASSUME NEW m, NEW p, Inv(m, p), NEW id \in StreamId, Bound(p[id]),
           NEW q, p[id] = q, NEW c, q.slot = c,
           ~m.adapter.send_in_flight,
           NEW t \in Closings(m.table, id, ReadingLength), NEW n, n = ClosedIn(m, t)
    PROVE  /\ Inv(n, p)
           /\ AllFramed(m, p) /\ (q.life # "live" \/ q.reset \/ q.stopped) => AllFramed(n, p)
           /\ id \notin ActiveIds(n.table) /\ n.sends = m.sends
<1>1. StreamOK(m, q, id) /\ ShellOK(m)
  BY SamePeer, Zenon
<1>2. [p EXCEPT ![id] = q] = p /\ q \in PeerStream /\ q.pos <= Len(q.wire)
  BY SamePeer, Zenon
<1>3. c \in ConnSlot /\ m.slots[c].in_use /\ m.slots[c].stream_id = id
  BY BoundSlot
<1>4. /\ ShellOK(n)
      /\ ActiveIds(n.table) = ActiveIds(m.table) \ {id}
      /\ \A j \in ActiveIds(n.table) : Ctx(n.table, j) = Ctx(m.table, j)
      /\ n.adapter = Idle
      /\ n.sendbuf = m.sendbuf /\ n.slots = m.slots /\ n.sends = m.sends
  BY <1>1, EntryClosed
<1>5. Touches(m, n, id, c)
  BY <1>4, Zenon DEF Touches
<1>6. m.sends[id].state # "pending" /\ id \notin ActiveIds(n.table)
  BY <1>1, <1>4, PendingView, Zenon
<1>7. StreamOK(n, q, id)
  BY <1>1, <1>4, <1>6, Zenon DEF StreamOK, BoundOK, EntryOK, PendingOK, SentOK
<1>8. AdapterOK(n)
  BY <1>4, IdleType, Zenon DEF AdapterOK
<1>9. ASSUME q.life # "live" \/ q.reset \/ q.stopped
      PROVE  StreamFramed(n, q, id)
  BY <1>6, <1>9, Zenon DEF StreamFramed, FramedOK
<1>10. /\ Inv(n, [p EXCEPT ![id] = q])
       /\ AllFramed(m, p) /\ StreamFramed(n, q, id) => AllFramed(n, [p EXCEPT ![id] = q])
  BY <1>2, <1>3, <1>4, <1>5, <1>7, <1>8, StreamStep, Zenon
<1> QED
  BY <1>2, <1>4, <1>6, <1>9, <1>10, Zenon

(* The peer abandons one direction of a stream.                            *)
LEMMA ResetStep ==
    ASSUME NEW m, NEW p, Inv(m, p), NEW id \in StreamId, Bound(p[id]),
           p[id].reset \/ p[id].stopped,
           NEW up, NEW r, r = on_stream_reset(m, p[id].slot, up)
    PROVE  Inv(r.m, p) /\ (AllFramed(m, p) => AllFramed(r.m, p))
<1> DEFINE c == p[id].slot
           n == r.m
<1>1. CASE n = WithSlot(m, c, Deferred(m.slots[c]))
  <2>1. ShellOK(m) /\ c \in ConnSlot
    BY SamePeer, BoundSlot, Zenon
  <2> HIDE DEF n, c
  <2>2. Deferred(m.slots[c]) \in ConnSlotState
    <3>1. m.slots[c] \in ConnSlotState
      BY <2>1, Zenon DEF ShellOK, ShellState
    <3> QED
      BY <3>1, SlotStates, NoLength, Zenon
  <2>3. /\ ShellOK(n) /\ n.table = m.table /\ n.adapter = m.adapter
        /\ n.sendbuf = m.sendbuf /\ n.sends = m.sends
        /\ n.slots[c] = Deferred(m.slots[c])
        /\ \A d \in ConnSlot \ {c} : n.slots[d] = m.slots[d]
    BY <1>1, <2>1, <2>2, SlotReplaced
  <2>4. p[id].slot = c
    BY Zenon DEF c
  <2>5. Inv(n, p) /\ (AllFramed(m, p) => AllFramed(n, p))
    BY <2>3, <2>4, DeferStep
  <2> QED
    BY <2>5, Zenon DEF n
<1>2. CASE n = m
  BY <1>2, Zenon
<1>3. ASSUME ~m.adapter.send_in_flight,
             NEW t \in Closings(m.table, id, ReadingLength), n = ClosedIn(m, t)
      PROVE  Inv(n, p) /\ (AllFramed(m, p) => AllFramed(n, p))
  <2> HIDE DEF n
  <2> QED
    BY <1>3, CloseStep, Zenon
<1> QED
  BY <1>1, <1>2, <1>3, ResetOutcome

----------------------------------------------------------------------------
(* The end and the start of a stream.                                      *)

(* SHUTDOWN_COMPLETE is the stream's last event.                           *)
LEMMA ShutStep ==
    ASSUME NEW m, NEW p, Inv(m, p), NEW id \in StreamId, p[id].life = "live",
           m.sends[id].state # "pending",
           NEW q, q = WithLife(p[id], "shut")
    PROVE  /\ Inv(m, [p EXCEPT ![id] = q])
           /\ AllFramed(m, p) => AllFramed(m, [p EXCEPT ![id] = q])
<1> DEFINE o == p[id]
           c == o.slot
<1>1. StreamOK(m, o, id) /\ ShellOK(m) /\ AdapterOK(m) /\ o \in PeerStream /\ o.pos <= Len(o.wire)
  BY SamePeer, Zenon
<1>2. /\ q \in PeerStream /\ q.life = "shut" /\ q.slot = c /\ q.wire = o.wire
      /\ q.pos = o.pos /\ (q.eof <=> o.eof) /\ (q.fin <=> o.fin)
  BY <1>1, LifeFields
<1>3. Bound(o) /\ Bound(q) /\ q.pos <= Len(q.wire)
  BY <1>1, <1>2, Zenon DEF Bound
<1>4. m.slots[c].stream_id = id
  BY <1>3, BoundSlot
<1>5. StreamOK(m, q, id)
  BY <1>1, <1>2, <1>3, Zenon DEF StreamOK, BoundOK, EntryOK, PendingOK, SentOK
<1>6. StreamFramed(m, q, id)
  BY <1>2, Zenon DEF StreamFramed, FramedOK
<1>7. Touches(m, m, id, c)
  BY <1>1, Zenon DEF Touches
<1> HIDE DEF c, o
<1>8. Bound(p[id]) => p[id].slot = c
  BY Zenon DEF o, c
<1> QED
  BY <1>1, <1>2, <1>3, <1>4, <1>5, <1>6, <1>7, <1>8, StreamStep, Zenon

(* The slot is released once its table entry is gone.                      *)
LEMMA ReleaseStep ==
    ASSUME NEW m, NEW p, Inv(m, p), NEW id \in StreamId, Bound(p[id]),
           m.sends[id].state # "pending", id \notin ActiveIds(m.table),
           NEW q, q = WithLife(p[id], "closed"),
           NEW n, n = WithSlot(m, p[id].slot, FreeSlot)
    PROVE  /\ Inv(n, [p EXCEPT ![id] = q])
           /\ AllFramed(m, p) => AllFramed(n, [p EXCEPT ![id] = q])
<1> DEFINE o == p[id]
           c == o.slot
<1>1. StreamOK(m, o, id) /\ ShellOK(m) /\ AdapterOK(m) /\ o \in PeerStream /\ o.pos <= Len(o.wire)
  BY SamePeer, Zenon
<1>2. /\ q \in PeerStream /\ q.life = "closed" /\ q.slot = c /\ q.wire = o.wire
      /\ q.pos = o.pos
  BY <1>1, LifeFields
<1>3. ~Bound(q) /\ q.pos <= Len(q.wire)
  BY <1>1, <1>2, Zenon DEF Bound
<1>4. c \in ConnSlot /\ m.slots[c].stream_id = id
  BY BoundSlot
<1>5. /\ ShellOK(n) /\ n.table = m.table /\ n.adapter = m.adapter
      /\ n.sendbuf = m.sendbuf /\ n.sends = m.sends
      /\ n.slots[c] = FreeSlot
      /\ \A d \in ConnSlot \ {c} : n.slots[d] = m.slots[d]
  BY <1>1, <1>4, FreeSlotType, SlotReplaced
<1>6. StreamOK(n, q, id)
  BY <1>1, <1>2, <1>3, <1>5, Zenon DEF StreamOK, BoundOK, EntryOK, PendingOK, SentOK
<1>7. StreamFramed(n, q, id)
  BY <1>2, Zenon DEF StreamFramed, FramedOK
<1>8. Touches(m, n, id, c)
  BY <1>5, Zenon DEF Touches
<1>9. AdapterOK(n) /\ ~n.slots[c].in_use
  BY <1>1, <1>5, FreeSlotType, Zenon DEF AdapterOK
<1> HIDE DEF c, o
<1>10. Bound(p[id]) => p[id].slot = c
  BY Zenon DEF o, c
<1> QED
  BY <1>2, <1>3, <1>4, <1>5, <1>6, <1>7, <1>8, <1>9, <1>10, StreamStep

(* The handle is closed and the slot released when the reset is accepted;  *)
(* it is refused only while another stream's send is in flight.            *)
LEMMA ShutdownStep ==
    ASSUME NEW m, NEW p, Inv(m, p), NEW id \in StreamId, p[id].life = "live",
           m.sends[id].state # "pending",
           NEW up, NEW r, r = on_stream_reset(m, p[id].slot, up),
           NEW n, n = IF r.ok THEN release_slot(r.m, p[id].slot) ELSE r.m,
           NEW q, q = WithLife(p[id], IF r.ok THEN "closed" ELSE "shut")
    PROVE  /\ Inv(n, [p EXCEPT ![id] = q])
           /\ AllFramed(m, p) => AllFramed(n, [p EXCEPT ![id] = q])
           /\ StreamId = {id} => r.ok
           /\ Kept(m, n)
<1> DEFINE o == WithLife(p[id], "shut")
           P == [p EXCEPT ![id] = o]
           c == p[id].slot
<1>1. Inv(m, P) /\ (AllFramed(m, p) => AllFramed(m, P))
  BY ShutStep, Zenon
<1>2. /\ StreamOK(m, p[id], id) /\ ShellOK(m) /\ AdapterOK(m)
      /\ p[id] \in PeerStream /\ p \in [StreamId -> PeerStream]
  BY SamePeer, Zenon DEF Inv, PeerOK
<1>3. o.life = "shut" /\ o.slot = c
  BY <1>2, LifeFields
<1>4. P[id] = o /\ Bound(P[id]) /\ P[id].slot = c /\ P[id].life # "live"
  BY <1>2, <1>3, Zenon DEF Bound
<1>5. ~m.slots[c].send_in_flight
  <2>1. Bound(p[id])
    BY Zenon DEF Bound
  <2> QED
    BY <1>2, <2>1, Zenon DEF StreamOK, BoundOK
<1>6. StreamId = {id} => ~m.adapter.send_in_flight
  <2> SUFFICES ASSUME StreamId = {id}, m.adapter.send_in_flight PROVE FALSE
    OBVIOUS
  <2>1. m.adapter.send_stream_id \in StreamId
    BY <1>2, Zenon DEF ShellOK, ShellState, Adapter
  <2> QED
    BY <1>2, <2>1, Zenon DEF AdapterOK
<1>7. \/ m.adapter.send_in_flight /\ ~r.ok /\ r.m = m
      \/ /\ ~m.adapter.send_in_flight /\ r.ok
         /\ \E t \in Closings(m.table, id, ReadingLength) : r.m = ClosedIn(m, t)
  <2> HIDE DEF P, c
  <2>1. r = on_stream_reset(m, c, up)
    BY Zenon DEF c
  <2> QED
    BY <1>1, <1>4, <1>5, <2>1, ResetOutcome
<1>8. CASE m.adapter.send_in_flight /\ ~r.ok /\ r.m = m
  <2>1. n = m /\ q = o
    BY <1>8, Zenon
  <2> QED
    BY <1>1, <1>6, <1>8, <2>1, Zenon DEF Kept
<1>9. ASSUME ~m.adapter.send_in_flight, r.ok,
             NEW t \in Closings(m.table, id, ReadingLength), r.m = ClosedIn(m, t)
      PROVE  /\ Inv(n, [p EXCEPT ![id] = q])
             /\ AllFramed(m, p) => AllFramed(n, [p EXCEPT ![id] = q])
             /\ Kept(m, n)
  <2> DEFINE k == r.m
  <2>1. n = WithSlot(k, c, FreeSlot)
    BY <1>9, Zenon DEF release_slot, WithSlot
  <2>2. q = WithLife(o, "closed") /\ [p EXCEPT ![id] = q] = [P EXCEPT ![id] = q]
    <3>1. q = WithLife(p[id], "closed")
      BY <1>9, Zenon
    <3>2. WithLife(p[id], "closed") = WithLife(o, "closed")
      BY <1>2, Zenon DEF WithLife, PeerStream
    <3>3. [p EXCEPT ![id] = q] = [P EXCEPT ![id] = q]
      BY <1>2, Zenon
    <3> QED
      BY <3>1, <3>2, <3>3, Zenon
  <2> HIDE DEF k, P, o, c
  <2>3. k = ClosedIn(m, t)
    BY <1>9, Zenon DEF k
  <2>4. /\ Inv(k, P) /\ (AllFramed(m, P) => AllFramed(k, P))
        /\ id \notin ActiveIds(k.table) /\ k.sends = m.sends
    BY <1>1, <1>4, <1>9, <2>3, CloseStep
  <2>5. /\ Inv(n, [P EXCEPT ![id] = q])
        /\ AllFramed(k, P) => AllFramed(n, [P EXCEPT ![id] = q])
    BY <1>4, <2>1, <2>2, <2>4, ReleaseStep, Zenon
  <2>6. n.sends = k.sends
    BY <2>1, <2>4, Zenon DEF WithSlot, Inv, ShellOK, ShellState
  <2> QED
    BY <1>1, <2>2, <2>4, <2>5, <2>6, Zenon DEF Kept
<1> QED
  BY <1>7, <1>8, <1>9, Zenon

LEMMA StartStep ==
    ASSUME NEW m, NEW p, Inv(m, p), NEW id \in StreamId, p[id].life = "idle",
           FreeSlots(m) # {}, NEW r, r = allocate_slot(m, id), NEW n, n = r.m,
           NEW wire \in Seq(Byte), NEW q, q = Begun(r.slot, wire)
    PROVE  /\ Inv(n, [p EXCEPT ![id] = q])
           /\ AllFramed(m, p) => AllFramed(n, [p EXCEPT ![id] = q])
<1> DEFINE c == r.slot
           o == p[id]
<1>1. StreamOK(m, o, id) /\ ShellOK(m) /\ AdapterOK(m)
  BY SamePeer, Zenon
<1>2. c \in ConnSlot /\ ~m.slots[c].in_use /\ n = WithSlot(m, c, BoundSlotOf(id))
  BY Allocates, Zenon DEF BoundSlotOf
<1> HIDE DEF c
<1>3. /\ q \in PeerStream /\ q.life = "live" /\ q.slot = c /\ q.wire = wire /\ q.pos = 0
      /\ q.pos <= Len(q.wire)
  BY <1>2, BegunFields DEF c
<1>4. ~Bound(o) /\ Bound(q)
  BY <1>3, Zenon DEF Bound
<1>5. id \notin ActiveIds(m.table) /\ ~(m.sends[id].state # "none")
  <2>1. id \notin ActiveIds(m.table)
    BY <1>1, <1>4, Zenon DEF StreamOK, EntryOK
  <2>2. ~(m.sends[id].state # "none")
    BY <1>1, Zenon DEF StreamOK, SentOK
  <2> QED
    BY <2>1, <2>2, Zenon
<1>6. /\ ShellOK(n) /\ n.table = m.table /\ n.adapter = m.adapter
      /\ n.sendbuf = m.sendbuf /\ n.sends = m.sends
      /\ n.slots[c] = BoundSlotOf(id)
      /\ \A d \in ConnSlot \ {c} : n.slots[d] = m.slots[d]
  BY <1>1, <1>2, BoundSlotFields, SlotReplaced
<1>7. /\ n.slots[c].in_use /\ n.slots[c].stream_id = id
      /\ ~n.slots[c].received_fin /\ ~n.slots[c].send_in_flight
  BY <1>6, BoundSlotFields, Zenon
<1>8. id \notin ActiveIds(n.table) /\ n.sends[id].state = "none"
  BY <1>5, <1>6, Zenon
<1>9. StreamOK(n, q, id)
  BY <1>2, <1>3, <1>4, <1>7, <1>8, Zenon DEF StreamOK, BoundOK, EntryOK, PendingOK, SentOK
<1>10. StreamFramed(n, q, id)
  BY <1>3, <1>8, Zenon DEF StreamFramed, FramedOK
<1>11. Touches(m, n, id, c) /\ AdapterOK(n)
  BY <1>1, <1>6, Zenon DEF Touches, AdapterOK
<1>12. Bound(p[id]) => p[id].slot = c
  BY <1>4, Zenon
<1> QED
  BY <1>2, <1>3, <1>4, <1>6, <1>7, <1>9, <1>10, <1>11, <1>12, StreamStep, Zenon

(* A stream for which there is no slot, closed at once.                    *)
LEMMA RefuseStep ==
    ASSUME NEW m, NEW p, Inv(m, p), NEW id \in StreamId, p[id].life = "idle",
           NEW q, q = WithLife(p[id], "closed")
    PROVE  /\ Inv(m, [p EXCEPT ![id] = q])
           /\ AllFramed(m, p) => AllFramed(m, [p EXCEPT ![id] = q])
<1> DEFINE o == p[id]
<1>1. StreamOK(m, o, id) /\ ShellOK(m) /\ AdapterOK(m) /\ o \in PeerStream /\ o.pos <= Len(o.wire)
  BY SamePeer, Zenon
<1>2. /\ q \in PeerStream /\ q.life = "closed" /\ q.slot = o.slot /\ q.wire = o.wire
      /\ q.pos = o.pos
  BY <1>1, LifeFields
<1>3. ~Bound(o) /\ ~Bound(q) /\ q.pos <= Len(q.wire)
  BY <1>1, <1>2, Zenon DEF Bound
<1>4. StreamOK(m, q, id)
  BY <1>1, <1>2, <1>3, Zenon DEF StreamOK, BoundOK, EntryOK, PendingOK, SentOK
<1>5. StreamFramed(m, q, id)
  BY <1>2, Zenon DEF StreamFramed, FramedOK
<1>6. Touches(m, m, id, NULL) /\ NULL \notin ConnSlot
  BY <1>1, RuntimeConstants DEF Touches, NULL, ConnSlot
<1> QED
  BY <1>1, <1>2, <1>3, <1>4, <1>5, <1>6, StreamStep, Zenon

----------------------------------------------------------------------------
(* The actions.                                                            *)

(* Events are staged by the shell's own callbacks only; and either one     *)
(* connection is served, or every connection has one stream.               *)
Scope == StageLimit = 0 /\ (MaxConnections <= 1 \/ StreamId = {0})

LEMMA ShellAfter ==
    ASSUME NEW n, ShellOK(n), Becomes(n)
    PROVE  Shell' = n
<1>1. n = [table |-> n.table, adapter |-> n.adapter, sendbuf |-> n.sendbuf,
           queue |-> n.queue, slots |-> n.slots, sends |-> n.sends]
  BY Zenon DEF ShellOK, ShellState
<1> QED
  BY <1>1, Zenon DEF Becomes, Shell

LEMMA SendAllowed ==
    ASSUME ServerInv, NEW up \in StreamSendOutcome, NEW id \in StreamId
    PROVE  MaySend(Shell, peer, id, up)
<1> SUFFICES ASSUME id \in up
             PROVE  AllFramed(Shell, peer) /\ peer[id].life = "live" /\ ~peer[id].stopped
  BY Zenon DEF MaySend
<1>1. id \in SendSide
  BY Zenon DEF StreamSendOutcome
<1>2. peer[id].life = "live" /\ ~peer[id].stopped /\ conn = "open"
  BY <1>1, Zenon DEF SendSide, Live
<1> QED
  BY <1>2, Zenon DEF ServerInv, ConnOK

(* What a stream's own events leave of the connection.                     *)
LEMMA ConnStep ==
    ASSUME ConnOK, NEW id \in StreamId, peer \in [StreamId -> PeerStream],
           conn # "closed",
           NEW q, peer' = [peer EXCEPT ![id] = q], q.life # "idle",
           StreamId = {0} => q.life # "shut",
           connections' = connections, fault' \in BOOLEAN,
           conn' = conn \/ conn' = "shutting", fault' => conn' # "open"
    PROVE  ConnOK'
<1>1. peer'[id] = q /\ \A j \in StreamId \ {id} : peer'[j] = peer[j]
  OBVIOUS
<1>2. conn' \in {"open", "shutting"} /\ connections # 0
  BY Zenon DEF ConnOK
<1>3. StreamId = {0} => HandleClosedAfterShutdown'
  BY <1>1, Zenon DEF ConnOK, HandleClosedAfterShutdown
<1>4. \A j \in StreamId : peer'[j].life = "idle" => peer'[j] = Unstarted
  BY <1>1, Zenon DEF ConnOK
<1> QED
  BY <1>2, <1>3, <1>4, Zenon DEF ConnOK, Live

LEMMA PeerType ==
    ASSUME ServerInv
    PROVE  /\ peer \in [StreamId -> PeerStream]
           /\ \A id \in StreamId : peer[id] \in PeerStream /\ peer[id].pos <= Len(peer[id].wire)
           /\ \A id \in StreamId : Live(id) => conn # "closed"
  BY Zenon DEF ServerInv, Inv, PeerOK, ConnOK

(* What a step of an open connection may do to what was sent, and whom it  *)
(* may blame for a protocol error.                                         *)
Forward ==
    /\ \A id \in StreamId :
          /\ sends[id].state = "pending" => sends'[id].frame = sends[id].frame
          /\ sends[id].state = "done" => sends'[id] = sends[id]
    /\ EntryPerSlot /\ ~fault /\ fault' => \E id \in StreamId : Blamed(id)

LEMMA ForwardBy ==
    ASSUME NEW id \in StreamId, NEW n, Becomes(n), Kept(Shell, n),
           EntryPerSlot /\ ~fault /\ fault' => Blamed(id)
    PROVE  Forward
<1>1. sends' = n.sends /\ Shell.sends = sends
  BY Zenon DEF Becomes, Shell
<1>2. \A j \in StreamId : sends[j].state # "none" => sends'[j] = sends[j]
  BY <1>1, Zenon DEF Kept
<1> QED
  BY <1>2, Zenon DEF Forward

LEMMA ForwardAlone ==
    ASSUME UNCHANGED <<peer, fault>>,
           \A j \in StreamId : /\ sends[j].state = "pending" => sends'[j].frame = sends[j].frame
                               /\ sends[j].state = "done" => sends'[j] = sends[j]
    PROVE  Forward
  BY Zenon DEF Forward

(* A callback on behalf of one stream.                                     *)
LEMMA Stepped ==
    ASSUME ServerInv, NEW n, Becomes(n), NEW P, peer' = P, Inv(n, P), ConnOK',
           ~fault' => AllFramed(n, P)
    PROVE  ServerInv'
<1>1. Shell' = n
  BY ShellAfter, Zenon DEF Inv
<1> QED
  BY <1>1, Zenon DEF ServerInv

(* The same, when the peer's side stands still.                            *)
LEMMA SteppedAlone ==
    ASSUME ServerInv, NEW n, Becomes(n), Inv(n, peer),
           AllFramed(Shell, peer) => AllFramed(n, peer),
           UNCHANGED <<peer, conn, connections, fault>>
    PROVE  ServerInv'
<1>1. ConnOK'
  BY Zenon DEF ServerInv, ConnOK, Live, HandleClosedAfterShutdown
<1>2. ~fault' => AllFramed(n, peer)
  BY Zenon DEF ServerInv
<1> QED
  BY <1>1, <1>2, Stepped, Zenon

LEMMA StartedKeeps ==
    ASSUME ServerInv, NEW id \in StreamId, PeerStreamStarted(id)
    PROVE  ServerInv' /\ Forward
<1>1. conn = "open" /\ peer[id].life = "idle" /\ UNCHANGED <<conn, connections, fault>>
  BY Zenon DEF PeerStreamStarted
<1>2. Inv(Shell, peer) /\ peer[id] = Unstarted /\ ConnOK /\ (~fault => AllFramed(Shell, peer))
  BY <1>1, Zenon DEF ServerInv, ConnOK
<1>3. PICK wire \in Wires[id], getParam \in BOOLEAN :
          IF getParam /\ FreeSlots(Shell) # {}
          THEN LET r == allocate_slot(Shell, id)
               IN  /\ Becomes(r.m)
                   /\ peer' = [peer EXCEPT ![id].life = "live", ![id].slot = r.slot,
                                           ![id].wire = wire]
          ELSE /\ peer' = [peer EXCEPT ![id].life = "closed"]
               /\ UNCHANGED shell
  BY Zenon DEF PeerStreamStarted
<1>4. wire \in Seq(Byte)
  BY ServerConstants, Zenon
<1>5. peer \in [StreamId -> PeerStream] /\ fault \in BOOLEAN /\ (fault => conn # "open")
  BY PeerType, Zenon DEF ServerInv, ConnOK
<1>6. CASE getParam /\ FreeSlots(Shell) # {}
  <2> DEFINE r == allocate_slot(Shell, id)
             q == Begun(r.slot, wire)
             P == [peer EXCEPT ![id] = q]
  <2>1. Becomes(r.m) /\ peer' = [peer EXCEPT ![id].life = "live", ![id].slot = r.slot,
                                             ![id].wire = wire]
    BY <1>3, <1>6, Zenon
  <2>2. r.slot \in ConnSlot
    BY <1>6, Allocates, Zenon
  <2> HIDE DEF r
  <2>3. peer' = P
    BY <1>2, <1>5, <2>1, Zenon DEF Begun
  <2>4. q.life = "live"
    BY <1>4, <2>2, BegunFields
  <2> HIDE DEF q
  <2>5. Inv(r.m, P) /\ (AllFramed(Shell, peer) => AllFramed(r.m, P))
    BY <1>1, <1>2, <1>4, <1>6, StartStep, Zenon DEF r, q
  <2>6. ConnOK'
    BY <1>1, <1>2, <1>5, <2>3, <2>4, ConnStep, Zenon
  <2>7. Kept(Shell, r.m)
    <3>1. r.m = WithSlot(Shell, r.slot, BoundSlotOf(id))
      BY <1>6, Allocates, Zenon DEF r, BoundSlotOf
    <3>2. r.m.sends = Shell.sends
      BY <1>2, <2>2, <3>1, BoundSlotFields, SlotReplaced DEF Inv
    <3> QED
      BY <3>2, Zenon DEF Kept
  <2>8. Forward
    BY <1>1, <2>1, <2>3, <2>7, ForwardBy, Zenon
  <2> QED
    BY <1>1, <1>2, <2>1, <2>3, <2>5, <2>6, <2>8, Stepped, Zenon
<1>7. CASE ~(getParam /\ FreeSlots(Shell) # {})
  <2> DEFINE q == WithLife(peer[id], "closed")
             P == [peer EXCEPT ![id] = q]
  <2>1. peer' = P /\ UNCHANGED shell
    BY <1>3, <1>7, Zenon DEF WithLife
  <2>2. Becomes(Shell)
    BY <2>1, Zenon DEF shell, Shell, Becomes
  <2>3. q.life = "closed"
    BY <1>5, LifeFields
  <2> HIDE DEF q
  <2>4. Inv(Shell, P) /\ (AllFramed(Shell, peer) => AllFramed(Shell, P))
    BY <1>1, <1>2, RefuseStep, Zenon DEF q
  <2>5. ConnOK'
    BY <1>1, <1>2, <1>5, <2>1, <2>3, ConnStep, Zenon
  <2>6. Forward
    BY <1>1, <2>1, <2>2, ForwardBy, Zenon DEF Kept
  <2> QED
    BY <1>1, <1>2, <2>1, <2>2, <2>4, <2>5, <2>6, Stepped, Zenon
<1> QED
  BY <1>6, <1>7, Zenon

LEMMA CompletionKeeps ==
    ASSUME ServerInv, NEW id \in StreamId, NEW canceled \in BOOLEAN, SendComplete(id, canceled)
    PROVE  ServerInv' /\ Forward
<1>1. PICK up \in StreamSendOutcome :
          Becomes(AfterComplete(Shell, id, peer[id].slot, canceled, up))
  BY Zenon DEF SendComplete, AfterComplete
<1> DEFINE n == AfterComplete(Shell, id, peer[id].slot, canceled, up)
<1>2. Shell.sends[id].state = "pending"
  BY Zenon DEF SendComplete, Shell
<1>3. /\ Inv(n, peer) /\ (AllFramed(Shell, peer) => AllFramed(n, peer))
      /\ GivenBack(Shell, n, id)
  BY <1>2, CompleteStep, Zenon DEF ServerInv
<1>4. UNCHANGED <<peer, conn, connections, fault>>
  BY Zenon DEF SendComplete
<1>5. sends' = n.sends /\ Shell.sends = sends
  BY <1>1, Zenon DEF Becomes, Shell
<1> HIDE DEF n
<1>6. Forward
  BY <1>2, <1>3, <1>4, <1>5, ForwardAlone, Zenon DEF GivenBack
<1> QED
  BY <1>1, <1>3, <1>4, <1>6, SteppedAlone, Zenon DEF n

LEMMA ServeKeeps ==
    ASSUME ServerInv, NEW id \in StreamId, ServeReady(id)
    PROVE  ServerInv' /\ Forward
<1>1. PICK up \in StreamSendOutcome : Becomes(AfterReady(Shell, id, up))
  BY Zenon DEF ServeReady, AfterReady
<1> DEFINE n == AfterReady(Shell, id, up)
<1>2. id \in ActiveIds(table) /\ Ctx(table, id).phase.tag = "Processing"
  <2>1. Good(table)
    BY Zenon DEF ServerInv, Inv, ShellOK, Shell
  <2> QED
    BY <2>1, TableFind, Zenon DEF ServeReady, Ready, Ctx
<1>3. Shell.table = table /\ Shell.adapter = adapter
  BY Zenon DEF Shell
<1>4. ~adapter.send_in_flight /\ UNCHANGED <<peer, conn, connections, fault>>
  BY Zenon DEF ServeReady
<1>5. MaySend(Shell, peer, id, up)
  BY SendAllowed, Zenon
<1>6. Inv(n, peer) /\ (AllFramed(Shell, peer) => AllFramed(n, peer)) /\ Kept(Shell, n)
  BY <1>2, <1>3, <1>4, <1>5, ServeStep, Zenon DEF ServerInv
<1> HIDE DEF n
<1>7. sends' = n.sends /\ Shell.sends = sends
  BY <1>1, Zenon DEF n, Becomes, Shell
<1>8. Forward
  BY <1>4, <1>6, <1>7, ForwardAlone, Zenon DEF Kept
<1> QED
  BY <1>1, <1>4, <1>6, <1>8, SteppedAlone, Zenon DEF n

(* A protocol error shuts the connection.                                  *)
LEMMA ErrorKeeps ==
    ASSUME ServerInv, NEW id \in StreamId, Live(id),
           NEW n, Becomes(n), NEW ok, protocol_error(ok),
           NEW q, peer' = [peer EXCEPT ![id] = q], q.life = "live",
           Kept(Shell, n), EntryPerSlot /\ AllFramed(Shell, peer) /\ ~ok => Blamed(id),
           Inv(n, [peer EXCEPT ![id] = q]),
           AllFramed(Shell, peer) /\ ok => AllFramed(n, [peer EXCEPT ![id] = q])
    PROVE  ServerInv' /\ Forward
<1>1. peer \in [StreamId -> PeerStream] /\ conn # "closed"
  BY PeerType, Zenon
<1>2. ConnOK /\ (~fault => AllFramed(Shell, peer))
  BY Zenon DEF ServerInv
<1>3. fault' \in BOOLEAN /\ connections' = connections /\ (conn' = conn \/ conn' = "shutting")
  BY <1>2, Zenon DEF protocol_error, ConnOK
<1>4. fault' => conn' # "open"
  BY <1>2, Zenon DEF protocol_error, ConnOK
<1>5. (~fault' => ~fault /\ ok) /\ (fault' => fault \/ ~ok)
  BY Zenon DEF protocol_error
<1>6. ConnOK'
  BY <1>1, <1>2, <1>3, <1>4, ConnStep, Zenon
<1>7. EntryPerSlot /\ ~fault /\ fault' => Blamed(id)
  BY <1>2, <1>5, Zenon
<1>8. Forward
  BY <1>7, ForwardBy, Zenon
<1> QED
  BY <1>2, <1>5, <1>6, <1>8, Stepped, Zenon

LEMMA FinKeeps ==
    ASSUME ServerInv, NEW id \in StreamId, PeerSendShutdown(id)
    PROVE  ServerInv' /\ Forward
<1> DEFINE o == peer[id]
           q == FinReceived(o)
<1>1. /\ o.life = "live" /\ o.pos = Len(o.wire) /\ ~o.reset
      /\ peer' = [peer EXCEPT ![id] = q]
  BY Zenon DEF PeerSendShutdown, Live, FinReceived
<1>2. PICK up \in StreamSendOutcome : PeerData(on_fin(Shell, peer[id].slot, up))
  BY Zenon DEF PeerSendShutdown
<1>3. o \in PeerStream /\ o.pos <= Len(o.wire)
  BY PeerType, Zenon
<1>4. /\ q \in PeerStream /\ q.life = "live" /\ q.slot = o.slot /\ q.wire = o.wire
      /\ q.pos = o.pos /\ q.fin /\ (q.stopped <=> o.stopped)
  BY <1>1, <1>3, Zenon DEF FinReceived, PeerStream
<1> HIDE DEF q
<1>5. Follows(o, q)
  BY <1>1, <1>3, <1>4, Zenon DEF Follows
<1>6. id \in up => AllFramed(Shell, peer) /\ ~q.stopped
  BY <1>4, SendAllowed, Zenon DEF MaySend
<1> DEFINE r == on_fin(Shell, q.slot, up)
<1>7. Becomes(r.m) /\ protocol_error(r.ok)
  BY <1>2, <1>4, Zenon DEF PeerData
<1>8. /\ Inv(r.m, [peer EXCEPT ![id] = q])
      /\ AllFramed(Shell, peer) /\ r.ok => AllFramed(r.m, [peer EXCEPT ![id] = q])
      /\ Kept(Shell, r.m) /\ (Proper(Shell, peer, q) => r.ok)
  BY <1>1, <1>4, <1>5, <1>6, FinStep, Zenon DEF ServerInv
<1> HIDE DEF r
<1>9. EntryPerSlot /\ AllFramed(Shell, peer) /\ ~r.ok => Blamed(id)
  <2>1. peer'[id] = q /\ q # o
    BY <1>1, <1>4, PeerType, Zenon DEF PeerSendShutdown
  <2> QED
    BY <1>4, <1>8, <2>1, Zenon DEF Proper, Blamed
<1> QED
  BY <1>1, <1>4, <1>7, <1>8, <1>9, ErrorKeeps, Zenon DEF Live

LEMMA ReceiveKeeps ==
    ASSUME ServerInv, NEW id \in StreamId,
           NEW n \in 0 .. Len(peer[id].wire), NEW cut \in 0 .. Len(peer[id].wire),
           NEW flag \in BOOLEAN, Receive(id, n, cut, flag)
    PROVE  ServerInv' /\ Forward
<1> DEFINE o == peer[id]
           q == Received(o, n, flag)
           d == SubSeq(o.wire, o.pos + 1, o.pos + n)
<1>1. /\ o.life = "live" /\ ~o.eof /\ ~o.fin /\ ~o.reset
      /\ n <= Len(o.wire) - o.pos /\ cut <= n
      /\ flag => o.pos + n = Len(o.wire)
  BY Zenon DEF Receive, Live
<1>2. peer' = [peer EXCEPT ![id] = q]
  BY Zenon DEF Receive, Received
<1>3. PICK up \in StreamSendOutcome :
          PeerData(on_msquic_receive(Shell, o.slot, SubSeq(d, 1, cut),
                                     SubSeq(d, cut + 1, n), flag, up))
  BY Zenon DEF Receive
<1>4. o \in PeerStream /\ o.pos <= Len(o.wire) /\ o.pos \in Nat /\ Len(o.wire) \in Nat
  BY PeerType DEF PeerStream
<1>5. n \in Nat /\ cut \in 0 .. n /\ o.pos + n \in Nat /\ o.pos + n <= Len(o.wire)
  BY <1>1, <1>4
<1>6. /\ q \in PeerStream /\ q.life = "live" /\ q.slot = o.slot /\ q.wire = o.wire
      /\ q.pos = o.pos + n /\ (q.eof <=> flag) /\ (q.stopped <=> o.stopped)
  BY <1>1, <1>4, <1>5, Zenon DEF Received, PeerStream
<1> HIDE DEF q
<1>7. Follows(o, q)
  BY <1>1, <1>4, <1>5, <1>6, Zenon DEF Follows
<1>8. id \in up => AllFramed(Shell, peer) /\ ~q.stopped
  BY <1>6, SendAllowed, Zenon DEF MaySend
<1>9. flag => q.pos = Len(q.wire) /\ q.eof
  BY <1>1, <1>6, Zenon
<1>10. d = SubSeq(q.wire, o.pos + 1, o.pos + n)
  BY <1>6, Zenon
<1> HIDE DEF d
<1> DEFINE r == on_msquic_receive(Shell, q.slot, SubSeq(d, 1, cut), SubSeq(d, cut + 1, n), flag, up)
<1>11. Becomes(r.m) /\ protocol_error(r.ok)
  BY <1>3, <1>6, Zenon DEF PeerData
<1>12. Inv(Shell, peer)
  BY Zenon DEF ServerInv
<1>13. /\ Inv(r.m, [peer EXCEPT ![id] = q])
       /\ AllFramed(Shell, peer) /\ r.ok => AllFramed(r.m, [peer EXCEPT ![id] = q])
       /\ Kept(Shell, r.m)
       /\ Proper(Shell, peer, q) /\ cut <= IngressCapacity /\ n - cut <= IngressCapacity => r.ok
  <2> HIDE DEF r
  <2>1. r = on_msquic_receive(Shell, q.slot, SubSeq(d, 1, cut), SubSeq(d, cut + 1, n), flag, up)
    BY Zenon DEF r
  <2> QED
    BY <1>1, <1>5, <1>6, <1>7, <1>8, <1>9, <1>10, <1>12, <2>1, ReceiveStep, Zenon
<1> HIDE DEF r
<1>14. EntryPerSlot /\ AllFramed(Shell, peer) /\ ~r.ok => Blamed(id)
  <2>1. peer'[id] = q /\ q # o
    <3>1. n > 0 \/ flag
      BY Zenon DEF Receive
    <3>2. n > 0 => q.pos # o.pos
      BY <1>4, <1>5, <1>6
    <3> QED
      BY <1>1, <1>2, <1>6, <3>1, <3>2, PeerType, Zenon
  <2>2. ~(cut <= IngressCapacity) => cut > IngressCapacity
    BY <1>5, RuntimeConstants
  <2>3. ~(n - cut <= IngressCapacity) => n - cut > IngressCapacity
    BY <1>5, RuntimeConstants
  <2> QED
    BY <1>6, <1>13, <2>1, <2>2, <2>3, Zenon DEF Proper, Blamed, Oversized
<1> QED
  BY <1>1, <1>2, <1>6, <1>11, <1>13, <1>14, ErrorKeeps, Zenon DEF Live

(* The peer abandons a direction of the stream: both PEER_SEND_ABORTED and *)
(* PEER_RECEIVE_ABORTED.                                                   *)
LEMMA AbortKeeps ==
    ASSUME ServerInv, NEW id \in StreamId, Live(id), Aborted(id),
           UNCHANGED <<conn, connections, fault>>,
           NEW q, peer' = [peer EXCEPT ![id] = q],
           Follows(peer[id], q), Uncounted(peer[id], q), q.reset \/ q.stopped
    PROVE  ServerInv' /\ Forward
<1> DEFINE P == [peer EXCEPT ![id] = q]
<1>1. peer \in [StreamId -> PeerStream] /\ conn # "closed"
  BY PeerType, Zenon
<1>2. ConnOK /\ (~fault => AllFramed(Shell, peer)) /\ Inv(Shell, peer)
  BY Zenon DEF ServerInv
<1>3. q.life = "live" /\ q.slot = peer[id].slot
  BY Zenon DEF Follows
<1>4. Inv(Shell, P) /\ (AllFramed(Shell, peer) => AllFramed(Shell, P))
  BY <1>2, PeerMoves, Zenon
<1>5. P[id] = q
  BY <1>1, Zenon
<1> HIDE DEF P
<1>6. PICK up \in StreamSendOutcome : Becomes(on_stream_reset(Shell, P[id].slot, up).m)
  BY <1>3, <1>5, Zenon DEF Aborted
<1> DEFINE n == on_stream_reset(Shell, P[id].slot, up).m
<1>7. Inv(n, P) /\ (AllFramed(Shell, P) => AllFramed(n, P))
  BY <1>3, <1>4, <1>5, ResetStep, Zenon DEF Bound
<1>8. n.sends = Shell.sends
  BY <1>3, <1>4, <1>5, ResetSends DEF Bound
<1>9. ConnOK'
  <2>1. fault' \in BOOLEAN /\ (fault' => conn' # "open")
    BY <1>2, Zenon DEF ConnOK
  <2> QED
    BY <1>1, <1>2, <1>3, <2>1, ConnStep, Zenon DEF P
<1> HIDE DEF n
<1>10. peer' = P /\ Becomes(n)
  BY <1>6, Zenon DEF P, n
<1>11. Forward
  BY <1>8, <1>10, ForwardBy, Zenon DEF Kept
<1> QED
  BY <1>2, <1>4, <1>7, <1>9, <1>10, <1>11, Stepped

LEMMA AbortedPeer ==
    ASSUME NEW o \in PeerStream, o.pos <= Len(o.wire), o.life = "live",
           NEW q \in {ResetBy(o), StoppedBy(o)}
    PROVE  Follows(o, q) /\ Uncounted(o, q) /\ (q.reset \/ q.stopped)
<1>1. CASE q = ResetBy(o)
  BY <1>1, Zenon DEF ResetBy, Follows, Uncounted, PeerStream
<1>2. CASE q = StoppedBy(o)
  BY <1>2, Zenon DEF StoppedBy, Follows, Uncounted, PeerStream
<1> QED
  BY <1>1, <1>2, Zenon

LEMMA SendAbortKeeps ==
    ASSUME ServerInv, NEW id \in StreamId, PeerSendAborted(id)
    PROVE  ServerInv' /\ Forward
<1> DEFINE q == ResetBy(peer[id])
<1>1. Live(id) /\ Aborted(id) /\ UNCHANGED <<conn, connections, fault>>
  BY Zenon DEF PeerSendAborted
<1>2. peer' = [peer EXCEPT ![id] = q]
  BY Zenon DEF PeerSendAborted, ResetBy
<1>3. Follows(peer[id], q) /\ Uncounted(peer[id], q) /\ (q.reset \/ q.stopped)
  BY <1>1, PeerType, AbortedPeer, Zenon DEF Live
<1> HIDE DEF q
<1> QED
  BY <1>1, <1>2, <1>3, AbortKeeps, Zenon

LEMMA ReceiveAbortKeeps ==
    ASSUME ServerInv, NEW id \in StreamId, PeerReceiveAborted(id)
    PROVE  ServerInv' /\ Forward
<1> DEFINE q == StoppedBy(peer[id])
<1>1. Live(id) /\ Aborted(id) /\ UNCHANGED <<conn, connections, fault>>
  BY Zenon DEF PeerReceiveAborted
<1>2. peer' = [peer EXCEPT ![id] = q]
  BY Zenon DEF PeerReceiveAborted, StoppedBy
<1>3. Follows(peer[id], q) /\ Uncounted(peer[id], q) /\ (q.reset \/ q.stopped)
  BY <1>1, PeerType, AbortedPeer, Zenon DEF Live
<1> HIDE DEF q
<1> QED
  BY <1>1, <1>2, <1>3, AbortKeeps, Zenon

LEMMA ShutdownKeeps ==
    ASSUME ServerInv, NEW id \in StreamId, StreamShutdownComplete(id)
    PROVE  ServerInv' /\ Forward
<1>1. PICK up \in StreamSendOutcome :
          ShutDown(on_stream_reset(Shell, peer[id].slot, up), id)
  BY Zenon DEF StreamShutdownComplete
<1> DEFINE r == on_stream_reset(Shell, peer[id].slot, up)
           n == IF r.ok THEN release_slot(r.m, peer[id].slot) ELSE r.m
           q == WithLife(peer[id], IF r.ok THEN "closed" ELSE "shut")
           P == [peer EXCEPT ![id] = q]
<1>2. Becomes(n) /\ peer' = P
  BY <1>1, Zenon DEF ShutDown, ReleasedIf, WithLife
<1>3. /\ peer[id].life = "live" /\ Shell.sends[id].state # "pending"
      /\ UNCHANGED <<conn, connections, fault>>
  BY Zenon DEF StreamShutdownComplete, StreamOver, Live, Shell
<1>4. /\ peer \in [StreamId -> PeerStream] /\ peer[id] \in PeerStream /\ conn # "closed"
      /\ ConnOK /\ (~fault => AllFramed(Shell, peer)) /\ Inv(Shell, peer)
  BY <1>3, PeerType, Zenon DEF ServerInv, Live
<1>5. /\ Inv(n, P) /\ (AllFramed(Shell, peer) => AllFramed(n, P)) /\ (StreamId = {id} => r.ok)
      /\ Kept(Shell, n)
  <2> HIDE DEF r
  <2>1. r = on_stream_reset(Shell, peer[id].slot, up)
    BY Zenon DEF r
  <2> HIDE DEF n, q
  <2>2. /\ n = IF r.ok THEN release_slot(r.m, peer[id].slot) ELSE r.m
        /\ q = WithLife(peer[id], IF r.ok THEN "closed" ELSE "shut")
    BY Zenon DEF n, q
  <2> QED
    BY <1>3, <1>4, <2>1, <2>2, ShutdownStep, Zenon
<1>6. /\ q.life = IF r.ok THEN "closed" ELSE "shut"
      /\ q.wire = peer[id].wire /\ (q.stopped <=> peer[id].stopped)
  BY <1>4, LifeFields
<1> HIDE DEF q, n, r
<1>7. StreamId = {0} => q.life # "shut"
  BY <1>5, <1>6, Zenon
<1>8. q.life # "idle" /\ fault' \in BOOLEAN /\ (fault' => conn' # "open")
  BY <1>3, <1>4, <1>6, Zenon DEF ConnOK
<1>9. ConnOK'
  BY <1>2, <1>3, <1>4, <1>7, <1>8, ConnStep, Zenon
<1>10. Forward
  BY <1>2, <1>3, <1>5, ForwardBy, Zenon
<1> HIDE DEF P
<1> QED
  BY <1>2, <1>3, <1>4, <1>5, <1>9, <1>10, Stepped

(* A connection that left no stream bound left nothing at all.             *)
LEMMA NothingHeld ==
    ASSUME NEW m, NEW p, Inv(m, p), \A id \in StreamId : ~Bound(p[id])
    PROVE  /\ ActiveIds(m.table) = {}
           /\ m.adapter = Idle
           /\ \A c \in ConnSlot : ~m.slots[c].in_use
<1>1. m \in ShellState /\ Good(m.table) /\ OwnersOK(m, p) /\ AdapterOK(m)
  BY Zenon DEF Inv, ShellOK
<1>2. ASSUME NEW id \in ActiveIds(m.table) PROVE FALSE
  <2>1. id \in StreamId
    BY <1>1, TableFind, Zenon
  <2> QED
    BY <2>1, SamePeer, Zenon DEF StreamOK, EntryOK
<1>3. ~m.adapter.send_in_flight
  <2> SUFFICES ASSUME m.adapter.send_in_flight PROVE FALSE
    OBVIOUS
  <2> DEFINE id == m.adapter.send_stream_id
  <2>1. id \in StreamId
    BY <1>1, Zenon DEF ShellState, Adapter
  <2>2. m.sends[id].state = "pending"
    BY <1>1, Zenon DEF AdapterOK
  <2> HIDE DEF id
  <2> QED
    BY <2>1, <2>2, SamePeer, PendingView, Zenon
<1>4. ASSUME NEW c \in ConnSlot, m.slots[c].in_use PROVE FALSE
  <2>1. m.slots[c].stream_id \in StreamId
    BY <1>1, Zenon DEF ShellState, ConnSlotState
  <2> QED
    BY <1>1, <1>4, <2>1, Zenon DEF OwnersOK
<1> QED
  BY <1>1, <1>2, <1>3, <1>4, Zenon DEF AdapterOK

(* A shell that holds nothing, and streams that have not started.          *)
LEMMA FreshInv ==
    ASSUME NEW m, ShellOK(m), ActiveIds(m.table) = {}, m.adapter = Idle,
           \A c \in ConnSlot : ~m.slots[c].in_use, m.sends = Unsent,
           NEW p, p = [id \in StreamId |-> Unstarted]
    PROVE  Inv(m, p) /\ AllFramed(m, p)
<1>1. PeerOK(p) /\ \A id \in StreamId : p[id].life = "idle" /\ ~Bound(p[id])
  BY UnstartedFields, Zenon DEF PeerOK, Bound
<1>2. OwnersOK(m, p) /\ AdapterOK(m)
  BY IdleType, Zenon DEF OwnersOK, AdapterOK
<1>3. ASSUME NEW id \in StreamId PROVE StreamOK(m, p[id], id) /\ StreamFramed(m, p[id], id)
  <2>1. id \notin ActiveIds(m.table) /\ m.sends[id].state = "none"
    BY UnsentType, Zenon
  <2>2. p[id].life = "idle" /\ ~Bound(p[id])
    BY <1>1, Zenon
  <2> HIDE <1>1
  <2>3. StreamOK(m, p[id], id)
    BY <2>1, <2>2, Zenon DEF StreamOK, BoundOK, EntryOK, PendingOK, SentOK
  <2>4. StreamFramed(m, p[id], id)
    BY <2>2, Zenon DEF StreamFramed, FramedOK
  <2> QED
    BY <2>3, <2>4, Zenon
<1> QED
  BY <1>1, <1>2, <1>3, Zenon DEF Inv, AllFramed

LEMMA InitInv == Init => ServerInv
<1> SUFFICES ASSUME Init PROVE ServerInv
  OBVIOUS
<1>1. Good(table) /\ ActiveIds(table) = {}
  BY InitTable, Zenon
<1>2. ShellOK(Shell)
  <2>1. NoFrame \in Frames
    BY Zenon DEF Frames
  <2>2. /\ adapter \in Adapter /\ sendbuf \in Frames /\ queue \in {<<>>}
        /\ slots \in [ConnSlot -> ConnSlotState] /\ sends \in [StreamId -> Send]
    BY <2>1, IdleType, FreeSlotType, UnsentType, Zenon DEF Init
  <2>3. table \in TableOf(ServerShape)
    BY <1>1, Zenon DEF Good, GoodTable
  <2> QED
    BY <1>1, <2>2, <2>3, Zenon DEF ShellOK, ShellState, Shell
<1>3. /\ Shell.table = table /\ Shell.adapter = Idle /\ Shell.sends = Unsent
      /\ \A c \in ConnSlot : ~Shell.slots[c].in_use
  BY FreeSlotType, Zenon DEF Init, Shell
<1>4. peer = [id \in StreamId |-> Unstarted]
  BY Zenon DEF Init
<1>5. Inv(Shell, peer) /\ AllFramed(Shell, peer)
  BY <1>1, <1>2, <1>3, <1>4, FreshInv, Zenon
<1>6. \A id \in StreamId : peer[id] = Unstarted /\ peer[id].life = "idle"
  BY <1>4, UnstartedFields, Zenon
<1>7. ConnOK
  <2>1. conn = "closed" /\ connections = 0 /\ fault = FALSE
    BY Zenon DEF Init
  <2>2. connections \in 0 .. MaxConnections
    BY <2>1, ServerConstants
  <2>3. HandleClosedAfterShutdown
    BY <1>6, Zenon DEF HandleClosedAfterShutdown
  <2>4. \A id \in StreamId : ~Live(id)
    BY <1>6, Zenon DEF Live
  <2> QED
    BY <1>6, <2>1, <2>2, <2>3, <2>4, Zenon DEF ConnOK
<1> QED
  BY <1>5, <1>7, Zenon DEF ServerInv

(* Nothing is bound when no connection is: its streams have all ended, and *)
(* the handles that a refused reset left open exist only when there is     *)
(* another stream.                                                         *)
LEMMA ClosedUnbound ==
    ASSUME ServerInv, conn = "closed", connections = 0 \/ StreamId = {0}
    PROVE  \A id \in StreamId : ~Bound(peer[id])
<1> SUFFICES ASSUME NEW id \in StreamId, peer[id].life \in {"live", "shut"} PROVE FALSE
  BY Zenon DEF Bound
<1>1. ConnOK
  BY Zenon DEF ServerInv
<1>2. peer[id].life # "live"
  BY <1>1, Zenon DEF ConnOK, Live
<1>3. connections # 0
  BY <1>1, Zenon DEF ConnOK
<1>4. peer[id].life # "shut"
  BY <1>1, <1>3, Zenon DEF ConnOK, HandleClosedAfterShutdown
<1> QED
  BY <1>2, <1>4, Zenon

LEMMA AcceptKeeps ==
    ASSUME Scope, ServerInv, AcceptConnection
    PROVE  ServerInv'
<1>1. /\ conn = "closed" /\ connections < MaxConnections /\ connections' = connections + 1
      /\ UNCHANGED <<table, adapter, sendbuf, queue, slots>>
  BY Zenon DEF AcceptConnection
<1>2. /\ ConnOK /\ Inv(Shell, peer) /\ (~fault => AllFramed(Shell, peer))
      /\ connections \in 0 .. MaxConnections /\ MaxConnections \in Nat
  BY ServerConstants, Zenon DEF ServerInv, ConnOK
<1>3. connections' \in 0 .. MaxConnections /\ connections' # 0
  BY <1>1, <1>2
<1>4. CASE /\ conn' = "open" /\ peer' = [id \in StreamId |-> Unstarted]
           /\ sends' = Unsent /\ fault' = FALSE
  <2>1. connections = 0 \/ StreamId = {0}
    BY <1>1, <1>2 DEF Scope
  <2>2. \A id \in StreamId : ~Bound(peer[id])
    BY <1>1, <2>1, ClosedUnbound, Zenon
  <2>3. /\ ActiveIds(Shell.table) = {} /\ Shell.adapter = Idle
        /\ \A c \in ConnSlot : ~Shell.slots[c].in_use
    BY <1>2, <2>2, NothingHeld, Zenon
  <2>4. ShellOK(Shell')
    <3>1. ShellOK(Shell)
      BY <1>2, Zenon DEF Inv
    <3> QED
      BY <1>1, <1>4, <3>1, UnsentType, Zenon DEF ShellOK, ShellState, Shell
  <2>5. /\ ActiveIds(Shell'.table) = {} /\ Shell'.adapter = Idle
        /\ (\A c \in ConnSlot : ~Shell'.slots[c].in_use) /\ Shell'.sends = Unsent
    BY <1>1, <1>4, <2>3, Zenon DEF Shell
  <2>6. Inv(Shell', peer') /\ AllFramed(Shell', peer')
    BY <1>4, <2>4, <2>5, FreshInv, Zenon
  <2>7. \A id \in StreamId : peer'[id] = Unstarted /\ peer'[id].life = "idle"
    BY <1>4, UnstartedFields, Zenon
  <2>8. HandleClosedAfterShutdown'
    BY <2>7, Zenon DEF HandleClosedAfterShutdown
  <2>9. ConnOK'
    BY <1>3, <1>4, <2>7, <2>8, Zenon DEF ConnOK, Live
  <2> QED
    BY <2>6, <2>9, Zenon DEF ServerInv
<1>5. CASE UNCHANGED <<conn, peer, sends, fault>>
  <2>1. Shell' = Shell /\ peer' = peer
    BY <1>1, <1>5, Zenon DEF Shell
  <2>2. ConnOK'
    BY <1>1, <1>2, <1>3, <1>5, Zenon DEF ConnOK, Live, HandleClosedAfterShutdown
  <2> QED
    BY <1>2, <1>5, <2>1, <2>2, Zenon DEF ServerInv
<1> QED
  BY <1>4, <1>5, Zenon DEF AcceptConnection

LEMMA ConnectionKeeps ==
    ASSUME ServerInv,
           ConnectionShutdownInitiated \/ ConnectionShutdownComplete \/ UNCHANGED vars
    PROVE  ServerInv'
<1>1. ConnOK /\ Inv(Shell, peer) /\ (~fault => AllFramed(Shell, peer))
  BY Zenon DEF ServerInv
<1>2. /\ Shell' = Shell /\ UNCHANGED <<peer, connections, fault>>
      /\ \/ conn' = conn
         \/ conn = "open" /\ conn' = "shutting"
         \/ conn = "shutting" /\ conn' = "closed" /\ \A id \in StreamId : ~Live(id)
  BY Zenon DEF ConnectionShutdownInitiated, ConnectionShutdownComplete, shell, Shell, vars
<1>3. ConnOK'
  <2>1. \A id \in StreamId : Live(id)' <=> Live(id)
    BY <1>2, Zenon DEF Live
  <2>2. HandleClosedAfterShutdown' <=> HandleClosedAfterShutdown
    BY <1>2, Zenon DEF HandleClosedAfterShutdown
  <2> QED
    BY <1>1, <1>2, <2>1, <2>2, Zenon DEF ConnOK
<1> QED
  BY <1>1, <1>2, <1>3, Zenon DEF ServerInv

(* Nothing is staged: the queue is empty between callbacks.                *)
LEMMA NothingStaged ==
    ASSUME Scope, ServerInv
    PROVE  ~DispatchStaged /\ \A id \in StreamId : ~StageReady(id)
<1>1. queue = <<>>
  BY Zenon DEF ServerInv, Inv, ShellOK, ShellState, Shell
<1> QED
  BY <1>1 DEF Scope, DispatchStaged, StageReady

LEMMA NextKeeps ==
    ASSUME Scope, ServerInv, [Next]_vars
    PROVE  ServerInv'
<1>1. CASE UNCHANGED vars
  BY <1>1, ConnectionKeeps, Zenon
<1>2. ASSUME NEW id \in StreamId, StreamEvent(id) PROVE ServerInv'
  BY <1>2, ReceiveKeeps, FinKeeps, CompletionKeeps, SendAbortKeeps, ReceiveAbortKeeps,
     ShutdownKeeps DEF StreamEvent
<1>3. ASSUME NEW id \in StreamId, PeerStreamStarted(id) PROVE ServerInv'
  BY <1>3, StartedKeeps, Zenon
<1>4. ASSUME NEW id \in StreamId, ServeReady(id) PROVE ServerInv'
  BY <1>4, ServeKeeps, Zenon
<1>5. CASE AcceptConnection
  BY <1>5, AcceptKeeps, Zenon
<1>6. CASE ConnectionShutdownInitiated \/ ConnectionShutdownComplete
  BY <1>6, ConnectionKeeps, Zenon
<1>7. CASE ConnectionClosed
  BY <1>7, ConnectionKeeps, Zenon DEF ConnectionClosed
<1> QED
  BY <1>1, <1>2, <1>3, <1>4, <1>5, <1>6, <1>7, NothingStaged DEF Next

LEMMA NextForward ==
    ASSUME Scope, ServerInv, [Next]_vars, ~AcceptConnection
    PROVE  Forward
<1>1. CASE UNCHANGED <<peer, sends, fault>>
  BY <1>1, ForwardAlone, Zenon
<1>2. ASSUME NEW id \in StreamId, StreamEvent(id) PROVE Forward
  BY <1>2, ReceiveKeeps, FinKeeps, CompletionKeeps, SendAbortKeeps, ReceiveAbortKeeps,
     ShutdownKeeps DEF StreamEvent
<1>3. ASSUME NEW id \in StreamId, PeerStreamStarted(id) PROVE Forward
  BY <1>3, StartedKeeps, Zenon
<1>4. ASSUME NEW id \in StreamId, ServeReady(id) PROVE Forward
  BY <1>4, ServeKeeps, Zenon
<1>5. CASE ConnectionShutdownInitiated \/ ConnectionShutdownComplete
  <2>1. UNCHANGED <<shell, peer, fault>>
    BY <1>5, Zenon DEF ConnectionShutdownInitiated, ConnectionShutdownComplete
  <2> QED
    BY <1>1, <2>1, Zenon DEF shell
<1>6. CASE UNCHANGED vars \/ ConnectionClosed
  <2>1. UNCHANGED vars
    BY <1>6, Zenon DEF ConnectionClosed
  <2> QED
    BY <1>1, <2>1, Zenon DEF vars
<1> QED
  BY <1>2, <1>3, <1>4, <1>5, <1>6, NothingStaged DEF Next

(* The invariant of the server.                                            *)
THEOREM ServerInvariant ==
    ASSUME Scope
    PROVE  Spec => []ServerInv
<1>1. Init => ServerInv
  BY InitInv, Zenon
<1>2. ServerInv /\ [Next]_vars => ServerInv'
  BY NextKeeps, Zenon
<1> QED
  BY <1>1, <1>2, PTL DEF Spec

----------------------------------------------------------------------------
(* What the invariant says of the runs' properties.                        *)

LEMMA ShellFields ==
    /\ Shell.table = table /\ Shell.adapter = adapter /\ Shell.sendbuf = sendbuf
    /\ Shell.queue = queue /\ Shell.slots = slots /\ Shell.sends = sends
  BY Zenon DEF Shell

LEMMA InvTypes == ServerInv => TypeOK
<1> SUFFICES ASSUME ServerInv PROVE TypeOK
  OBVIOUS
<1>1. ConnOK /\ ShellOK(Shell)
  BY Zenon DEF ServerInv, Inv
<1>2. /\ table \in TableOf(ServerShape) /\ adapter \in Adapter /\ sendbuf \in Frames
      /\ queue = <<>> /\ slots \in [ConnSlot -> ConnSlotState] /\ sends \in [StreamId -> Send]
  BY <1>1, ShellFields, Zenon DEF ShellOK, ShellState
<1>3. /\ table.active \in [Slot -> Slot] /\ table.num \in 0 .. Capacity
      /\ table.ctx \in [Slot -> Context] /\ table.used \in [Slot -> BOOLEAN]
  BY <1>2, ServerShapeOK, Zenon DEF TableOf
<1>4. Len(queue) <= QueueCapacity
  BY <1>2, RuntimeConstants
<1> QED
  BY <1>1, <1>2, <1>3, <1>4, Zenon
  DEF TypeOK, Context, ContextWith, Adapter, ConnSlotState, Send, ConnOK

(* The stream of a response MsQuic owns, in the server's variables.        *)
LEMMA PendingStream ==
    ASSUME ServerInv, NEW id \in Pending
    PROVE  /\ id \in StreamId /\ peer[id].slot \in ConnSlot
           /\ sendbuf = sends[id].frame
           /\ adapter = InFlight(id, sends[id].frame.len)
           /\ id \in ActiveIds(table) /\ Ctx(table, id).phase.tag = "Processing"
           /\ slots[peer[id].slot].in_use /\ slots[peer[id].slot].stream_id = id
           /\ slots[peer[id].slot].send_in_flight
           /\ slots[peer[id].slot].response_len = sends[id].frame.len
<1>1. id \in StreamId /\ Inv(Shell, peer) /\ Shell.sends[id].state = "pending"
  BY ShellFields, Zenon DEF Pending, ServerInv
<1>2. StreamOK(Shell, peer[id], id)
  BY <1>1, SamePeer, Zenon
<1>3. /\ Bound(peer[id]) /\ id \in ActiveIds(table) /\ Ctx(table, id).phase.tag = "Processing"
      /\ adapter = InFlight(id, slots[peer[id].slot].response_len)
      /\ sendbuf = sends[id].frame
      /\ slots[peer[id].slot].send_in_flight
      /\ slots[peer[id].slot].response_len = sends[id].frame.len
  BY <1>1, <1>2, PendingView, ShellFields
<1>4. /\ peer[id].slot \in ConnSlot
      /\ slots[peer[id].slot].in_use /\ slots[peer[id].slot].stream_id = id
  BY <1>1, <1>3, BoundSlot, ShellFields
<1> QED
  BY <1>1, <1>3, <1>4, Zenon

(* The send slot is taken only for a response MsQuic owns.                 *)
LEMMA TakenPending ==
    ASSUME ServerInv, adapter.send_in_flight
    PROVE  adapter.send_stream_id \in Pending
<1>1. adapter \in Adapter /\ AdapterOK(Shell)
  BY ShellFields, Zenon DEF ServerInv, Inv, ShellOK, ShellState
<1>2. adapter.send_stream_id \in StreamId
  BY <1>1, Zenon DEF Adapter
<1> QED
  BY <1>1, <1>2, ShellFields, Zenon DEF AdapterOK, Pending

(* The responses on record answer their streams' queries.                  *)
LEMMA SentView ==
    ASSUME ServerInv, NEW id \in StreamId, sends[id].state # "none"
    PROVE  /\ peer[id].life # "idle" /\ WholeQuery(peer[id].wire)
           /\ sends[id].frame = ExpectedFrame(peer[id].wire)
           /\ sends[id].state = "done" => id \notin ActiveIds(table)
<1>1. StreamOK(Shell, peer[id], id)
  BY SamePeer, Zenon DEF ServerInv
<1> QED
  BY <1>1, ShellFields, Zenon DEF StreamOK, SentOK

(* Every open entry is that of a stream with a slot of its own.            *)
LEMMA EntryBound ==
    ASSUME ServerInv, NEW id \in ActiveIds(table)
    PROVE  /\ id \in StreamId /\ Bound(peer[id]) /\ peer[id].slot \in ConnSlot
           /\ slots[peer[id].slot].in_use /\ slots[peer[id].slot].stream_id = id
<1>1. Inv(Shell, peer) /\ Good(table)
  BY ShellFields, Zenon DEF ServerInv, Inv, ShellOK
<1>2. id \in StreamId
  BY <1>1, TableFind, Zenon
<1>3. Bound(peer[id])
  <2>1. StreamOK(Shell, peer[id], id)
    BY <1>1, <1>2, SamePeer, Zenon
  <2> QED
    BY <2>1, ShellFields, Zenon DEF StreamOK, EntryOK
<1> QED
  BY <1>1, <1>2, <1>3, BoundSlot, ShellFields

----------------------------------------------------------------------------
(* The properties of the runs, for all constants in scope.                 *)

(* The shell's state keeps its types: phases and lengths stay in range,    *)
(* and no callback leaves an event behind.                                 *)
THEOREM TypeCorrect ==
    ASSUME Scope
    PROVE  Spec => []TypeOK
<1>1. ServerInv => TypeOK
  BY InvTypes, Zenon
<1> QED
  BY <1>1, ServerInvariant, PTL

(* prepare_ready_response never frames a second response over bytes that   *)
(* MsQuic still owns.                                                      *)
THEOREM SendBufferIsStable ==
    ASSUME Scope
    PROVE  Spec => []SendBufferStable
<1>1. ServerInv => SendBufferStable
  BY PendingStream, Zenon DEF SendBufferStable
<1> QED
  BY <1>1, ServerInvariant, PTL

(* The adapter's in-flight record, the stream slot's and MsQuic's agree    *)
(* between callbacks, so that the completion will be recognized.           *)
THEOREM SendIsTracked ==
    ASSUME Scope
    PROVE  Spec => []SendTracked
<1>1. ASSUME ServerInv PROVE SendTracked
  <2>1. \A id \in Pending : adapter.send_stream_id = id
    BY <1>1, PendingStream DEF InFlight
  <2>2. adapter.send_in_flight => Pending = {adapter.send_stream_id}
    BY <1>1, <2>1, TakenPending, Zenon
  <2>3. ASSUME NEW id \in Pending
        PROVE  /\ adapter = [send_in_flight |-> TRUE, send_stream_id |-> id,
                             send_len |-> sends[id].frame.len]
               /\ slots[peer[id].slot].in_use /\ slots[peer[id].slot].stream_id = id
               /\ slots[peer[id].slot].send_in_flight
               /\ slots[peer[id].slot].response_len = sends[id].frame.len
    BY <1>1, PendingStream, Zenon DEF InFlight
  <2> QED
    BY <2>2, <2>3, Zenon DEF SendTracked
<1> QED
  BY <1>1, ServerInvariant, PTL

(* The context of the stream whose response is in flight is neither closed *)
(* nor recycled nor moved out of Processing before the completion.         *)
THEOREM InFlightIsHeld ==
    ASSUME Scope
    PROVE  Spec => []InFlightStreamHeld
<1>1. ASSUME ServerInv PROVE InFlightStreamHeld
  <2> SUFFICES ASSUME adapter.send_in_flight PROVE Ready(adapter.send_stream_id)
    BY Zenon DEF InFlightStreamHeld
  <2> DEFINE id == adapter.send_stream_id
  <2>1. id \in ActiveIds(table) /\ Ctx(table, id).phase.tag = "Processing"
    BY <1>1, TakenPending, PendingStream, Zenon
  <2>2. Good(table)
    BY <1>1, ShellFields, Zenon DEF ServerInv, Inv, ShellOK
  <2> HIDE DEF id
  <2>3. Ready(id)
    BY <2>1, <2>2, TableFind, Zenon DEF Ready, Ctx
  <2> QED
    BY <2>3, Zenon DEF id
<1> QED
  BY <1>1, ServerInvariant, PTL

(* What the shell sends on a stream answers the query that the peer framed *)
(* on that stream, however the bytes were cut and the streams interleaved. *)
THEOREM ResponsesAnswer ==
    ASSUME Scope
    PROVE  Spec => []ResponseAnswersQuery
<1>1. ServerInv => ResponseAnswersQuery
  BY SentView, Zenon DEF ResponseAnswersQuery
<1> QED
  BY <1>1, ServerInvariant, PTL

(* A stream slot is released only after the table entry of its stream is   *)
(* closed: no entry is orphaned.                                           *)
THEOREM NoEntryOrphaned ==
    ASSUME Scope
    PROVE  Spec => []NoOrphanEntry
<1>1. ServerInv => NoOrphanEntry
  BY EntryBound, Zenon DEF NoOrphanEntry
<1> QED
  BY <1>1, ServerInvariant, PTL

(* The send slot is never taken on behalf of a stream nobody holds.        *)
THEOREM SendSlotIsOwned ==
    ASSUME Scope
    PROVE  Spec => []SendSlotOwned
<1>1. ASSUME ServerInv PROVE SendSlotOwned
  <2> SUFFICES ASSUME adapter.send_in_flight
               PROVE  SlotOf(Shell, adapter.send_stream_id) # {}
    BY Zenon DEF SendSlotOwned
  <2>1. adapter.send_stream_id \in Pending
    BY <1>1, TakenPending, Zenon
  <2> QED
    BY <1>1, <2>1, PendingStream, ShellFields, Zenon DEF SlotOf
<1> QED
  BY <1>1, ServerInvariant, PTL

(* A connection with one stream leaves the shared runtime as it found it,  *)
(* whatever its peer did: the next one starts afresh.  With more streams a *)
(* refused reset may leave a slot taken, which run shutdown_refused shows. *)
THEOREM StartsFresh ==
    ASSUME Scope, StreamId = {0}
    PROVE  Spec => []FreshStart
<1>1. ASSUME ServerInv PROVE FreshStart
  <2> SUFFICES ASSUME conn = "closed"
               PROVE  /\ ActiveIds(table) = {} /\ adapter = Idle /\ queue = <<>>
                      /\ FreeSlots(Shell) = ConnSlot
    BY Zenon DEF FreshStart
  <2>1. Inv(Shell, peer) /\ \A id \in StreamId : ~Bound(peer[id])
    BY <1>1, ClosedUnbound, Zenon DEF ServerInv
  <2>2. /\ ActiveIds(Shell.table) = {} /\ Shell.adapter = Idle
        /\ \A c \in ConnSlot : ~Shell.slots[c].in_use
    BY <2>1, NothingHeld, Zenon
  <2>3. queue = <<>>
    BY <2>1, ShellFields, Zenon DEF Inv, ShellOK, ShellState
  <2> QED
    BY <2>2, <2>3, ShellFields, Zenon DEF FreeSlots
<1> QED
  BY <1>1, ServerInvariant, PTL

(* A stream is given at most one response: its bytes stay what they were   *)
(* until MsQuic completes the send, and its record never changes again     *)
(* while the connection lasts.                                             *)
THEOREM AtMostOneResponse ==
    ASSUME Scope
    PROVE  Spec => OneResponsePerStream
<1>1. ASSUME ServerInv, [Next]_vars, conn # "closed"
      PROVE  \A id \in StreamId :
                /\ sends[id].state = "pending" => sends'[id].frame = sends[id].frame
                /\ sends[id].state = "done" => sends'[id] = sends[id]
  <2>1. ~AcceptConnection
    BY <1>1, Zenon DEF AcceptConnection
  <2> QED
    BY <1>1, <2>1, NextForward, Zenon DEF Forward
<1>2. ServerInv /\ [Next]_vars =>
          [conn # "closed" => \A id \in StreamId :
              /\ sends[id].state = "pending" => sends'[id].frame = sends[id].frame
              /\ sends[id].state = "done" => sends'[id] = sends[id]]_vars
  BY <1>1, Zenon
<1> QED
  BY <1>2, ServerInvariant, PTL DEF Spec, OneResponsePerStream

(* The shell closes a connection for a protocol error only by an event of  *)
(* a stream on which the peer broke the framing or ID rules, or which it   *)
(* stopped, or whose buffer is larger than the ingress buffer: whatever    *)
(* the ingress capacity, no cutting of a proper query into pieces that fit *)
(* and no number of other streams is ever answered that way.               *)
THEOREM ErrorsAreJustified ==
    ASSUME Scope, EntryPerSlot
    PROVE  Spec => ProtocolErrorJustified
<1>1. ASSUME ServerInv, [Next]_vars, ~fault, fault'
      PROVE  \E id \in StreamId : Blamed(id)
  <2>1. ~AcceptConnection
    BY <1>1, Zenon DEF AcceptConnection
  <2> QED
    BY <1>1, <2>1, NextForward, Zenon DEF Forward
<1>2. ServerInv /\ [Next]_vars =>
          [~fault /\ fault' => \E id \in StreamId : Blamed(id)]_vars
  BY <1>1, Zenon
<1> QED
  BY <1>2, ServerInvariant, PTL DEF Spec, ProtocolErrorJustified
=============================================================================
