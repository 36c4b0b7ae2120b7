-------------------------- MODULE DoqStagedLemmas ---------------------------
(***************************************************************************)
(* The server with staged events: a scheduler that leaves READY events in  *)
(* the queue, so that completions and resets may wait behind them and a    *)
(* full queue may refuse them.  Here are the invariant, as a property of a *)
(* shell value and of the peer's side, and what the shell's operations and *)
(* handlers keep of it; DoqStagedProofs has the actions and the theorems.  *)
(***************************************************************************)
EXTENDS ServerLemmas

(* The events left in the queue between callbacks: bytes and FIN are       *)
(* enqueued only on an empty queue and dispatched at once.                 *)
Queued ==
    [kind : {"READY", "SEND_COMPLETE", "RESET"}, stream_id : StreamId, data : {<<>>},
     len : 0 .. MaxMessage + 2, dropped : BOOLEAN]

StagedShell ==
    [table : TableOf(ServerShape), adapter : Adapter, sendbuf : Frames,
     queue : Seq(Queued), slots : [ConnSlot -> ConnSlotState], sends : [StreamId -> Send]]

StagedOK(m) == m \in StagedShell /\ Good(m.table)

----------------------------------------------------------------------------
(* The invariant, of a shell value m, a peer value p and the set D of the  *)
(* streams whose completion MsQuic has reported.                           *)

ReadyIds(t) == {id \in ActiveIds(t) : Ctx(t, id).phase.tag = "Processing"}

HasSent(m, id) == m.sends[id].state # "none"

Owed(m, D, id) == HasSent(m, id) /\ id \notin D

InFlightFor(m, id) == m.adapter.send_in_flight /\ m.adapter.send_stream_id = id

Ended(q) == q.eof \/ q.fin

Over(q) == q.stopped \/ q.reset \/ q.life \in {"shut", "closed"}

(* The stream's slot is its own, and its flags say what MsQuic owes.       *)
SlotBound(m, q, D, id) ==
    Bound(q) => /\ q.slot \in ConnSlot
                /\ m.slots[q.slot].in_use /\ m.slots[q.slot].stream_id = id
                /\ m.slots[q.slot].received_fin => Ended(q)
                /\ m.slots[q.slot].send_in_flight => Owed(m, D, id)

(* A stream is ready only after its end; X exempts the stream whose FIN is *)
(* being dispatched.                                                       *)
ReadyEnded(m, q, X, id) ==
    id \in ReadyIds(m.table) =>
        /\ Ended(q)
        /\ Bound(q) /\ id \notin X => m.slots[q.slot].received_fin

(* A response was given to MsQuic after the stream's end, and no second    *)
(* one can follow.                                                         *)
SentOnce(m, q, X, id) ==
    HasSent(m, id) =>
        /\ Ended(q)
        /\ Bound(q) /\ id \notin X => m.slots[q.slot].received_fin
        /\ id \in ReadyIds(m.table) => InFlightFor(m, id)

(* A completion MsQuic owes will be reported to the stream's slot; unless  *)
(* the peer stopped the stream, the adapter waits for it, with the bytes   *)
(* in the send buffer.                                                     *)
OwedHeld(m, q, D, id) ==
    Owed(m, D, id) =>
        /\ q.life = "live"
        /\ m.slots[q.slot].send_in_flight
        /\ m.slots[q.slot].response_len = m.sends[id].frame.len
        /\ q.stopped \/ (InFlightFor(m, id) /\ m.sendbuf = m.sends[id].frame)

(* The adapter's record is that of the response it was set for.            *)
AdapterRecord(m, id) ==
    InFlightFor(m, id) =>
        /\ HasSent(m, id)
        /\ m.adapter.send_len = m.sends[id].frame.len
        /\ m.adapter.send_len <= SendCapacity

StreamStaged(m, q, D, X, id) ==
    /\ SlotBound(m, q, D, id)
    /\ SentOnce(m, q, X, id)
    /\ OwedHeld(m, q, D, id)
    /\ AdapterRecord(m, id)
    /\ ReadyEnded(m, q, X, id)
    /\ id \in D => HasSent(m, id)

(* A slot in use belongs to the stream that holds it.                      *)
Owners(m, p) ==
    \A c \in ConnSlot : m.slots[c].in_use =>
        Bound(p[m.slots[c].stream_id]) /\ p[m.slots[c].stream_id].slot = c

Core(m, p, D, X) ==
    /\ StagedOK(m)
    /\ Owners(m, p)
    /\ \A id \in StreamId : StreamStaged(m, p[id], D, X, id)

(* A queued completion is one MsQuic reported; a queued reset is of a      *)
(* stream that the peer cancelled or that is over.                         *)
EventOK(p, D, e) ==
    /\ e \in Queued
    /\ e.kind = "SEND_COMPLETE" => e.stream_id \in D
    /\ e.kind = "RESET" => Over(p[e.stream_id])

Events(q) == {q[i] : i \in 1 .. Len(q)}

QueueOK(m, p, D) ==
    /\ Len(m.queue) <= QueueCapacity
    /\ \A e \in Events(m.queue) : EventOK(p, D, e)

ResetOf(e, id) == e.kind = "RESET" /\ e.stream_id = id

ResetQueued(m, id) == \E e \in Events(m.queue) : ResetOf(e, id)

(* The stream of the send in flight holds its slot, or its reset waits.    *)
SlotHeld(m, p) ==
    \A id \in StreamId : InFlightFor(m, id) => Bound(p[id]) \/ ResetQueued(m, id)

Completed == {id \in StreamId : sends[id].state = "done"}

PeersOK(p) ==
    /\ PeerOK(p)
    /\ \A id \in StreamId : p[id].reset => ~Ended(p[id])

Connected ==
    /\ conn \in {"open", "shutting", "closed"} /\ connections \in 0 .. MaxConnections
    /\ fault \in BOOLEAN
    /\ \A id \in StreamId : Live(id) => conn # "closed"
    /\ connections = 0 => conn = "closed" /\ \A id \in StreamId : peer[id].life = "idle"
    /\ \A id \in StreamId : peer[id].life = "idle" => peer[id] = Unstarted

StagedInv ==
    /\ Core(Shell, peer, Completed, {})
    /\ QueueOK(Shell, peer, Completed)
    /\ SlotHeld(Shell, peer)
    /\ PeersOK(peer)
    /\ Connected

----------------------------------------------------------------------------
(* The ready streams of a table.                                           *)

LEMMA ReadyType ==
    ASSUME NEW t, Good(t)
    PROVE  ReadyIds(t) \subseteq StreamId
  BY TableFind, Zenon DEF ReadyIds

LEMMA ReadyAfterClose ==
    ASSUME NEW t, Good(t), NEW id, NEW u \in Closings(t, id, ReadingLength)
    PROVE  Good(u) /\ u \in TableOf(ServerShape) /\ ReadyIds(u) = ReadyIds(t) \ {id}
<1>1. /\ Good(u) /\ ActiveIds(u) = ActiveIds(t) \ {id}
      /\ \A j \in ActiveIds(u) : Ctx(u, j) = Ctx(t, j)
  BY TableClose
<1> QED
  BY <1>1 DEF ReadyIds, Good, GoodTable

(* A context stored in the slot that open_stream returned.                 *)
LEMMA ReadyAfterStore ==
    ASSUME NEW t, Good(t), NEW id \in StreamId,
           NEW o, o = open_stream(t, id, ReadingLength), o.slot # NULL,
           NEW c \in Context, c.id = id
    PROVE  /\ Good(Put(o, c)) /\ Put(o, c) \in TableOf(ServerShape)
           /\ c.phase.tag = "Processing" => ReadyIds(Put(o, c)) = ReadyIds(t) \cup {id}
           /\ c.phase.tag # "Processing" => ReadyIds(Put(o, c)) = ReadyIds(t) \ {id}
<1>1. /\ Good(Put(o, c)) /\ ActiveIds(Put(o, c)) = ActiveIds(t) \cup {id}
      /\ Ctx(Put(o, c), id) = c
      /\ \A j \in ActiveIds(t) \ {id} : Ctx(Put(o, c), j) = Ctx(t, j)
  BY TableOpen
<1>2. Put(o, c) \in TableOf(ServerShape)
  BY <1>1, Zenon DEF Good, GoodTable
<1>3. \A j : j \in ReadyIds(Put(o, c)) <=>
                 \/ j = id /\ c.phase.tag = "Processing"
                 \/ j # id /\ j \in ReadyIds(t)
  BY <1>1, Zenon DEF ReadyIds
<1> QED
  BY <1>1, <1>2, <1>3, Zenon

----------------------------------------------------------------------------
(* The fields of a shell value.                                            *)

(* n differs from m in the named fields only.                              *)
TableOnly(m, n) ==
    /\ n.adapter = m.adapter /\ n.sendbuf = m.sendbuf /\ n.queue = m.queue
    /\ n.slots = m.slots /\ n.sends = m.sends

LEMMA ShellFields ==
    ASSUME NEW m \in StagedShell
    PROVE  /\ m.table \in TableOf(ServerShape) /\ m.adapter \in Adapter /\ m.sendbuf \in Frames
           /\ m.queue \in Seq(Queued) /\ m.slots \in [ConnSlot -> ConnSlotState]
           /\ m.sends \in [StreamId -> Send]
  BY Zenon DEF StagedShell

(* The shell after its table, or its table and adapter, were replaced.     *)
LEMMA TableReplaced ==
    ASSUME NEW m \in StagedShell, NEW t \in TableOf(ServerShape),
           NEW n, n = [m EXCEPT !.table = t]
    PROVE  n \in StagedShell /\ n.table = t /\ TableOnly(m, n)
  BY Zenon DEF StagedShell, TableOnly

LEMMA FinishedFields ==
    ASSUME NEW m \in StagedShell, Good(m.table), NEW id, NEW n, n = Finished(m, id)
    PROVE  /\ n \in StagedShell /\ Good(n.table)
           /\ ReadyIds(n.table) = ReadyIds(m.table) \ {id}
           /\ n.adapter = Idle /\ n.sendbuf = m.sendbuf /\ n.queue = m.queue
           /\ n.slots = m.slots /\ n.sends = m.sends
<1> DEFINE t == dispatch_response_send_finished(m.table, id, ReadingLength)
<1>1. Good(t) /\ t \in TableOf(ServerShape) /\ ReadyIds(t) = ReadyIds(m.table) \ {id}
  BY ReadyAfterClose, Zenon DEF Closings
<1>2. n = [m EXCEPT !.table = t, !.adapter = Idle]
  BY Zenon DEF Finished
<1> HIDE DEF t
<1>3. /\ n \in StagedShell /\ n.table = t
      /\ n.adapter = Idle /\ n.sendbuf = m.sendbuf /\ n.queue = m.queue
      /\ n.slots = m.slots /\ n.sends = m.sends
  BY <1>1, <1>2, IdleType, Zenon DEF StagedShell
<1> QED
  BY <1>1, <1>3, Zenon

----------------------------------------------------------------------------
(* Serving a ready stream.                                                 *)

(* A stream has at most one slot.                                          *)
LEMMA OneSlot ==
    ASSUME NEW m, NEW p, Owners(m, p), NEW id
    PROVE  \/ SlotOf(m, id) = {}
           \/ \E c \in ConnSlot : SlotOf(m, id) = {c}
  BY DEF Owners, SlotOf

(* MsQuic took the frame.                                                  *)
Given(m, n, id, c, frame) ==
    /\ n \in StagedShell /\ n.table = m.table /\ n.queue = m.queue
    /\ n.adapter = [send_in_flight |-> TRUE, send_stream_id |-> id, send_len |-> frame.len]
    /\ n.sendbuf = frame
    /\ n.slots = [m.slots EXCEPT ![c] = Busy(@, frame.len)]
    /\ n.sends = [m.sends EXCEPT ![id] = [state |-> "pending", frame |-> frame]]

(* MsQuic refused it, or the stream has no slot to send from, or its slot  *)
(* is busy: the response is dropped and the stream closed.                 *)
Refused(m, n, id, frame) ==
    /\ n \in StagedShell /\ Good(n.table) /\ ReadyIds(n.table) = ReadyIds(m.table) \ {id}
    /\ n.adapter = Idle /\ n.sendbuf = frame /\ n.queue = m.queue /\ n.sends = m.sends
    /\ \/ n.slots = m.slots
       \/ \E c \in SlotOf(m, id) :
             ~m.slots[c].send_in_flight /\ n.slots = [m.slots EXCEPT ![c] = Cleared(@)]

Serving(m, n, id, up, frame) ==
    /\ ~m.adapter.send_in_flight
    /\ id \in ReadyIds(m.table)
    /\ frame \in Frames /\ frame.len \in 1 .. SendCapacity
    /\ \/ id \in up /\ \E c \in SlotOf(m, id) :
             ~m.slots[c].send_in_flight /\ Given(m, n, id, c, frame)
       \/ Refused(m, n, id, frame)

StagedServe(m, n, id, up) == n = m \/ Serving(m, n, id, up, ReadyFrame(m, id))

LEMMA FrameLength ==
    ASSUME NEW frame \in Frames
    PROVE  frame.len \in 0 .. MaxMessage + 2
  BY MessageSizes DEF Frames, NoFrame, Frame

LEMMA StartedFields ==
    ASSUME NEW m \in StagedShell, NEW id \in StreamId, NEW frame \in Frames,
           NEW s, s = Started(m, id, frame)
    PROVE  /\ s \in StagedShell /\ s.table = m.table /\ s.queue = m.queue
           /\ s.slots = m.slots /\ s.sends = m.sends /\ s.sendbuf = frame
           /\ s.adapter = [send_in_flight |-> TRUE, send_stream_id |-> id, send_len |-> frame.len]
  BY FrameLength, Zenon DEF Started, StagedShell, Adapter

(* The slot's send state set for a frame that MsQuic takes, and cleared.   *)
SlotTaken(s, c, id, frame) ==
    [s EXCEPT !.slots[c]  = Busy(@, frame.len),
              !.sends[id] = [state |-> "pending", frame |-> frame]]

SlotCleared(s, c) == [s EXCEPT !.slots[c] = Cleared(@)]

(* runtime_send on a shell s whose stream has at most one slot.            *)
LEMMA RuntimeSend ==
    ASSUME NEW s \in StagedShell, NEW id \in StreamId, NEW frame \in Frames, frame.len # 0, NEW up,
           SlotOf(s, id) = {} \/ \E c \in ConnSlot : SlotOf(s, id) = {c},
           NEW r, r = runtime_send(s, id, frame, up)
    PROVE  \/ r = [m |-> s, sent |-> FALSE]
           \/ \E c \in SlotOf(s, id) :
                 /\ ~s.slots[c].send_in_flight
                 /\ \/ id \in up /\ r = [m |-> SlotTaken(s, c, id, frame), sent |-> TRUE]
                    \/ r = [m |-> SlotCleared(s, c), sent |-> FALSE]
<1>1. CASE SlotOf(s, id) = {}
  BY <1>1, Zenon DEF runtime_send
<1>2. ASSUME NEW c \in ConnSlot, SlotOf(s, id) = {c}
      PROVE  \/ r = [m |-> s, sent |-> FALSE]
             \/ /\ ~s.slots[c].send_in_flight
                /\ \/ id \in up /\ r = [m |-> SlotTaken(s, c, id, frame), sent |-> TRUE]
                   \/ r = [m |-> SlotCleared(s, c), sent |-> FALSE]
  <2>1. c = CHOOSE k \in SlotOf(s, id) : \A j \in SlotOf(s, id) : k <= j
    <3>1. c \in Int
      BY DEF ConnSlot
    <3> QED
      BY <1>2, <3>1
  <2>2. SlotOf(s, id) # {}
    BY <1>2, Zenon
  <2> QED
    BY <2>1, <2>2, Zenon DEF runtime_send, SlotTaken, SlotCleared
<1> QED
  BY <1>1, <1>2, Zenon

LEMMA SlotTakenFields ==
    ASSUME NEW s \in StagedShell, NEW c \in ConnSlot, NEW id \in StreamId, NEW frame \in Frames,
           NEW n, n = SlotTaken(s, c, id, frame)
    PROVE  /\ n \in StagedShell /\ n.table = s.table /\ n.queue = s.queue
           /\ n.adapter = s.adapter /\ n.sendbuf = s.sendbuf
           /\ n.slots = [s.slots EXCEPT ![c] = Busy(@, frame.len)]
           /\ n.sends = [s.sends EXCEPT ![id] = [state |-> "pending", frame |-> frame]]
<1> DEFINE slot == Busy(s.slots[c], frame.len)
           send == [state |-> "pending", frame |-> frame]
<1>1. s.slots[c] \in ConnSlotState
  BY ShellFields, Zenon
<1>2. slot \in ConnSlotState
  BY <1>1, SlotStates, FrameLength, Zenon
<1>3. send \in Send
  BY Zenon DEF Send
<1>4. n = [s EXCEPT !.slots[c] = slot, !.sends[id] = send]
  BY Zenon DEF SlotTaken
<1> HIDE DEF slot, send
<1> DEFINE a == [s.slots EXCEPT ![c] = slot]
           b == [s.sends EXCEPT ![id] = send]
<1>5. a \in [ConnSlot -> ConnSlotState] /\ b \in [StreamId -> Send]
  BY <1>2, <1>3, ShellFields, Zenon
<1>6. n = [s EXCEPT !.slots = a, !.sends = b]
  BY <1>4, Zenon
<1> HIDE DEF a, b
<1>7. /\ n \in StagedShell /\ n.table = s.table /\ n.queue = s.queue
      /\ n.adapter = s.adapter /\ n.sendbuf = s.sendbuf /\ n.slots = a /\ n.sends = b
  BY <1>5, <1>6, Zenon DEF StagedShell
<1> QED
  BY <1>7, Zenon DEF a, b, slot, send

LEMMA SlotClearedFields ==
    ASSUME NEW s \in StagedShell, NEW c \in ConnSlot, NEW n, n = SlotCleared(s, c)
    PROVE  /\ n \in StagedShell /\ n.table = s.table /\ n.queue = s.queue
           /\ n.adapter = s.adapter /\ n.sendbuf = s.sendbuf /\ n.sends = s.sends
           /\ n.slots = [s.slots EXCEPT ![c] = Cleared(@)]
<1> DEFINE slot == Cleared(s.slots[c])
<1>1. s.slots[c] \in ConnSlotState
  BY ShellFields, Zenon
<1>2. slot \in ConnSlotState
  BY <1>1, SlotStates, NoLength, Zenon
<1>3. n = [s EXCEPT !.slots[c] = slot]
  BY Zenon DEF SlotCleared
<1> HIDE DEF slot
<1>4. /\ n \in StagedShell /\ n.table = s.table /\ n.queue = s.queue
      /\ n.adapter = s.adapter /\ n.sendbuf = s.sendbuf /\ n.sends = s.sends
      /\ n.slots = [s.slots EXCEPT ![c] = slot]
  BY <1>2, <1>3, Zenon DEF StagedShell
<1> QED
  BY <1>4, Zenon DEF slot

LEMMA ServeEffect ==
    ASSUME NEW m, StagedOK(m), NEW id \in StreamId, NEW up,
           SlotOf(m, id) = {} \/ \E c \in ConnSlot : SlotOf(m, id) = {c},
           NEW n, n = prepare_ready_response(m, id, up).m
    PROVE  StagedServe(m, n, id, up)
<1> DEFINE fr == ReadyFrame(m, id)
           s == Started(m, id, fr)
           r == runtime_send(s, id, fr, up)
<1>0. m \in StagedShell /\ Good(m.table)
  BY Zenon DEF StagedOK
<1>1. CASE m.adapter.send_in_flight \/ fr.len = 0
  BY <1>1, Zenon DEF prepare_ready_response, StartSend, NotSent, StagedServe
<1>2. CASE ~m.adapter.send_in_flight /\ fr.len # 0
  <2>1. n = IF r.sent THEN r.m ELSE Finished(r.m, id)
    BY <1>2, Zenon DEF prepare_ready_response, StartSend, SendOutcome
  <2>2. fr \in Frames /\ fr.len \in 1 .. SendCapacity /\ id \in ReadyIds(m.table)
    BY <1>0, <1>2, ReadyFrameType, Zenon DEF ReadyIds
  <2> HIDE DEF fr
  <2>3. /\ s \in StagedShell /\ s.table = m.table /\ s.queue = m.queue
        /\ s.slots = m.slots /\ s.sends = m.sends /\ s.sendbuf = fr
        /\ s.adapter = [send_in_flight |-> TRUE, send_stream_id |-> id, send_len |-> fr.len]
    BY <1>0, <2>2, StartedFields
  <2>4. SlotOf(s, id) = SlotOf(m, id)
    BY <2>3, Zenon DEF SlotOf
  <2> HIDE DEF s
  <2>5. SUFFICES ASSUME TRUE
                 PROVE  \/ id \in up /\ \E c \in SlotOf(m, id) :
                              ~m.slots[c].send_in_flight /\ Given(m, n, id, c, fr)
                        \/ Refused(m, n, id, fr)
    BY <1>2, <2>2, Zenon DEF StagedServe, Serving, fr
  <2>6. CASE r = [m |-> s, sent |-> FALSE]
    <3>1. n = Finished(s, id)
      BY <2>1, <2>6
    <3> QED
      BY <1>0, <2>3, <3>1, FinishedFields DEF Refused
  <2>7. ASSUME NEW c \in SlotOf(s, id), ~s.slots[c].send_in_flight, id \in up,
               r = [m |-> SlotTaken(s, c, id, fr), sent |-> TRUE]
        PROVE  \E k \in SlotOf(m, id) : ~m.slots[k].send_in_flight /\ Given(m, n, id, k, fr)
    <3>1. n = SlotTaken(s, c, id, fr)
      BY <2>1, <2>7
    <3>2. c \in ConnSlot
      BY Zenon DEF SlotOf
    <3>3. /\ n \in StagedShell /\ n.table = s.table /\ n.queue = s.queue
          /\ n.adapter = s.adapter /\ n.sendbuf = s.sendbuf
          /\ n.slots = [s.slots EXCEPT ![c] = Busy(@, fr.len)]
          /\ n.sends = [s.sends EXCEPT ![id] = [state |-> "pending", frame |-> fr]]
      BY <2>2, <2>3, <3>1, <3>2, SlotTakenFields
    <3>4. Given(m, n, id, c, fr)
      BY <2>3, <3>3, Zenon DEF Given
    <3> QED
      BY <2>3, <2>4, <2>7, <3>4, Zenon
  <2>8. ASSUME NEW c \in SlotOf(s, id), ~s.slots[c].send_in_flight,
               r = [m |-> SlotCleared(s, c), sent |-> FALSE]
        PROVE  Refused(m, n, id, fr)
    <3> DEFINE u == SlotCleared(s, c)
    <3>1. n = Finished(u, id)
      BY <2>1, <2>8
    <3>2. c \in ConnSlot
      BY Zenon DEF SlotOf
    <3>3. /\ u \in StagedShell /\ u.table = s.table /\ u.queue = s.queue
          /\ u.adapter = s.adapter /\ u.sendbuf = s.sendbuf /\ u.sends = s.sends
          /\ u.slots = [s.slots EXCEPT ![c] = Cleared(@)]
      BY <2>3, <3>2, SlotClearedFields
    <3> HIDE DEF u
    <3>4. /\ n \in StagedShell /\ Good(n.table)
          /\ ReadyIds(n.table) = ReadyIds(m.table) \ {id}
          /\ n.adapter = Idle /\ n.sendbuf = fr /\ n.queue = m.queue /\ n.sends = m.sends
          /\ n.slots = [m.slots EXCEPT ![c] = Cleared(@)]
      BY <1>0, <2>3, <3>1, <3>3, FinishedFields
    <3>5. c \in SlotOf(m, id) /\ ~m.slots[c].send_in_flight
      BY <2>3, <2>4, <2>8, Zenon
    <3> QED
      BY <3>4, <3>5, Zenon DEF Refused
  <2> QED
    BY <1>2, <2>2, <2>3, <2>4, <2>6, <2>7, <2>8, RuntimeSend
<1> QED
  BY <1>1, <1>2, Zenon

----------------------------------------------------------------------------
(* A queued event dispatched: e was taken off the queue of m.              *)

(* The send slot given back and the stream closed.                         *)
GivenBack(m, n, id) ==
    /\ n \in StagedShell /\ Good(n.table) /\ ReadyIds(n.table) = ReadyIds(m.table) \ {id}
    /\ n.adapter = Idle /\ n.sendbuf = m.sendbuf /\ n.queue = m.queue
    /\ n.slots = m.slots /\ n.sends = m.sends

(* The stream closed.                                                      *)
Closed(m, n, id) ==
    /\ n \in StagedShell /\ Good(n.table) /\ ReadyIds(n.table) = ReadyIds(m.table) \ {id}
    /\ TableOnly(m, n)

LEMMA CompletionEffect ==
    ASSUME NEW m, StagedOK(m), NEW id, NEW len,
           NEW r, r = adapter_on_send_complete(m, id, len)
    PROVE  \/ r = [m |-> m, ok |-> FALSE] /\ ~Completes(m, id, len)
           \/ Completes(m, id, len) /\ r.ok /\ GivenBack(m, r.m, id)
<1>1. CASE ~Completes(m, id, len)
  BY <1>1, Zenon DEF adapter_on_send_complete
<1>2. CASE Completes(m, id, len)
  <2>1. r = [m |-> Finished(m, id), ok |-> TRUE]
    BY <1>2, Zenon DEF adapter_on_send_complete
  <2> QED
    BY <1>2, <2>1, FinishedFields DEF StagedOK, GivenBack
<1> QED
  BY <1>1, <1>2, Zenon

LEMMA ResetEffect ==
    ASSUME NEW m, StagedOK(m), NEW id,
           \A j \in StreamId : AdapterRecord(m, j),
           NEW r, r = adapter_on_stream_reset(m, id)
    PROVE  \/ /\ m.adapter.send_in_flight /\ ~InFlightFor(m, id)
              /\ r = [m |-> m, ok |-> FALSE]
           \/ InFlightFor(m, id) /\ r.ok /\ GivenBack(m, r.m, id)
           \/ ~m.adapter.send_in_flight /\ r.ok /\ Closed(m, r.m, id)
<1>0. m \in StagedShell /\ Good(m.table) /\ m.adapter \in Adapter
  BY ShellFields, Zenon DEF StagedOK
<1>1. CASE m.adapter.send_in_flight /\ m.adapter.send_stream_id # id
  BY <1>1, Zenon DEF adapter_on_stream_reset, InFlightFor
<1>2. CASE m.adapter.send_in_flight /\ m.adapter.send_stream_id = id
  <2>1. r = adapter_on_send_complete(m, id, m.adapter.send_len)
    BY <1>2, Zenon DEF adapter_on_stream_reset
  <2>2. Completes(m, id, m.adapter.send_len)
    <3>1. id \in StreamId
      BY <1>0, <1>2, Zenon DEF Adapter
    <3> QED
      BY <1>2, <3>1, Zenon DEF Completes, AdapterRecord, InFlightFor
  <2> QED
    BY <1>2, <2>1, <2>2, CompletionEffect, Zenon DEF InFlightFor
<1>3. CASE ~m.adapter.send_in_flight
  <2> DEFINE t == dispatch_stream_reset(m.table, id, ReadingLength)
             n == [m EXCEPT !.table = t]
  <2>1. r = [m |-> n, ok |-> TRUE]
    BY <1>3, Zenon DEF adapter_on_stream_reset
  <2>2. Good(t) /\ t \in TableOf(ServerShape) /\ ReadyIds(t) = ReadyIds(m.table) \ {id}
    BY <1>0, ReadyAfterClose, Zenon DEF Closings
  <2>3. n \in StagedShell /\ n.table = t /\ TableOnly(m, n)
    BY <1>0, <2>2, TableReplaced, Zenon
  <2> HIDE DEF t, n
  <2> QED
    BY <1>3, <2>1, <2>2, <2>3 DEF Closed
<1> QED
  BY <1>1, <1>2, <1>3, Zenon

----------------------------------------------------------------------------
(* What these effects keep of the invariant.                               *)

(* A stream that has a response keeps it; a new one starts as pending.     *)
SendsKept(m, n) ==
    \A j \in StreamId : \/ n.sends[j] = m.sends[j]
                        \/ ~HasSent(m, j) /\ n.sends[j].state = "pending"

(* The adapter is not taken anew.                                          *)
NotTaken(m, n) == \A j \in StreamId : InFlightFor(n, j) => InFlightFor(m, j)

LEMMA NotTakenHeld ==
    ASSUME NEW m, NEW n, NEW p, n.queue = m.queue, NotTaken(m, n), SlotHeld(m, p)
    PROVE  SlotHeld(n, p)
  BY Zenon DEF NotTaken, SlotHeld, ResetQueued

(* Only the table changed, and no stream became ready.                     *)
LEMMA ShrinkCore ==
    ASSUME NEW m, NEW n, NEW p, NEW D, NEW X, Core(m, p, D, X),
           n \in StagedShell, Good(n.table), TableOnly(m, n),
           ReadyIds(n.table) \subseteq ReadyIds(m.table)
    PROVE  Core(n, p, D, X) /\ SendsKept(m, n) /\ NotTaken(m, n)
<1>1. ASSUME NEW j \in StreamId PROVE StreamStaged(n, p[j], D, X, j)
  <2>1. StreamStaged(m, p[j], D, X, j)
    BY Zenon DEF Core
  <2> QED
    BY <2>1, Zenon
       DEF StreamStaged, SlotBound, SentOnce, OwedHeld, AdapterRecord, ReadyEnded,
                TableOnly, InFlightFor, HasSent, Owed
<1>2. SendsKept(m, n) /\ NotTaken(m, n)
  BY Zenon DEF TableOnly, SendsKept, NotTaken, InFlightFor
<1> QED
  BY <1>1, <1>2, Zenon DEF Core, StagedOK, Owners, TableOnly

(* The completion of stream id is owed no more, or its stream was stopped. *)
Settled(m, q, D, id) == ~Owed(m, D, id) \/ q.stopped

LEMMA GivenBackCore ==
    ASSUME NEW m, NEW n, NEW p, NEW D, NEW X, Core(m, p, D, X),
           NEW id \in StreamId, InFlightFor(m, id), Settled(m, p[id], D, id),
           GivenBack(m, n, id)
    PROVE  Core(n, p, D, X) /\ SendsKept(m, n) /\ NotTaken(m, n)
<1>0. ~n.adapter.send_in_flight
  BY IdleType, Zenon DEF GivenBack
<1>1. ASSUME NEW j \in StreamId PROVE StreamStaged(n, p[j], D, X, j)
  <2>1. StreamStaged(m, p[j], D, X, j)
    BY Zenon DEF Core
  <2>2. SlotBound(n, p[j], D, j) /\ (j \in D => HasSent(n, j))
    BY <2>1, Zenon DEF StreamStaged, SlotBound, GivenBack, HasSent, Owed
  <2>3. SentOnce(n, p[j], X, j) /\ ReadyEnded(n, p[j], X, j)
    BY <2>1, Zenon DEF StreamStaged, SentOnce, ReadyEnded, GivenBack, HasSent, InFlightFor
  <2>4. OwedHeld(n, p[j], D, j) /\ AdapterRecord(n, j)
    BY <1>0, <2>1, Zenon
       DEF StreamStaged, OwedHeld, AdapterRecord, GivenBack, HasSent, Owed,
                      InFlightFor, Settled
  <2> QED
    BY <2>2, <2>3, <2>4, Zenon DEF StreamStaged
<1>2. SendsKept(m, n) /\ NotTaken(m, n)
  BY <1>0, Zenon DEF GivenBack, SendsKept, NotTaken, InFlightFor
<1> QED
  BY <1>1, <1>2, Zenon DEF Core, StagedOK, Owners, GivenBack

LEMMA RefusedCore ==
    ASSUME NEW m, NEW n, NEW p, NEW D, NEW X, Core(m, p, D, X), ~m.adapter.send_in_flight,
           NEW id \in StreamId, NEW frame, Refused(m, n, id, frame)
    PROVE  Core(n, p, D, X) /\ SendsKept(m, n) /\ NotTaken(m, n)
<1>0. ~n.adapter.send_in_flight
  BY IdleType, Zenon DEF Refused
<1>s. m.slots \in [ConnSlot -> ConnSlotState]
  BY ShellFields, Zenon DEF Core, StagedOK
<1>1. \A d \in ConnSlot :
          /\ n.slots[d].in_use = m.slots[d].in_use /\ n.slots[d].stream_id = m.slots[d].stream_id
          /\ n.slots[d].received_fin = m.slots[d].received_fin
          /\ n.slots[d] = m.slots[d]
                \/ (~m.slots[d].send_in_flight /\ ~n.slots[d].send_in_flight)
  <2>1. CASE n.slots = m.slots
    BY <2>1, Zenon
  <2>2. ASSUME NEW c \in SlotOf(m, id), ~m.slots[c].send_in_flight,
               n.slots = [m.slots EXCEPT ![c] = Cleared(@)],
               NEW d \in ConnSlot
        PROVE  /\ n.slots[d].in_use = m.slots[d].in_use
               /\ n.slots[d].stream_id = m.slots[d].stream_id
               /\ n.slots[d].received_fin = m.slots[d].received_fin
               /\ n.slots[d] = m.slots[d]
                      \/ (~m.slots[d].send_in_flight /\ ~n.slots[d].send_in_flight)
    <3>1. CASE d # c
      BY <1>s, <2>2, <3>1, Zenon
    <3>2. CASE d = c
      <4>1. n.slots[d] = Cleared(m.slots[d]) /\ m.slots[d] \in ConnSlotState
        BY <1>s, <2>2, <3>2, Zenon
      <4> QED
        BY <2>2, <3>2, <4>1, SlotFields, SendFlags
    <3> QED
      BY <3>1, <3>2, Zenon
  <2> QED
    BY <2>1, <2>2, Zenon DEF Refused
<1>2. ASSUME NEW j \in StreamId PROVE StreamStaged(n, p[j], D, X, j)
  <2>1. StreamStaged(m, p[j], D, X, j)
    BY Zenon DEF Core
  <2>2. SlotBound(n, p[j], D, j) /\ (j \in D => HasSent(n, j))
    BY <1>1, <2>1, Zenon DEF StreamStaged, SlotBound, Refused, HasSent, Owed
  <2>3. SentOnce(n, p[j], X, j) /\ ReadyEnded(n, p[j], X, j)
    BY <1>1, <2>1, Zenon
       DEF StreamStaged, SlotBound, SentOnce, ReadyEnded, Refused, HasSent, InFlightFor
  <2>4. OwedHeld(n, p[j], D, j) /\ AdapterRecord(n, j)
    <3>1. Owed(n, D, j) => Owed(m, D, j) /\ Bound(p[j])
      BY <2>1, Zenon DEF StreamStaged, OwedHeld, Refused, HasSent, Owed, Bound
    <3> QED
      BY <1>0, <1>1, <2>1, <3>1, Zenon
         DEF StreamStaged, SlotBound, OwedHeld, AdapterRecord, Refused,
                                    InFlightFor
  <2> QED
    BY <2>2, <2>3, <2>4, Zenon DEF StreamStaged
<1>3. SendsKept(m, n) /\ NotTaken(m, n)
  BY <1>0, Zenon DEF Refused, SendsKept, NotTaken, InFlightFor
<1>4. Owners(n, p)
  BY <1>1, Zenon DEF Core, Owners
<1> QED
  BY <1>2, <1>3, <1>4, Zenon DEF Core, StagedOK, Refused

(* A stream on which StreamSend would succeed is live, unless its response *)
(* was sent already.                                                       *)
CanSend(m, p, up) == \A id \in up : p[id].life = "live" \/ HasSent(m, id)

LEMMA GivenCore ==
    ASSUME NEW m, NEW n, NEW p, NEW D, NEW X, Core(m, p, D, X), ~m.adapter.send_in_flight,
           NEW id \in StreamId, id \in ReadyIds(m.table),
           p[id].life = "live" \/ HasSent(m, id),
           NEW c \in SlotOf(m, id), ~m.slots[c].send_in_flight,
           NEW frame, frame.len \in 1 .. SendCapacity, Given(m, n, id, c, frame)
    PROVE  /\ Core(n, p, D, X) /\ SendsKept(m, n) /\ ~HasSent(m, id) /\ p[id].life = "live"
           /\ \A j \in StreamId : InFlightFor(n, j) => j = id
<1>s. /\ m.slots \in [ConnSlot -> ConnSlotState] /\ m.sends \in [StreamId -> Send]
      /\ Good(m.table) /\ c \in ConnSlot /\ m.slots[c].stream_id = id /\ m.slots[c].in_use
  BY ShellFields, Zenon DEF Core, StagedOK, SlotOf
<1>0. StreamStaged(m, p[id], D, X, id)
  BY Zenon DEF Core
<1>1. ~HasSent(m, id) /\ p[id].life = "live" /\ id \notin D
  BY <1>0, Zenon DEF StreamStaged, SentOnce, InFlightFor
<1>2. p[id].slot = c /\ Bound(p[id])
  BY <1>s, Zenon DEF Core, Owners
<1>3. /\ n.adapter.send_in_flight /\ n.adapter.send_stream_id = id
      /\ n.adapter.send_len = frame.len /\ n.sendbuf = frame
      /\ n.table = m.table /\ n.queue = m.queue
  BY DEF Given
<1>4. /\ n.sends[id].state = "pending" /\ n.sends[id].frame = frame
      /\ \A j \in StreamId \ {id} : n.sends[j] = m.sends[j]
  BY <1>s DEF Given
<1>5. /\ n.slots[c] = Busy(m.slots[c], frame.len)
      /\ \A d \in ConnSlot \ {c} : n.slots[d] = m.slots[d]
  BY <1>s, Zenon DEF Given
<1>6. /\ n.slots[c].in_use /\ n.slots[c].stream_id = id
      /\ n.slots[c].received_fin = m.slots[c].received_fin
      /\ n.slots[c].send_in_flight /\ n.slots[c].response_len = frame.len
  <2>1. m.slots[c] \in ConnSlotState
    BY <1>s, Zenon
  <2> QED
    BY <1>s, <1>5, <2>1, SlotFields, SendFlags
<1>7. StreamStaged(n, p[id], D, X, id)
  <2>1. SlotBound(n, p[id], D, id) /\ (id \in D => HasSent(n, id))
    BY <1>0, <1>1, <1>2, <1>4, <1>6, <1>s, Zenon DEF StreamStaged, SlotBound, HasSent, Owed
  <2>2. ReadyEnded(n, p[id], X, id) /\ SentOnce(n, p[id], X, id)
    BY <1>0, <1>2, <1>3, <1>6, Zenon DEF StreamStaged, ReadyEnded, SentOnce, InFlightFor
  <2>3. OwedHeld(n, p[id], D, id)
    BY <1>1, <1>2, <1>3, <1>4, <1>6, Zenon DEF OwedHeld, InFlightFor
  <2>4. AdapterRecord(n, id)
    BY <1>3, <1>4 DEF AdapterRecord, HasSent
  <2> QED
    BY <2>1, <2>2, <2>3, <2>4, Zenon DEF StreamStaged
<1>8. ASSUME NEW j \in StreamId \ {id} PROVE StreamStaged(n, p[j], D, X, j)
  <2>1. StreamStaged(m, p[j], D, X, j)
    BY Zenon DEF Core
  <2>2. Bound(p[j]) => n.slots[p[j].slot] = m.slots[p[j].slot] /\ p[j].slot \in ConnSlot
    BY <1>5, <1>s, <2>1, Zenon DEF StreamStaged, SlotBound
  <2>3. SlotBound(n, p[j], D, j) /\ (j \in D => HasSent(n, j))
    BY <1>4, <2>1, <2>2, Zenon DEF StreamStaged, SlotBound, HasSent, Owed
  <2>4. ReadyEnded(n, p[j], X, j) /\ SentOnce(n, p[j], X, j)
    BY <1>3, <1>4, <2>1, <2>2, Zenon
       DEF StreamStaged, ReadyEnded, SentOnce, InFlightFor, HasSent
  <2>5. OwedHeld(n, p[j], D, j)
    BY <1>4, <2>1, <2>2, Zenon DEF StreamStaged, OwedHeld, InFlightFor, HasSent, Owed, Bound
  <2>6. AdapterRecord(n, j)
    BY <1>3, Zenon DEF AdapterRecord, InFlightFor
  <2> QED
    BY <2>3, <2>4, <2>5, <2>6, Zenon DEF StreamStaged
<1>9. Owners(n, p)
  BY <1>2, <1>5, <1>6 DEF Core, Owners
<1>10. StagedOK(n)
  BY <1>s, <1>3, Zenon DEF StagedOK, Given
<1>11. SendsKept(m, n)
  BY <1>1, <1>4, Zenon DEF SendsKept
<1> QED
  BY <1>1, <1>3, <1>7, <1>8, <1>9, <1>10, <1>11, Zenon DEF Core, InFlightFor

(* A served stream, whoever asked for it.                                  *)
LEMMA ServeCore ==
    ASSUME NEW m, NEW n, NEW p, NEW D, NEW X, Core(m, p, D, X), SlotHeld(m, p),
           NEW id \in StreamId, NEW up, CanSend(m, p, up), StagedServe(m, n, id, up)
    PROVE  /\ Core(n, p, D, X) /\ SendsKept(m, n) /\ SlotHeld(n, p) /\ n.queue = m.queue
           /\ ReadyIds(n.table) \subseteq ReadyIds(m.table)
<1>1. CASE n = m
  BY <1>1, Zenon DEF SendsKept
<1>2. CASE n # m
  <2> DEFINE frame == ReadyFrame(m, id)
  <2>1. Serving(m, n, id, up, frame)
    BY <1>2, Zenon DEF StagedServe
  <2> HIDE DEF frame
  <2>2. ASSUME id \in up, NEW c \in SlotOf(m, id), ~m.slots[c].send_in_flight,
               Given(m, n, id, c, frame)
        PROVE  /\ Core(n, p, D, X) /\ SendsKept(m, n) /\ SlotHeld(n, p) /\ n.queue = m.queue
               /\ ReadyIds(n.table) \subseteq ReadyIds(m.table)
    <3>1. /\ Core(n, p, D, X) /\ SendsKept(m, n) /\ p[id].life = "live"
          /\ \A j \in StreamId : InFlightFor(n, j) => j = id
      BY <2>1, <2>2, GivenCore, Zenon DEF Serving, CanSend
    <3>2. SlotHeld(n, p)
      BY <3>1, Zenon DEF SlotHeld, Bound
    <3> QED
      BY <2>2, <3>1, <3>2, Zenon DEF Given
  <2>3. CASE Refused(m, n, id, frame)
    <3>1. Core(n, p, D, X) /\ SendsKept(m, n) /\ NotTaken(m, n)
      BY <2>1, <2>3, RefusedCore, Zenon DEF Serving
    <3>2. n.queue = m.queue /\ ReadyIds(n.table) \subseteq ReadyIds(m.table)
      BY <2>3, Zenon DEF Refused
    <3> QED
      BY <3>1, <3>2, NotTakenHeld, Zenon
  <2> QED
    BY <2>1, <2>2, <2>3, Zenon DEF Serving
<1> QED
  BY <1>1, <1>2, Zenon

(* As SlotHeld, with event e just taken off the queue.                     *)
SlotHeldBy(m, p, e) ==
    \A id \in StreamId : InFlightFor(m, id) =>
        Bound(p[id]) \/ ResetQueued(m, id) \/ ResetOf(e, id)

Matching(m, e) == e.kind = "SEND_COMPLETE" /\ e.stream_id = m.adapter.send_stream_id
                      /\ e.len = m.adapter.send_len

(* What a dispatched event does to the send slot: it stays taken, unless   *)
(* the event is its completion or a reset; it is taken only for a stream   *)
(* that was ready.                                                         *)
SendSlotStep(m, n, e) ==
    /\ m.adapter.send_in_flight =>
          \/ n.adapter = m.adapter /\ ~Matching(m, e) /\ ReadyIds(n.table) = ReadyIds(m.table)
          \/ ~n.adapter.send_in_flight /\ m.adapter.send_stream_id \notin ReadyIds(n.table)
    /\ \A id \in StreamId : InFlightFor(n, id) => InFlightFor(m, id) \/ id \in ReadyIds(m.table)

(* What a dispatched event keeps.                                          *)
Dispatched(m, n, p, D, X) ==
    /\ Core(n, p, D, X) /\ SlotHeld(n, p) /\ SendsKept(m, n)
    /\ n.queue = m.queue /\ ReadyIds(n.table) \subseteq ReadyIds(m.table)

LEMMA ReadyDispatched ==
    ASSUME NEW m, NEW p, NEW D, NEW X, Core(m, p, D, X), NEW up, CanSend(m, p, up),
           NEW e \in Queued, e.kind = "READY", SlotHeldBy(m, p, e),
           NEW r, r = dispatch_event(m, e, up)
    PROVE  r.ok /\ Dispatched(m, r.m, p, D, X) /\ SendSlotStep(m, r.m, e)
<1> DEFINE id == e.stream_id
<1>0. id \in StreamId
  BY Zenon DEF Queued
<1>1. r = [m |-> prepare_ready_response(m, id, up).m, ok |-> TRUE]
  BY Zenon DEF dispatch_event
<1>2. SlotHeld(m, p)
  BY Zenon DEF SlotHeldBy, SlotHeld, ResetOf
<1>3. StagedServe(m, r.m, id, up)
  <2>1. r.m = prepare_ready_response(m, id, up).m
    BY <1>1
  <2> QED
    BY <1>0, <2>1, OneSlot, ServeEffect, Zenon DEF Core
<1>4. Dispatched(m, r.m, p, D, X)
  BY <1>0, <1>2, <1>3, ServeCore, Zenon DEF Dispatched
<1>5. SendSlotStep(m, r.m, e)
  <2>1. m.adapter.send_in_flight => r.m = m
    BY <1>3, Zenon DEF StagedServe, Serving
  <2>2. ASSUME NEW j \in StreamId, InFlightFor(r.m, j)
        PROVE  InFlightFor(m, j) \/ j \in ReadyIds(m.table)
    <3>1. CASE r.m = m
      BY <2>2, <3>1, Zenon
    <3>2. CASE Serving(m, r.m, id, up, ReadyFrame(m, id))
      <4>1. id \in ReadyIds(m.table)
        BY <3>2, Zenon DEF Serving
      <4>2. r.m.adapter = Idle \/ r.m.adapter.send_stream_id = id
        <5>1. \A c, frame : Given(m, r.m, id, c, frame) => r.m.adapter.send_stream_id = id
          BY DEF Given
        <5>2. \A frame : Refused(m, r.m, id, frame) => r.m.adapter = Idle
          BY Zenon DEF Refused
        <5> QED
          BY <3>2, <5>1, <5>2, Zenon DEF Serving
      <4> QED
        BY <2>2, <4>1, <4>2, IdleType, Zenon DEF InFlightFor
    <3> QED
      BY <1>3, <3>1, <3>2, Zenon DEF StagedServe
  <2> QED
    BY <2>1, <2>2, Zenon DEF SendSlotStep, Matching
<1> QED
  BY <1>1, <1>4, <1>5

LEMMA CompletionDispatched ==
    ASSUME NEW m, NEW p, NEW D, NEW X, Core(m, p, D, X), NEW up,
           NEW e, EventOK(p, D, e), e.kind = "SEND_COMPLETE", SlotHeldBy(m, p, e),
           NEW r, r = dispatch_event(m, e, up)
    PROVE  Dispatched(m, r.m, p, D, X) /\ SendSlotStep(m, r.m, e)
<1> DEFINE id == e.stream_id
<1>0. id \in StreamId /\ id \in D
  BY Zenon DEF EventOK, Queued
<1>1. r = adapter_on_send_complete(m, id, e.len)
  BY Zenon DEF dispatch_event
<1>2. SlotHeld(m, p)
  BY Zenon DEF SlotHeldBy, SlotHeld, ResetOf
<1>3. CASE r = [m |-> m, ok |-> FALSE] /\ ~Completes(m, id, e.len)
  <2>1. r.m = m
    BY <1>3
  <2>2. Dispatched(m, m, p, D, X)
    BY <1>2, Zenon DEF Dispatched, SendsKept
  <2>3. ASSUME m.adapter.send_in_flight PROVE ~Matching(m, e)
    <3>1. m.adapter \in Adapter
      BY ShellFields, Zenon DEF Core, StagedOK
    <3>2. m.adapter.send_len <= SendCapacity
      BY <2>3, <3>1, Zenon DEF Core, StreamStaged, AdapterRecord, InFlightFor, Adapter
    <3> QED
      BY <1>3, <2>3, <3>2, Zenon DEF Matching, Completes
  <2> QED
    BY <2>1, <2>2, <2>3, Zenon DEF SendSlotStep
<1>4. CASE Completes(m, id, e.len) /\ GivenBack(m, r.m, id)
  <2>1. InFlightFor(m, id)
    BY <1>4, Zenon DEF Completes, InFlightFor
  <2>2. Core(r.m, p, D, X) /\ SendsKept(m, r.m) /\ NotTaken(m, r.m)
    BY <1>0, <1>4, <2>1, GivenBackCore, Zenon DEF Settled, Owed
  <2>3. ~r.m.adapter.send_in_flight /\ r.m.queue = m.queue
        /\ ReadyIds(r.m.table) = ReadyIds(m.table) \ {id}
    BY <1>4, IdleType, Zenon DEF GivenBack
  <2>4. SlotHeld(r.m, p)
    BY <2>3, Zenon DEF SlotHeld, InFlightFor
  <2> QED
    BY <2>1, <2>2, <2>3, <2>4, Zenon DEF Dispatched, SendSlotStep, InFlightFor
<1> QED
  BY <1>1, <1>3, <1>4, CompletionEffect, Zenon DEF Core

LEMMA ResetDispatched ==
    ASSUME NEW m, NEW p, NEW D, NEW X, Core(m, p, D, X), PeersOK(p), NEW up,
           NEW e, EventOK(p, D, e), e.kind = "RESET", SlotHeldBy(m, p, e),
           NEW r, r = dispatch_event(m, e, up)
    PROVE  /\ Dispatched(m, r.m, p, D, X) /\ SendSlotStep(m, r.m, e)
           /\ ~InFlightFor(r.m, e.stream_id)
<1> DEFINE id == e.stream_id
<1>0. id \in StreamId /\ Over(p[id]) /\ StreamStaged(m, p[id], D, X, id)
  BY Zenon DEF EventOK, Queued, Core
<1>1. r = adapter_on_stream_reset(m, id)
  BY Zenon DEF dispatch_event
<1>m. ~Matching(m, e)
  BY Zenon DEF Matching
<1>2. CASE m.adapter.send_in_flight /\ ~InFlightFor(m, id) /\ r = [m |-> m, ok |-> FALSE]
  <2>1. r.m = m
    BY <1>2
  <2>2. SlotHeld(m, p)
    BY <1>2, Zenon DEF SlotHeldBy, SlotHeld, ResetOf
  <2>3. Dispatched(m, m, p, D, X)
    BY <2>2, Zenon DEF Dispatched, SendsKept
  <2> QED
    BY <1>2, <1>m, <2>1, <2>3, Zenon DEF SendSlotStep
<1>3. CASE InFlightFor(m, id) /\ GivenBack(m, r.m, id)
  <2>1. Settled(m, p[id], D, id)
    <3>1. p[id].reset => ~Ended(p[id])
      BY <1>0, Zenon DEF PeersOK
    <3> QED
      BY <1>0, <3>1, Zenon DEF Settled, Over, StreamStaged, OwedHeld, SentOnce, Owed
  <2>2. Core(r.m, p, D, X) /\ SendsKept(m, r.m) /\ NotTaken(m, r.m)
    BY <1>0, <1>3, <2>1, GivenBackCore, Zenon
  <2>3. ~r.m.adapter.send_in_flight /\ r.m.queue = m.queue
        /\ ReadyIds(r.m.table) = ReadyIds(m.table) \ {id}
    BY <1>3, IdleType, Zenon DEF GivenBack
  <2>4. SlotHeld(r.m, p)
    BY <2>3, Zenon DEF SlotHeld, InFlightFor
  <2> QED
    BY <1>3, <2>2, <2>3, <2>4, Zenon DEF Dispatched, SendSlotStep, InFlightFor
<1>4. CASE ~m.adapter.send_in_flight /\ Closed(m, r.m, id)
  <2>1. /\ r.m \in StagedShell /\ Good(r.m.table) /\ TableOnly(m, r.m)
        /\ ReadyIds(r.m.table) \subseteq ReadyIds(m.table)
    BY <1>4, Zenon DEF Closed
  <2>2. Core(r.m, p, D, X) /\ SendsKept(m, r.m) /\ NotTaken(m, r.m)
    BY <2>1, ShrinkCore, Zenon
  <2>3. ~r.m.adapter.send_in_flight /\ r.m.queue = m.queue
    BY <1>4, Zenon DEF Closed, TableOnly
  <2> QED
    BY <1>4, <2>1, <2>2, <2>3, Zenon DEF Dispatched, SendSlotStep, InFlightFor, SlotHeld
<1> QED
  BY <1>1, <1>2, <1>3, <1>4, ResetEffect, Zenon DEF Core, StreamStaged

(* The three together.                                                     *)
LEMMA QueuedDispatched ==
    ASSUME NEW m, NEW p, NEW D, NEW X, Core(m, p, D, X), PeersOK(p), NEW up, CanSend(m, p, up),
           NEW e, EventOK(p, D, e), SlotHeldBy(m, p, e),
           NEW r, r = dispatch_event(m, e, up)
    PROVE  Dispatched(m, r.m, p, D, X) /\ SendSlotStep(m, r.m, e)
<1>1. e \in Queued /\ e.kind \in {"READY", "SEND_COMPLETE", "RESET"}
  BY Zenon DEF EventOK, Queued
<1> QED
  BY <1>1, ReadyDispatched, CompletionDispatched, ResetDispatched, Zenon

----------------------------------------------------------------------------
(* The queue.                                                              *)

LEMMA AppendEvents ==
    ASSUME NEW S, NEW q \in Seq(S), NEW e \in S
    PROVE  /\ Append(q, e) \in Seq(S) /\ Len(Append(q, e)) = Len(q) + 1
           /\ Events(Append(q, e)) = Events(q) \cup {e}
<1>1. /\ Append(q, e) \in Seq(S) /\ Len(Append(q, e)) = Len(q) + 1 /\ Len(q) \in Nat
      /\ \A i \in 1 .. Len(q) : Append(q, e)[i] = q[i]
      /\ Append(q, e)[Len(q) + 1] = e
  OBVIOUS
<1>2. \A i \in 1 .. Len(q) + 1 : i \in 1 .. Len(q) \/ i = Len(q) + 1
  BY <1>1
<1>3. Events(Append(q, e)) \subseteq Events(q) \cup {e}
  BY <1>1, <1>2, Zenon DEF Events
<1>4. \A i \in 1 .. Len(q) : i \in 1 .. Len(q) + 1
  BY <1>1
<1>5. Len(q) + 1 \in 1 .. Len(q) + 1
  BY <1>1
<1>6. Events(q) \cup {e} \subseteq Events(Append(q, e))
  BY <1>1, <1>4, <1>5, Zenon DEF Events
<1> QED
  BY <1>1, <1>3, <1>6, Zenon

LEMMA TailEvents ==
    ASSUME NEW S, NEW q \in Seq(S), q # <<>>
    PROVE  /\ Tail(q) \in Seq(S) /\ Len(Tail(q)) = Len(q) - 1 /\ Len(q) \in Nat \ {0}
           /\ Head(q) \in S
           /\ Events(q) = Events(Tail(q)) \cup {Head(q)}
<1>1. /\ Tail(q) \in Seq(S) /\ Len(Tail(q)) = Len(q) - 1 /\ Len(q) \in Nat \ {0}
      /\ \A i \in 1 .. Len(q) - 1 : Tail(q)[i] = q[i + 1]
      /\ Head(q) = q[1] /\ q[1] \in S
  OBVIOUS
<1>2. ASSUME NEW i \in 1 .. Len(q) PROVE q[i] \in Events(Tail(q)) \cup {Head(q)}
  <2>1. CASE i = 1
    BY <1>1, <2>1, Zenon
  <2>2. CASE i # 1
    <3>1. i - 1 \in 1 .. Len(q) - 1 /\ (i - 1) + 1 = i
      BY <1>1, <2>2
    <3>2. Tail(q)[i - 1] = q[i]
      BY <1>1, <3>1, Zenon
    <3> QED
      BY <1>1, <3>1, <3>2, Zenon DEF Events
  <2> QED
    BY <2>1, <2>2, Zenon
<1>3. ASSUME NEW i \in 1 .. Len(q) - 1 PROVE Tail(q)[i] \in Events(q)
  <2>1. i + 1 \in 1 .. Len(q)
    BY <1>1
  <2> QED
    BY <1>1, <2>1, Zenon DEF Events
<1>4. Head(q) \in Events(q)
  BY <1>1 DEF Events
<1>5. Events(q) \subseteq Events(Tail(q)) \cup {Head(q)}
  BY <1>2, Zenon DEF Events
<1>6. Events(Tail(q)) \subseteq Events(q)
  BY <1>1, <1>3, Zenon DEF Events
<1> QED
  BY <1>1, <1>4, <1>5, <1>6, Zenon

LEMMA AppendTail ==
    ASSUME NEW S, NEW q \in Seq(S), NEW e \in S
    PROVE  /\ Append(q, e) # <<>>
           /\ q = <<>> => Head(Append(q, e)) = e /\ Tail(Append(q, e)) = <<>>
           /\ q # <<>> => /\ Head(Append(q, e)) = Head(q)
                          /\ Tail(Append(q, e)) = Append(Tail(q), e)
<1>1. Append(q, e) # <<>> /\ (q = <<>> => Head(Append(q, e)) = e /\ Tail(Append(q, e)) = <<>>)
  OBVIOUS
<1>2. ASSUME q # <<>> PROVE Head(Append(q, e)) = Head(q)
  BY <1>2
<1>3. ASSUME q # <<>> PROVE Tail(Append(q, e)) = Append(Tail(q), e)
  <2> DEFINE a == Tail(Append(q, e))
             b == Append(Tail(q), e)
  <2>1. a \in Seq(S) /\ Len(a) = Len(q) /\ \A i \in 1 .. Len(q) : a[i] = Append(q, e)[i + 1]
    BY <1>1
  <2>2. b \in Seq(S) /\ Len(b) = Len(q)
    BY <1>3
  <2>3. \A i \in 1 .. Len(q) : b[i] = Append(q, e)[i + 1]
    BY <1>3
  <2> HIDE DEF a, b
  <2>4. a = b
    BY <2>1, <2>2, <2>3, SameSequence, Zenon
  <2> QED
    BY <2>4, Zenon DEF a, b
<1> QED
  BY <1>1, <1>2, <1>3, Zenon

LEMMA QueueReplaced ==
    ASSUME NEW m \in StagedShell, NEW q \in Seq(Queued), NEW n, n = [m EXCEPT !.queue = q]
    PROVE  /\ n \in StagedShell /\ n.queue = q
           /\ n.table = m.table /\ n.adapter = m.adapter /\ n.sendbuf = m.sendbuf
           /\ n.slots = m.slots /\ n.sends = m.sends
  BY Zenon DEF StagedShell

(* Only the queue changed.                                                 *)
LEMMA QueueOnlyCore ==
    ASSUME NEW m, NEW n, NEW p, NEW D, NEW X, Core(m, p, D, X), NEW q \in Seq(Queued),
           n = [m EXCEPT !.queue = q]
    PROVE  /\ Core(n, p, D, X) /\ SendsKept(m, n) /\ n.queue = q
           /\ n.adapter = m.adapter /\ n.table = m.table
           /\ \A j \in StreamId : (HasSent(n, j) <=> HasSent(m, j)) /\ n.sends[j] = m.sends[j]
<1>1. /\ n \in StagedShell /\ n.queue = q
      /\ n.table = m.table /\ n.adapter = m.adapter /\ n.sendbuf = m.sendbuf
      /\ n.slots = m.slots /\ n.sends = m.sends
  BY QueueReplaced DEF Core, StagedOK
<1>2. ASSUME NEW j \in StreamId PROVE StreamStaged(n, p[j], D, X, j)
  <2>1. StreamStaged(m, p[j], D, X, j)
    BY Zenon DEF Core
  <2> QED
    BY <1>1, <2>1, Zenon
       DEF StreamStaged, SlotBound, SentOnce, OwedHeld, AdapterRecord, ReadyEnded,
                InFlightFor, HasSent, Owed
<1> QED
  BY <1>1, <1>2, Zenon DEF Core, StagedOK, Owners, SendsKept, HasSent

(* enqueue, then dispatch_one.                                             *)
WithQueue(m, q) == [m EXCEPT !.queue = q]

Popped(m, e) == WithQueue(m, Append(Tail(m.queue), e))

LEMMA EnqueueCases ==
    ASSUME NEW m \in StagedShell, NEW e, NEW up, NEW r, r = EnqueueAndDispatch(m, e, up)
    PROVE  \/ Len(m.queue) >= QueueCapacity /\ r = [m |-> m, ok |-> FALSE]
           \/ m.queue = <<>> /\ r = dispatch_event(m, e, up)
           \/ /\ m.queue # <<>> /\ Len(m.queue) < QueueCapacity
              /\ r = dispatch_event(Popped(m, e), Head(m.queue), up)
<1> DEFINE s == [m EXCEPT !.queue = Append(m.queue, e)]
<1>q. m.queue \in Seq(Queued) /\ Len(m.queue) \in Nat /\ QueueCapacity \in Nat \ {0}
  BY ShellFields, RuntimeConstants
<1>1. CASE Len(m.queue) >= QueueCapacity
  BY <1>1, Zenon DEF EnqueueAndDispatch, enqueue
<1>2. CASE Len(m.queue) < QueueCapacity
  <2>1. ~(Len(m.queue) >= QueueCapacity)
    BY <1>q, <1>2
  <2>2. enqueue(m, e) = [m |-> s, ok |-> TRUE]
    BY <2>1, Zenon DEF enqueue
  <2>3. s.queue = Append(m.queue, e)
    BY Zenon DEF StagedShell
  <2>4. /\ Append(m.queue, e) # <<>>
        /\ m.queue = <<>> => Head(Append(m.queue, e)) = e /\ Tail(Append(m.queue, e)) = <<>>
        /\ m.queue # <<>> => /\ Head(Append(m.queue, e)) = Head(m.queue)
                             /\ Tail(Append(m.queue, e)) = Append(Tail(m.queue), e)
    <3> DEFINE T == Queued \cup {e}
    <3>1. m.queue \in Seq(T) /\ e \in T
      BY <1>q
    <3> HIDE DEF T, s
    <3> QED
      BY <3>1, AppendTail, Zenon
  <2>6. [s EXCEPT !.queue = Tail(@)] = [m EXCEPT !.queue = Tail(Append(m.queue, e))]
    <3>1. \A q : [s EXCEPT !.queue = q] = [m EXCEPT !.queue = q]
      BY Zenon DEF StagedShell
    <3> QED
      BY <2>3, <3>1, Zenon
  <2>7. r = dispatch_event([m EXCEPT !.queue = Tail(Append(m.queue, e))],
                           Head(Append(m.queue, e)), up)
    <3>1. enqueue(m, e).ok /\ enqueue(m, e).m = s
      BY <2>2
    <3>2. r = dispatch_one(s, up)
      BY <3>1, Zenon DEF EnqueueAndDispatch
    <3> HIDE DEF s
    <3> QED
      BY <2>3, <2>4, <2>6, <3>2, Zenon DEF dispatch_one
  <2>8. CASE m.queue = <<>>
    <3>1. [m EXCEPT !.queue = <<>>] = m
      BY <2>8, Zenon DEF StagedShell
    <3> QED
      BY <2>4, <2>7, <2>8, <3>1, Zenon
  <2>9. CASE m.queue # <<>>
    BY <1>2, <2>4, <2>7, <2>9, Zenon DEF Popped, WithQueue
  <2> QED
    BY <2>8, <2>9, Zenon
<1> QED
  BY <1>q, <1>1, <1>2

----------------------------------------------------------------------------
(* A queued event taken off the queue, and one enqueued by a callback.     *)

Staged(m, p, D, X) == Core(m, p, D, X) /\ QueueOK(m, p, D) /\ SlotHeld(m, p)

MatchQueued(m) == \E e \in Events(m.queue) : Matching(m, e)

(* The queue of m without its head, to which an event may have been added. *)
NextQueue(m, p, D, q) ==
    /\ m.queue # <<>>
    /\ q \in Seq(Queued) /\ Len(q) <= QueueCapacity
    /\ Events(Tail(m.queue)) \subseteq Events(q)
    /\ \A e \in Events(q) : EventOK(p, D, e)

HeadDispatched(m, n, p, D, X, q) ==
    /\ Staged(n, p, D, X) /\ SendsKept(m, n) /\ n.queue = q
    /\ ReadyIds(n.table) \subseteq ReadyIds(m.table)
    /\ SendSlotStep(m, n, Head(m.queue))

LEMMA PopStaged ==
    ASSUME NEW m, NEW p, NEW D, NEW X, Staged(m, p, D, X), PeersOK(p),
           NEW up, CanSend(m, p, up), NEW q, NextQueue(m, p, D, q),
           NEW r, r = dispatch_event(WithQueue(m, q), Head(m.queue), up)
    PROVE  HeadDispatched(m, r.m, p, D, X, q)
<1> DEFINE h == Head(m.queue)
           s == WithQueue(m, q)
<1>q. m.queue \in Seq(Queued)
  BY ShellFields, Zenon DEF Staged, Core, StagedOK
<1>1. h \in Queued /\ Events(m.queue) = Events(Tail(m.queue)) \cup {h}
  BY <1>q, TailEvents, Zenon DEF NextQueue
<1>2. EventOK(p, D, h) /\ q \in Seq(Queued)
  BY <1>1, Zenon DEF Staged, QueueOK, NextQueue
<1>3. /\ Core(s, p, D, X) /\ SendsKept(m, s) /\ s.queue = q
      /\ s.adapter = m.adapter /\ s.table = m.table
      /\ \A j \in StreamId : (HasSent(s, j) <=> HasSent(m, j)) /\ s.sends[j] = m.sends[j]
  BY <1>2, QueueOnlyCore, Zenon DEF Staged, WithQueue
<1> HIDE DEF h, s
<1>4. SlotHeldBy(s, p, h)
  <2>1. ASSUME NEW id \in StreamId, InFlightFor(s, id), ~Bound(p[id])
        PROVE  ResetQueued(s, id) \/ ResetOf(h, id)
    <3>1. ResetQueued(m, id)
      BY <1>3, <2>1, Zenon DEF Staged, SlotHeld, InFlightFor
    <3>2. Events(m.queue) \subseteq Events(s.queue) \cup {h}
      BY <1>1, <1>3, Zenon DEF NextQueue
    <3> QED
      BY <3>1, <3>2, Zenon DEF ResetQueued
  <2> QED
    BY <2>1, Zenon DEF SlotHeldBy
<1>5. CanSend(s, p, up)
  <2>1. \A id : HasSent(m, id) => HasSent(s, id)
    <3>1. s.sends = m.sends
      BY <1>2, QueueReplaced DEF Staged, Core, StagedOK, WithQueue, s
    <3> QED
      BY <3>1, Zenon DEF HasSent
  <2> QED
    BY <2>1, Zenon DEF CanSend
<1>6. Dispatched(s, r.m, p, D, X) /\ SendSlotStep(s, r.m, h)
  BY <1>2, <1>3, <1>4, <1>5, QueuedDispatched, Zenon DEF h, s
<1>7. r.m.queue = q /\ ReadyIds(r.m.table) \subseteq ReadyIds(m.table)
  BY <1>3, <1>6, Zenon DEF Dispatched
<1>8. QueueOK(r.m, p, D)
  BY <1>7, Zenon DEF QueueOK, NextQueue
<1>9. SendsKept(m, r.m)
  BY <1>3, <1>6, Zenon DEF Dispatched, SendsKept
<1>10. SendSlotStep(m, r.m, h)
  BY <1>3, <1>6, Zenon DEF SendSlotStep, Matching, InFlightFor
<1> QED
  BY <1>6, <1>7, <1>8, <1>9, <1>10, Zenon DEF Dispatched, Staged, HeadDispatched, h

(* The callback of a completion or a reset.                                *)
LEMMA EnqueueStaged ==
    ASSUME NEW m, NEW p, NEW D, NEW X, Staged(m, p, D, X), PeersOK(p),
           NEW up, CanSend(m, p, up), NEW e, EventOK(p, D, e),
           NEW r, r = EnqueueAndDispatch(m, e, up)
    PROVE  /\ Staged(r.m, p, D, X) /\ SendsKept(m, r.m)
           /\ ReadyIds(r.m.table) \subseteq ReadyIds(m.table)
           /\ r.ok /\ e.kind = "RESET" =>
                 ~InFlightFor(r.m, e.stream_id) \/ ResetQueued(r.m, e.stream_id)
           /\ /\ m.adapter.send_in_flight /\ r.m.adapter = m.adapter
              /\ MatchQueued(m) \/ (Matching(m, e) /\ Len(m.queue) < QueueCapacity)
              => MatchQueued(r.m)
<1>q. m \in StagedShell /\ m.queue \in Seq(Queued) /\ e \in Queued
      /\ Len(m.queue) \in Nat /\ QueueCapacity \in Nat
  <2>1. m \in StagedShell /\ e \in Queued
    BY Zenon DEF Staged, Core, StagedOK, EventOK
  <2>2. m.queue \in Seq(Queued) /\ QueueCapacity \in Nat
    BY <2>1, ShellFields, RuntimeConstants, Zenon
  <2> QED
    BY <2>1, <2>2
<1>1. CASE Len(m.queue) >= QueueCapacity /\ r = [m |-> m, ok |-> FALSE]
  <2>1. r.m = m /\ ~r.ok /\ ~(Len(m.queue) < QueueCapacity)
    BY <1>q, <1>1
  <2> QED
    BY <2>1, Zenon DEF SendsKept
<1>2. CASE m.queue = <<>> /\ r = dispatch_event(m, e, up)
  <2>1. Events(m.queue) = {}
    BY <1>2 DEF Events
  <2>2. SlotHeldBy(m, p, e)
    BY Zenon DEF Staged, SlotHeld, SlotHeldBy
  <2>3. Dispatched(m, r.m, p, D, X) /\ SendSlotStep(m, r.m, e)
    BY <1>2, <2>2, QueuedDispatched, Zenon DEF Staged
  <2>4. e.kind = "RESET" => ~InFlightFor(r.m, e.stream_id)
    BY <1>2, <2>2, ResetDispatched, Zenon DEF Staged
  <2>5. Staged(r.m, p, D, X) /\ SendsKept(m, r.m) /\ ReadyIds(r.m.table) \subseteq ReadyIds(m.table)
    BY <2>3, Zenon DEF Dispatched, Staged, QueueOK
  <2>6. ~MatchQueued(m)
    BY <2>1, Zenon DEF MatchQueued
  <2>7. m.adapter.send_in_flight /\ r.m.adapter = m.adapter => ~Matching(m, e)
    BY <2>3, Zenon DEF SendSlotStep
  <2> QED
    BY <2>4, <2>5, <2>6, <2>7, Zenon
<1>3. CASE /\ m.queue # <<>> /\ Len(m.queue) < QueueCapacity
           /\ r = dispatch_event(Popped(m, e), Head(m.queue), up)
  <2> DEFINE t == Tail(m.queue)
             q == Append(t, e)
             h == Head(m.queue)
  <2>1. t \in Seq(Queued) /\ Len(t) = Len(m.queue) - 1 /\ Events(m.queue) = Events(t) \cup {h}
    BY <1>q, <1>3, TailEvents, Zenon
  <2> HIDE DEF t
  <2>0. q \in Seq(Queued) /\ Len(q) = Len(t) + 1 /\ Events(q) = Events(t) \cup {e}
    BY <1>q, <2>1, AppendEvents
  <2>2. q \in Seq(Queued) /\ Len(q) = Len(m.queue) /\ Events(q) = Events(t) \cup {e}
    BY <1>q, <2>0, <2>1
  <2>3. Len(q) <= QueueCapacity
    BY <1>q, <1>3, <2>2
  <2> HIDE DEF q, h
  <2>4. Popped(m, e) = WithQueue(m, q)
    BY Zenon DEF Popped, q, t
  <2>5. /\ Staged(r.m, p, D, X) /\ SendsKept(m, r.m) /\ r.m.queue = q
        /\ ReadyIds(r.m.table) \subseteq ReadyIds(m.table)
        /\ SendSlotStep(m, r.m, h)
    <3>1. \A x \in Events(m.queue) : EventOK(p, D, x)
      BY Zenon DEF Staged, QueueOK
    <3>2. NextQueue(m, p, D, q)
      BY <1>3, <2>1, <2>2, <2>3, <3>1, Zenon DEF NextQueue, t
    <3>3. r = dispatch_event(WithQueue(m, q), Head(m.queue), up)
      BY <1>3, <2>4, Zenon
    <3>4. HeadDispatched(m, r.m, p, D, X, q)
      BY <3>2, <3>3, PopStaged, Zenon
    <3> QED
      BY <3>4, Zenon DEF HeadDispatched, h
  <2>6. e.kind = "RESET" => ResetQueued(r.m, e.stream_id)
    BY <2>2, <2>5, Zenon DEF ResetQueued, ResetOf
  <2>7. ASSUME m.adapter.send_in_flight, r.m.adapter = m.adapter, MatchQueued(m) \/ Matching(m, e)
        PROVE  MatchQueued(r.m)
    <3>1. ~Matching(m, h)
      BY <2>5, <2>7, Zenon DEF SendSlotStep
    <3>2. \E x \in Events(q) : Matching(m, x)
      BY <2>1, <2>2, <2>7, <3>1, Zenon DEF MatchQueued
    <3> QED
      BY <2>5, <2>7, <3>2, Zenon DEF MatchQueued, Matching
  <2> QED
    BY <2>5, <2>6, <2>7, Zenon
<1> QED
  BY <1>q, <1>1, <1>2, <1>3, EnqueueCases

----------------------------------------------------------------------------
(* dispatch_all: its loop as a function of the number of iterations.       *)

IsRun(f, m, max, up) ==
    f = [n \in 0 .. max |-> IF n = 0 THEN [m |-> m, ok |-> TRUE] ELSE DispatchNext(f[n - 1], up)]

LEMMA RunExists ==
    ASSUME NEW m, NEW up, NEW max \in Nat
    PROVE  \E f : IsRun(f, m, max, up)
<1> DEFINE T == {k \in Nat : ~\E f : IsRun(f, m, k, up)}
<1>1. SUFFICES ASSUME T # {} PROVE FALSE
  OBVIOUS
<1>2. PICK k \in T : \A y \in T : k <= y
  BY <1>1, LeastNatural, Zenon
<1>3. CASE k = 0
  <2> DEFINE f == [n \in 0 .. 0 |-> [m |-> m, ok |-> TRUE]]
  <2>1. f = [n \in 0 .. 0 |-> IF n = 0 THEN [m |-> m, ok |-> TRUE] ELSE DispatchNext(f[n - 1], up)]
    OBVIOUS
  <2> QED
    BY <1>3, <2>1, Zenon DEF IsRun
<1>4. CASE k # 0
  <2>1. k - 1 \in Nat /\ ~(k <= k - 1) /\ k \in Nat
    BY <1>4
  <2>2. PICK g : IsRun(g, m, k - 1, up)
    BY <1>2, <2>1, Zenon
  <2> DEFINE f == [n \in 0 .. k |-> IF n = k THEN DispatchNext(g[k - 1], up) ELSE g[n]]
             F(n) == IF n = 0 THEN [m |-> m, ok |-> TRUE] ELSE DispatchNext(f[n - 1], up)
  <2>3. ASSUME NEW n \in 0 .. k PROVE f[n] = F(n)
    <3>1. CASE n = k
      <4>1. f[n - 1] = g[k - 1] /\ n # 0
        BY <1>4, <2>1, <3>1
      <4> QED
        BY <3>1, <4>1, Zenon
    <3>2. CASE n # k
      <4>1. n \in 0 .. k - 1 /\ f[n] = g[n]
        BY <2>1, <3>2
      <4>2. g[n] = IF n = 0 THEN [m |-> m, ok |-> TRUE] ELSE DispatchNext(g[n - 1], up)
        BY <2>2, <4>1, Zenon DEF IsRun
      <4>3. n # 0 => f[n - 1] = g[n - 1]
        BY <2>1, <3>2, <4>1
      <4> QED
        BY <4>1, <4>2, <4>3, Zenon
    <3> QED
      BY <3>1, <3>2, Zenon
  <2>4. f = [n \in 0 .. k |-> f[n]]
    OBVIOUS
  <2> HIDE DEF f
  <2>5. f = [n \in 0 .. k |-> F(n)]
    BY <2>3, <2>4, Zenon
  <2> QED
    BY <2>5, Zenon DEF IsRun
<1> QED
  BY <1>3, <1>4, Zenon

LEMMA RunSteps ==
    ASSUME NEW m, NEW up, NEW max \in Nat
    PROVE  \E f : /\ dispatch_all(m, max, up) = f[max].m
                  /\ f[0] = [m |-> m, ok |-> TRUE]
                  /\ \A n \in 1 .. max : f[n] = DispatchNext(f[n - 1], up)
<1> DEFINE f == CHOOSE g : IsRun(g, m, max, up)
<1>1. IsRun(f, m, max, up)
  BY RunExists, Zenon
<1>2. dispatch_all(m, max, up) = f[max].m
  BY Zenon DEF dispatch_all, IsRun
<1> HIDE DEF f
<1>3. f[0] = [m |-> m, ok |-> TRUE] /\ \A n \in 1 .. max : f[n] = DispatchNext(f[n - 1], up)
  <2>1. ASSUME NEW n \in 0 .. max
        PROVE  f[n] = IF n = 0 THEN [m |-> m, ok |-> TRUE] ELSE DispatchNext(f[n - 1], up)
    BY <1>1, Zenon DEF IsRun
  <2>2. 0 \in 0 .. max /\ \A n \in 1 .. max : n \in 0 .. max /\ n # 0
    OBVIOUS
  <2> QED
    BY <2>1, <2>2, Zenon
<1> QED
  BY <1>2, <1>3, Zenon

(* What a loop that started in m keeps: the invariant; every response; and *)
(* the completion of the send that was in flight in m: MsQuic owes it, or  *)
(* it is in the queue, or the send slot was given back and the stream is   *)
(* closed for good.                                                        *)
CompletionKept(m, n, D) ==
    LET a == m.adapter.send_stream_id
    IN  \/ Owed(n, D, a)
        \/ /\ a \in D
           /\ \/ n.adapter = m.adapter /\ MatchQueued(n)
              \/ ~InFlightFor(n, a) /\ a \notin ReadyIds(n.table)

RunInv(m, n, p, D, X) ==
    /\ Staged(n, p, D, X) /\ SendsKept(m, n)
    /\ m.adapter.send_in_flight /\ (Owed(m, D, m.adapter.send_stream_id) \/ MatchQueued(m))
          => CompletionKept(m, n, D)

LEMMA RunStart ==
    ASSUME NEW m, NEW p, NEW D, NEW X, Staged(m, p, D, X)
    PROVE  RunInv(m, m, p, D, X)
<1>1. MatchQueued(m) => m.adapter.send_stream_id \in D
  BY Zenon DEF MatchQueued, Matching, Staged, QueueOK, EventOK
<1> QED
  BY <1>1, Zenon DEF RunInv, SendsKept, CompletionKept

(* The sends of three states in a row.                                     *)
LEMMA SendsTransitive ==
    ASSUME NEW a, NEW b, NEW c, SendsKept(a, b), SendsKept(b, c)
    PROVE  SendsKept(a, c)
  BY Zenon DEF SendsKept, HasSent

LEMMA RunStep ==
    ASSUME NEW m, NEW n, NEW p, NEW D, NEW X, RunInv(m, n, p, D, X), PeersOK(p),
           m.adapter \in Adapter,
           NEW up \in SUBSET StreamId, CanSend(m, p, up), n.queue # <<>>,
           NEW r, r = dispatch_one(n, up)
    PROVE  RunInv(m, r.m, p, D, X)
<1> DEFINE q == Tail(n.queue)
           h == Head(n.queue)
           a == m.adapter.send_stream_id
<1>1. n \in StagedShell /\ n.queue \in Seq(Queued) /\ Staged(n, p, D, X)
  BY ShellFields, Zenon DEF RunInv, Staged, Core, StagedOK
<1>2. /\ q \in Seq(Queued) /\ Len(q) = Len(n.queue) - 1 /\ Len(n.queue) \in Nat
      /\ Events(n.queue) = Events(q) \cup {h}
  BY <1>1, TailEvents, Zenon
<1>3. r = dispatch_event(WithQueue(n, q), h, up)
  BY Zenon DEF dispatch_one, WithQueue
<1> HIDE DEF q
<1>4. NextQueue(n, p, D, q)
  <2>1. Len(n.queue) <= QueueCapacity /\ \A e \in Events(n.queue) : EventOK(p, D, e)
    BY <1>1, Zenon DEF Staged, QueueOK
  <2>2. Len(q) <= QueueCapacity
    BY <1>2, <2>1, RuntimeConstants
  <2> QED
    BY <1>2, <2>1, <2>2, Zenon DEF NextQueue, q
<1>5. CanSend(n, p, up)
  <2>1. ASSUME NEW id \in up PROVE HasSent(m, id) => HasSent(n, id)
    BY Zenon DEF RunInv, SendsKept, HasSent
  <2> QED
    BY <2>1, Zenon DEF CanSend
<1>6. HeadDispatched(n, r.m, p, D, X, q)
  BY <1>1, <1>3, <1>4, <1>5, PopStaged, Zenon
<1> HIDE DEF h
<1>7. SendsKept(m, r.m)
  BY <1>6, SendsTransitive, Zenon DEF RunInv, HeadDispatched
<1>8. SendSlotStep(n, r.m, h) /\ r.m.queue = q /\ ReadyIds(r.m.table) \subseteq ReadyIds(n.table)
      /\ SendsKept(n, r.m)
  BY <1>6, Zenon DEF HeadDispatched, h
<1>9. ASSUME m.adapter.send_in_flight, CompletionKept(m, n, D) PROVE CompletionKept(m, r.m, D)
  <2>0. a \in StreamId
    BY Zenon DEF Adapter
  <2>1. CASE Owed(n, D, a)
    BY <1>8, <2>0, <2>1, Zenon DEF CompletionKept, Owed, SendsKept, HasSent
  <2>2. CASE a \in D /\ n.adapter = m.adapter /\ MatchQueued(n)
    <3>1. CASE r.m.adapter = n.adapter /\ ~Matching(n, h)
      <4>1. MatchQueued(r.m)
        BY <1>2, <1>8, <2>2, <3>1, Zenon DEF MatchQueued, Matching
      <4> QED
        BY <2>2, <3>1, <4>1, Zenon DEF CompletionKept
    <3>2. CASE ~r.m.adapter.send_in_flight /\ a \notin ReadyIds(r.m.table)
      BY <2>2, <3>2, Zenon DEF CompletionKept, InFlightFor
    <3> QED
      BY <1>8, <1>9, <2>2, <3>1, <3>2, Zenon DEF SendSlotStep
  <2>3. CASE a \in D /\ ~InFlightFor(n, a) /\ a \notin ReadyIds(n.table)
    BY <1>8, <2>0, <2>3, Zenon DEF CompletionKept, SendSlotStep
  <2> QED
    BY <1>9, <2>1, <2>2, <2>3, Zenon DEF CompletionKept
<1> QED
  BY <1>6, <1>7, <1>9, Zenon DEF RunInv, HeadDispatched

LEMMA DispatchAllStaged ==
    ASSUME NEW m, NEW p, NEW D, NEW X, Staged(m, p, D, X), PeersOK(p),
           NEW up \in SUBSET StreamId, CanSend(m, p, up), NEW max \in Nat,
           NEW n, n = dispatch_all(m, max, up)
    PROVE  RunInv(m, n, p, D, X)
<1>1. PICK f : /\ n = f[max].m
               /\ f[0] = [m |-> m, ok |-> TRUE]
               /\ \A k \in 1 .. max : f[k] = DispatchNext(f[k - 1], up)
  BY RunSteps
<1>2. m.adapter \in Adapter
  BY ShellFields, Zenon DEF Staged, Core, StagedOK
<1> DEFINE T == {k \in 0 .. max : ~RunInv(m, f[k].m, p, D, X)}
<1>3. SUFFICES ASSUME T # {} PROVE FALSE
  BY <1>1
<1>4. PICK k \in T : \A y \in T : k <= y
  <2>1. T \in SUBSET Nat
    OBVIOUS
  <2> HIDE DEF T
  <2> QED
    BY <1>3, <2>1, LeastNatural, Zenon
<1>5. CASE k = 0
  BY <1>1, <1>5, RunStart
<1>6. CASE k # 0
  <2>1. k \in 1 .. max /\ k - 1 \in 0 .. max /\ ~(k <= k - 1)
    BY <1>6
  <2>2. RunInv(m, f[k - 1].m, p, D, X)
    BY <1>4, <2>1, Zenon
  <2>3. f[k] = DispatchNext(f[k - 1], up)
    BY <1>1, <2>1, Zenon
  <2>4. f[k] = f[k - 1] \/ (f[k - 1].m.queue # <<>> /\ f[k] = dispatch_one(f[k - 1].m, up))
    BY <2>3, Zenon DEF DispatchNext
  <2>5. RunInv(m, f[k].m, p, D, X)
    BY <1>2, <2>2, <2>4, RunStep, Zenon
  <2> QED
    BY <2>5, Zenon
<1> QED
  BY <1>5, <1>6, Zenon

----------------------------------------------------------------------------
(* The peer's side moves on.                                               *)

(* q is p after more of the streams' events, none of them the last one.    *)
Later(p, q) ==
    \A id \in StreamId :
        /\ q[id].life = p[id].life /\ q[id].slot = p[id].slot
        /\ Ended(p[id]) => Ended(q[id])
        /\ p[id].stopped => q[id].stopped
        /\ p[id].reset => q[id].reset

LEMMA LaterStaged ==
    ASSUME NEW m, NEW p, NEW q, NEW D, NEW X, Staged(m, p, D, X), Later(p, q)
    PROVE  Staged(m, q, D, X)
<1>1. ASSUME NEW id \in StreamId PROVE StreamStaged(m, q[id], D, X, id)
  <2>1. StreamStaged(m, p[id], D, X, id)
    BY Zenon DEF Staged, Core
  <2>2. /\ q[id].life = p[id].life /\ q[id].slot = p[id].slot
        /\ Ended(p[id]) => Ended(q[id])
        /\ p[id].stopped => q[id].stopped
    BY Zenon DEF Later
  <2>3. Bound(q[id]) <=> Bound(p[id])
    BY <2>2, Zenon DEF Bound
  <2> HIDE DEF Ended
  <2> QED
    BY <2>1, <2>2, <2>3, Zenon DEF StreamStaged, SlotBound, SentOnce, OwedHeld, ReadyEnded
<1>2. Owners(m, q)
  <2>1. \A c \in ConnSlot : m.slots[c].stream_id \in StreamId
    BY ShellFields, Zenon DEF Staged, Core, StagedOK, ConnSlotState
  <2> QED
    BY <2>1, Zenon DEF Staged, Core, Owners, Later, Bound
<1>3. QueueOK(m, q, D)
  <2>1. \A e \in Queued : e.stream_id \in StreamId
    BY Zenon DEF Queued
  <2> QED
    BY <2>1, Zenon DEF Staged, QueueOK, EventOK, Over, Later
<1>4. SlotHeld(m, q)
  BY Zenon DEF Staged, SlotHeld, Later, Bound
<1> QED
  BY <1>1, <1>2, <1>3, <1>4, Zenon DEF Staged, Core

----------------------------------------------------------------------------
(* Bytes and FIN, on an empty queue.                                       *)

LEMMA DirectDispatch ==
    ASSUME NEW m \in StagedShell, m.queue = <<>>, NEW e, NEW up
    PROVE  EnqueueAndDispatch(m, e, up) = dispatch_event(m, e, up)
<1>1. ~(Len(m.queue) >= QueueCapacity)
  BY RuntimeConstants
<1> QED
  BY <1>1, EnqueueCases, Zenon

(* The stream's context, opened if need be, replaced by h.                 *)
LEMMA StoredFields ==
    ASSUME NEW m, StagedOK(m), NEW id \in StreamId,
           NEW o, o = open_stream(m.table, id, ReadingLength), o.slot # NULL,
           NEW h \in Context, h.id = id, NEW n, n = Stored(m, o, h).m
    PROVE  /\ n \in StagedShell /\ Good(n.table) /\ TableOnly(m, n)
           /\ h.phase.tag = "Processing" => ReadyIds(n.table) = ReadyIds(m.table) \cup {id}
           /\ h.phase.tag # "Processing" => ReadyIds(n.table) = ReadyIds(m.table) \ {id}
<1>1. n = [m EXCEPT !.table = Put(o, h)]
  BY Zenon DEF Stored, Put
<1>2. /\ Good(Put(o, h)) /\ Put(o, h) \in TableOf(ServerShape)
      /\ h.phase.tag = "Processing" => ReadyIds(Put(o, h)) = ReadyIds(m.table) \cup {id}
      /\ h.phase.tag # "Processing" => ReadyIds(Put(o, h)) = ReadyIds(m.table) \ {id}
  BY ReadyAfterStore DEF StagedOK
<1>3. n \in StagedShell /\ n.table = Put(o, h) /\ TableOnly(m, n)
  BY <1>1, <1>2, TableReplaced, Zenon DEF StagedOK
<1> QED
  BY <1>2, <1>3, Zenon

LEMMA NoEntry ==
    ASSUME NEW m \in StagedShell, NEW o, o.table = m.table
    PROVE  TableFull(m, o).m = m /\ TableFull(m, o).code = 3
<1>1. [m EXCEPT !.table = m.table] = m
  BY Zenon DEF StagedShell
<1> QED
  BY <1>1, Zenon DEF TableFull

(* The context on which the handler of bytes or FIN runs.                  *)
LEMMA OpenedContext ==
    ASSUME NEW t, Good(t), NEW id \in StreamId,
           NEW o, o = open_stream(t, id, ReadingLength)
    PROVE  \/ o.slot = NULL /\ o.table = t
           \/ /\ o.slot # NULL
              /\ o.table.ctx[o.slot] \in Context /\ o.table.ctx[o.slot].id = id
              /\ id \notin ReadyIds(t) => o.table.ctx[o.slot].phase.tag # "Processing"
<1>1. ReadingLength.tag # "Processing"
  BY ServerShapeOK, Zenon
<1> QED
  BY <1>1, TableOpen, SMTT(20) DEF ReadyIds

(* What the bytes of one buffer leave of the shell: all but the context of *)
(* their stream, which does not become ready.                              *)
BytesKept(m, n, id) ==
    /\ n \in StagedShell /\ Good(n.table) /\ TableOnly(m, n)
    /\ ReadyIds(n.table) \subseteq ReadyIds(m.table)

LEMMA BytesEffect ==
    ASSUME NEW m, StagedOK(m), m.queue = <<>>, NEW c, NEW id \in StreamId,
           m.slots[c].stream_id = id, id \notin ReadyIds(m.table),
           NEW data \in Seq(Byte), NEW up,
           NEW r, r = copy_enqueue_and_dispatch(m, c, data, up)
    PROVE  BytesKept(m, r.m, id)
<1> DEFINE e == Event("BYTES", id, data, Len(data), FALSE)
           o == open_stream(m.table, id, ReadingLength)
           ctx == o.table.ctx[o.slot]
           h == handle_stream_data(ctx, data)
<1>0. m \in StagedShell /\ Good(m.table) /\ TableOnly(m, m)
  BY Zenon DEF StagedOK, TableOnly
<1>1. CASE data = <<>> \/ Len(data) > IngressCapacity \/ m.slots[c].received_fin
  <2>1. r.m = m
    BY <1>1, Zenon DEF copy_enqueue_and_dispatch
  <2> QED
    BY <1>0, <2>1, Zenon DEF BytesKept
<1>2. CASE data # <<>> /\ ~(Len(data) > IngressCapacity) /\ ~m.slots[c].received_fin
  <2>1. r = dispatch_event(m, e, up)
    BY <1>0, <1>2, DirectDispatch, Zenon DEF copy_enqueue_and_dispatch
  <2>2. r = BytesDispatched(DataTo(m, o, data), id, up)
    BY <2>1, Zenon DEF dispatch_event, Event, dispatch_authenticated_stream_data
  <2>3. CASE o.slot = NULL /\ o.table = m.table
    <3>1. DataTo(m, o, data) = TableFull(m, o)
      BY <2>3, Zenon DEF DataTo
    <3> HIDE DEF o
    <3>2. TableFull(m, o).m = m /\ TableFull(m, o).code # 2
      BY <1>0, <2>3, NoEntry
    <3>3. r = [m |-> TableFull(m, o).m, ok |-> TableFull(m, o).code # 3]
      BY <2>2, <3>1, <3>2, Zenon DEF BytesDispatched
    <3>4. r.m = m
      BY <3>2, <3>3
    <3> QED
      BY <1>0, <3>4, Zenon DEF BytesKept
  <2>4. CASE o.slot # NULL /\ ctx \in Context /\ ctx.id = id /\ ctx.phase.tag # "Processing"
    <3>1. DataTo(m, o, data) = Stored(m, o, h)
      BY <2>4, Zenon DEF DataTo
    <3> HIDE DEF o, ctx
    <3>2. h \in Context /\ h.id = id /\ h.phase.tag # "Processing"
      BY <2>4, DataHandler DEF Context
    <3> HIDE DEF h
    <3>3. Stored(m, o, h).code # 2
      BY <3>2, PhaseCodes, Zenon DEF Stored
    <3>4. r = [m |-> Stored(m, o, h).m, ok |-> Stored(m, o, h).code # 3]
      BY <2>2, <3>1, <3>3, Zenon DEF BytesDispatched
    <3>5. r.m = Stored(m, o, h).m
      BY <3>4
    <3> QED
      <4>1. o = open_stream(m.table, id, ReadingLength)
        BY Zenon DEF o
      <4>2. /\ r.m \in StagedShell /\ Good(r.m.table) /\ TableOnly(m, r.m)
            /\ ReadyIds(r.m.table) = ReadyIds(m.table) \ {id}
        <5>1. o.slot # NULL
          BY <2>4, Zenon
        <5> QED
          BY <3>2, <3>5, <4>1, <5>1, StoredFields
      <4> QED
        BY <4>2, Zenon DEF BytesKept
  <2> QED
    BY <1>0, <2>3, <2>4, OpenedContext
<1> QED
  BY <1>1, <1>2, Zenon

(* The buffers of a RECEIVE keep the invariant.                            *)
LEMMA BytesStaged ==
    ASSUME NEW m, NEW n, NEW p, NEW D, NEW X, Staged(m, p, D, X), NEW id, BytesKept(m, n, id)
    PROVE  Staged(n, p, D, X)
<1>1. Core(n, p, D, X) /\ NotTaken(m, n)
  BY ShrinkCore, Zenon DEF Staged, BytesKept
<1>2. n.queue = m.queue
  BY Zenon DEF BytesKept, TableOnly
<1>3. SlotHeld(n, p)
  BY <1>1, <1>2, NotTakenHeld, Zenon DEF Staged
<1> QED
  BY <1>1, <1>2, <1>3, Zenon DEF Staged, QueueOK

(* Only the table changed, and no stream but id became ready: its end has  *)
(* come, and it was sent nothing.                                          *)
LEMMA GrowCore ==
    ASSUME NEW m, NEW n, NEW p, NEW D, Core(m, p, D, {}),
           n \in StagedShell, Good(n.table), TableOnly(m, n), NEW id \in StreamId,
           ReadyIds(n.table) \subseteq ReadyIds(m.table) \cup {id},
           Ended(p[id]), ~HasSent(m, id)
    PROVE  Core(n, p, D, {id})
<1> HIDE DEF Ended
<1>1. ASSUME NEW j \in StreamId PROVE StreamStaged(n, p[j], D, {id}, j)
  <2>1. StreamStaged(m, p[j], D, {}, j)
    BY Zenon DEF Core
  <2>2. SlotBound(n, p[j], D, j) /\ OwedHeld(n, p[j], D, j) /\ AdapterRecord(n, j)
        /\ (j \in D => HasSent(n, j))
    BY <2>1, Zenon DEF StreamStaged, SlotBound, OwedHeld, AdapterRecord,
                TableOnly, InFlightFor, HasSent, Owed
  <2>3. SentOnce(n, p[j], {id}, j) /\ ReadyEnded(n, p[j], {id}, j)
    BY <2>1, Zenon DEF StreamStaged, SentOnce, ReadyEnded, TableOnly, InFlightFor, HasSent
  <2> QED
    BY <2>2, <2>3, Zenon DEF StreamStaged
<1> QED
  BY <1>1, Zenon DEF Core, StagedOK, Owners, TableOnly

(* The slot with the outcome of the FIN recorded in it.                    *)
FinFlag(slot, b) == [slot EXCEPT !.received_fin = b]

(* s differs from slot in that record only.                                *)
FinOnly(slot, s) ==
    /\ s \in ConnSlotState
    /\ s.in_use = slot.in_use /\ s.stream_id = slot.stream_id
    /\ s.send_in_flight = slot.send_in_flight /\ s.response_len = slot.response_len

LEMMA FinFlagFields ==
    ASSUME NEW slot \in ConnSlotState, NEW b \in BOOLEAN, NEW s, s = FinFlag(slot, b)
    PROVE  FinOnly(slot, s) /\ s.received_fin = b
  BY Zenon DEF FinFlag, FinOnly, ConnSlotState

LEMMA SlotSet ==
    ASSUME NEW m \in StagedShell, NEW c \in ConnSlot, NEW s \in ConnSlotState,
           NEW n, n = WithSlot(m, c, s)
    PROVE  /\ n \in StagedShell /\ n.table = m.table /\ n.adapter = m.adapter
           /\ n.sendbuf = m.sendbuf /\ n.queue = m.queue /\ n.sends = m.sends
           /\ n.slots[c] = s
           /\ \A d \in ConnSlot \ {c} : n.slots[d] = m.slots[d]
<1> DEFINE a == [m.slots EXCEPT ![c] = s]
<1>1. m.slots \in [ConnSlot -> ConnSlotState]
  BY ShellFields, Zenon
<1>2. a \in [ConnSlot -> ConnSlotState] /\ a[c] = s /\ \A d \in ConnSlot \ {c} : a[d] = m.slots[d]
  BY <1>1, Zenon
<1>3. n = [m EXCEPT !.slots = a]
  BY Zenon DEF WithSlot
<1> HIDE DEF a
<1>4. /\ n \in StagedShell /\ n.table = m.table /\ n.adapter = m.adapter
      /\ n.sendbuf = m.sendbuf /\ n.queue = m.queue /\ n.sends = m.sends /\ n.slots = a
  BY <1>2, <1>3, Zenon DEF StagedShell
<1> QED
  BY <1>2, <1>4, Zenon

LEMMA FinRecord ==
    ASSUME NEW m, NEW b, NEW c
    PROVE  FinRecorded([m |-> m, ok |-> b], c) =
               [m |-> WithSlot(m, c, FinFlag(m.slots[c], b)), ok |-> b]
<1> DEFINE r == [m |-> m, ok |-> b]
           n == [m EXCEPT !.slots[c].received_fin = b]
<1>1. r.m = m /\ r.ok = b
  OBVIOUS
<1>2. FinRecorded(r, c) = [r EXCEPT !.m = n]
  BY <1>1, Zenon DEF FinRecorded
<1>3. n = WithSlot(m, c, FinFlag(m.slots[c], b))
  BY Zenon DEF WithSlot, FinFlag
<1> HIDE DEF n
<1>4. [r EXCEPT !.m = n] = [m |-> n, ok |-> b]
  OBVIOUS
<1> QED
  BY <1>2, <1>3, <1>4, Zenon

(* The stream whose FIN was dispatched is exempt no more.                  *)
LEMMA FinnedCore ==
    ASSUME NEW m, NEW p, NEW D, NEW id \in StreamId, Core(m, p, D, {id}),
           Bound(p[id]), Ended(p[id]), NEW c, c = p[id].slot,
           NEW s, FinOnly(m.slots[c], s),
           HasSent(m, id) \/ id \in ReadyIds(m.table) => s.received_fin,
           NEW n, n = WithSlot(m, c, s)
    PROVE  Core(n, p, D, {}) /\ n.queue = m.queue /\ n.adapter = m.adapter /\ n.sends = m.sends
           /\ n.table = m.table
<1> HIDE DEF Ended
<1>1. StreamStaged(m, p[id], D, {id}, id) /\ m \in StagedShell
  BY Zenon DEF Core, StagedOK
<1>2. c \in ConnSlot /\ m.slots[c].in_use /\ m.slots[c].stream_id = id
  BY <1>1, Zenon DEF StreamStaged, SlotBound
<1>4. /\ s \in ConnSlotState
      /\ s.in_use = m.slots[c].in_use /\ s.stream_id = m.slots[c].stream_id
      /\ s.send_in_flight = m.slots[c].send_in_flight /\ s.response_len = m.slots[c].response_len
  BY Zenon DEF FinOnly
<1>5. /\ n \in StagedShell /\ n.table = m.table /\ n.adapter = m.adapter
      /\ n.sendbuf = m.sendbuf /\ n.queue = m.queue /\ n.sends = m.sends
      /\ n.slots[c] = s
      /\ \A d \in ConnSlot \ {c} : n.slots[d] = m.slots[d]
  BY <1>1, <1>2, <1>4, SlotSet
<1>6. StreamStaged(n, p[id], D, {}, id)
  <2>1. SlotBound(n, p[id], D, id) /\ (id \in D => HasSent(n, id))
    BY <1>1, <1>2, <1>4, <1>5, Zenon DEF StreamStaged, SlotBound, HasSent, Owed
  <2>2. SentOnce(n, p[id], {}, id) /\ ReadyEnded(n, p[id], {}, id)
    BY <1>1, <1>4, <1>5, Zenon DEF StreamStaged, SentOnce, ReadyEnded, HasSent, InFlightFor
  <2>3. OwedHeld(n, p[id], D, id) /\ AdapterRecord(n, id)
    BY <1>1, <1>4, <1>5, Zenon
       DEF StreamStaged, OwedHeld, AdapterRecord, HasSent, Owed, InFlightFor
  <2> QED
    BY <2>1, <2>2, <2>3, Zenon DEF StreamStaged
<1>7. ASSUME NEW j \in StreamId \ {id} PROVE StreamStaged(n, p[j], D, {}, j)
  <2>1. StreamStaged(m, p[j], D, {id}, j)
    BY Zenon DEF Core
  <2>2. Bound(p[j]) => n.slots[p[j].slot] = m.slots[p[j].slot] /\ p[j].slot \in ConnSlot
    BY <1>2, <1>5, <2>1, Zenon DEF StreamStaged, SlotBound
  <2>3. SlotBound(n, p[j], D, j) /\ (j \in D => HasSent(n, j))
    BY <1>5, <2>1, <2>2, Zenon DEF StreamStaged, SlotBound, HasSent, Owed
  <2>4. ReadyEnded(n, p[j], {}, j) /\ SentOnce(n, p[j], {}, j)
    BY <1>5, <2>1, <2>2, Zenon DEF StreamStaged, ReadyEnded, SentOnce, InFlightFor, HasSent
  <2>5. OwedHeld(n, p[j], D, j) /\ AdapterRecord(n, j)
    BY <1>5, <2>1, <2>2, Zenon
       DEF StreamStaged, OwedHeld, AdapterRecord, InFlightFor, HasSent, Owed, Bound
  <2> QED
    BY <2>3, <2>4, <2>5, Zenon DEF StreamStaged
<1>8. Owners(n, p)
  <2>1. \A d \in ConnSlot : /\ n.slots[d].in_use = m.slots[d].in_use
                            /\ n.slots[d].stream_id = m.slots[d].stream_id
    BY <1>4, <1>5, Zenon
  <2> QED
    BY <2>1, Zenon DEF Core, Owners
<1> QED
  BY <1>5, <1>6, <1>7, <1>8, Zenon DEF Core, StagedOK

(* What a callback that reports bytes or FIN does besides keeping the      *)
(* invariant: it leaves the queue alone and, while a send is in flight,    *)
(* the send slot and what was sent.                                        *)
SendsAside(m, n) ==
    /\ n.queue = m.queue /\ SendsKept(m, n)
    /\ m.adapter.send_in_flight => n.adapter = m.adapter /\ n.sends = m.sends

(* FIN handed to the stream: no table entry, Done, or ready and served.    *)
FinServed(m, r, id, up) ==
    \/ r = [m |-> m, ok |-> FALSE]
    \/ \E w : /\ w \in StagedShell /\ Good(w.table) /\ TableOnly(m, w)
              /\ \/ /\ r = [m |-> w, ok |-> FALSE]
                    /\ ReadyIds(w.table) = ReadyIds(m.table) \ {id}
                 \/ /\ r = [m |-> w, ok |-> TRUE] /\ w.adapter.send_in_flight
                    /\ ReadyIds(w.table) = ReadyIds(m.table) \cup {id}
                 \/ /\ r = [m |-> prepare_ready_response(w, id, up).m, ok |-> TRUE]
                    /\ ReadyIds(w.table) = ReadyIds(m.table) \cup {id}
                    /\ ~w.adapter.send_in_flight

LEMMA FinHandled ==
    ASSUME NEW m, StagedOK(m), NEW id \in StreamId, NEW up,
           NEW r, r = on_authenticated_stream_fin(m, id, up)
    PROVE  FinServed(m, r, id, up)
<1> USE DEF FinServed
<1> DEFINE o == open_stream(m.table, id, ReadingLength)
           ctx == o.table.ctx[o.slot]
           h == handle_stream_fin(ctx)
           w == Stored(m, o, h).m
<1>0. m \in StagedShell /\ Good(m.table)
  BY Zenon DEF StagedOK
<1>1. r = ServedIfReady(FinTo(m, o), id, up)
  BY Zenon DEF on_authenticated_stream_fin
<1>2. CASE o.slot = NULL /\ o.table = m.table
  <2>1. FinTo(m, o) = TableFull(m, o)
    BY <1>2, Zenon DEF FinTo
  <2> HIDE DEF o
  <2>2. TableFull(m, o).m = m /\ TableFull(m, o).code # 2
    BY <1>0, <1>2, NoEntry
  <2>3. (FinTo(m, o).code = 2) = FALSE
    BY <2>1, <2>2, Zenon
  <2>4. r = [m |-> m, ok |-> FALSE]
    BY <1>1, <2>1, <2>2, <2>3, Zenon DEF ServedIfReady
  <2> QED
    BY <2>4, Zenon
<1>3. CASE o.slot # NULL /\ ctx \in Context /\ ctx.id = id
  <2>1. FinTo(m, o) = Stored(m, o, h)
    BY <1>3, Zenon DEF FinTo
  <2>2. o = open_stream(m.table, id, ReadingLength) /\ o.slot # NULL
    BY <1>3, Zenon
  <2> HIDE DEF o, ctx
  <2>3. h \in Context /\ h.id = id /\ h.phase.tag \in {"Processing", "Done"}
    BY <1>3, FinHandler, Zenon DEF Context
  <2> HIDE DEF h
  <2>4. /\ w \in StagedShell /\ Good(w.table) /\ TableOnly(m, w)
        /\ h.phase.tag = "Processing" => ReadyIds(w.table) = ReadyIds(m.table) \cup {id}
        /\ h.phase.tag # "Processing" => ReadyIds(w.table) = ReadyIds(m.table) \ {id}
    BY <2>2, <2>3, StoredFields
  <2>5. FinTo(m, o).m = w /\ FinTo(m, o).code = shell_phase_code(h.phase)
    BY <2>1 DEF Stored
  <2> HIDE DEF w
  <2>6. CASE h.phase.tag = "Done"
    <3>1. (FinTo(m, o).code = 2) = FALSE
      BY <2>3, <2>5, <2>6, PhaseCodes, Zenon
    <3>2. r = [m |-> w, ok |-> FALSE]
      BY <1>1, <2>5, <3>1, Zenon DEF ServedIfReady
    <3>3. ReadyIds(w.table) = ReadyIds(m.table) \ {id}
      BY <2>4, <2>6, Zenon
    <3> QED
      BY <2>4, <3>2, <3>3, Zenon
  <2>7. CASE h.phase.tag = "Processing"
    <3>1. (FinTo(m, o).code = 2) = TRUE
      BY <2>3, <2>5, <2>7, PhaseCodes, Zenon
    <3>2. ReadyIds(w.table) = ReadyIds(m.table) \cup {id}
      BY <2>4, <2>7, Zenon
    <3>3. CASE w.adapter.send_in_flight
      <4>1. r = [m |-> w, ok |-> TRUE]
        BY <1>1, <2>5, <3>1, <3>3, Zenon DEF ServedIfReady
      <4> QED
        BY <2>4, <3>2, <3>3, <4>1, Zenon
    <3>4. CASE ~w.adapter.send_in_flight
      <4>1. r = [m |-> prepare_ready_response(w, id, up).m, ok |-> TRUE]
        BY <1>1, <2>5, <3>1, <3>4, Zenon DEF ServedIfReady
      <4> QED
        BY <2>4, <3>2, <3>4, <4>1, Zenon
    <3> QED
      BY <3>3, <3>4, Zenon
  <2> QED
    BY <2>3, <2>6, <2>7, Zenon
<1> QED
  BY <1>0, <1>2, <1>3, OpenedContext

(* The same, for the invariant: b tells whether the stream may be ready or *)
(* have been sent its response.                                            *)
FinKept(m, s, p, D, id, b) ==
    /\ Core(s, p, D, {id}) /\ SlotHeld(s, p) /\ SendsAside(m, s)
    /\ HasSent(s, id) \/ id \in ReadyIds(s.table) => b

LEMMA FinCore ==
    ASSUME NEW m, NEW p, NEW D, Staged(m, p, D, {}), NEW id \in StreamId,
           Ended(p[id]), ~HasSent(m, id), id \notin ReadyIds(m.table),
           NEW up, CanSend(m, p, up), NEW r, FinServed(m, r, id, up)
    PROVE  \E s : \E b \in BOOLEAN : r = [m |-> s, ok |-> b] /\ FinKept(m, s, p, D, id, b)
<1> HIDE DEF Ended
<1>0. m \in StagedShell /\ Good(m.table) /\ Core(m, p, D, {}) /\ SlotHeld(m, p)
  BY Zenon DEF Staged, Core, StagedOK
<1>1. ASSUME NEW w, w \in StagedShell, Good(w.table), TableOnly(m, w),
             ReadyIds(w.table) \subseteq ReadyIds(m.table) \cup {id}
      PROVE  /\ Core(w, p, D, {id}) /\ SlotHeld(w, p) /\ SendsAside(m, w)
             /\ ~HasSent(w, id) /\ CanSend(w, p, up)
  <2>1. Core(w, p, D, {id})
    BY <1>0, <1>1, GrowCore, Zenon
  <2>2. SlotHeld(w, p)
    BY <1>0, <1>1, Zenon DEF SlotHeld, TableOnly, ResetQueued, InFlightFor
  <2>3. SendsAside(m, w) /\ ~HasSent(w, id) /\ CanSend(w, p, up)
    BY <1>1, Zenon DEF SendsAside, SendsKept, TableOnly, HasSent, CanSend
  <2> QED
    BY <2>1, <2>2, <2>3, Zenon
<1>2. CASE r = [m |-> m, ok |-> FALSE]
  <2>1. FinKept(m, m, p, D, id, FALSE)
    <3>1. TableOnly(m, m)
      BY Zenon DEF TableOnly
    <3> QED
      BY <1>0, <1>1, <3>1, Zenon DEF FinKept
  <2> QED
    BY <1>2, <2>1, Zenon
<1>3. ASSUME NEW w, w \in StagedShell, Good(w.table), TableOnly(m, w),
             r = [m |-> w, ok |-> FALSE], ReadyIds(w.table) = ReadyIds(m.table) \ {id}
      PROVE  \E s : \E b \in BOOLEAN : r = [m |-> s, ok |-> b] /\ FinKept(m, s, p, D, id, b)
  <2>1. FinKept(m, w, p, D, id, FALSE)
    BY <1>1, <1>3, Zenon DEF FinKept
  <2> QED
    BY <1>3, <2>1, Zenon
<1>4. ASSUME NEW w, w \in StagedShell, Good(w.table), TableOnly(m, w),
             r = [m |-> w, ok |-> TRUE], ReadyIds(w.table) = ReadyIds(m.table) \cup {id}
      PROVE  \E s : \E b \in BOOLEAN : r = [m |-> s, ok |-> b] /\ FinKept(m, s, p, D, id, b)
  <2>1. FinKept(m, w, p, D, id, TRUE)
    BY <1>1, <1>4, Zenon DEF FinKept
  <2> QED
    BY <1>4, <2>1, Zenon
<1>5. ASSUME NEW w, w \in StagedShell, Good(w.table), TableOnly(m, w),
             ~w.adapter.send_in_flight, ReadyIds(w.table) = ReadyIds(m.table) \cup {id},
             NEW s, s = prepare_ready_response(w, id, up).m
      PROVE  FinKept(m, s, p, D, id, TRUE)
  <2>1. /\ Core(w, p, D, {id}) /\ SlotHeld(w, p) /\ SendsAside(m, w) /\ CanSend(w, p, up)
    BY <1>1, <1>5, Zenon
  <2>2. StagedServe(w, s, id, up)
    BY <1>5, <2>1, OneSlot, ServeEffect, Zenon DEF Core
  <2>3. /\ Core(s, p, D, {id}) /\ SendsKept(w, s) /\ SlotHeld(s, p) /\ s.queue = w.queue
    BY <2>1, <2>2, ServeCore, Zenon
  <2>4. w.queue = m.queue /\ w.adapter = m.adapter /\ w.sends = m.sends
    BY <1>5, Zenon DEF TableOnly
  <2>5. SendsAside(m, s)
    BY <1>5, <2>3, <2>4, Zenon DEF SendsAside, SendsKept, HasSent
  <2> QED
    BY <2>3, <2>5, Zenon DEF FinKept
<1>6. ASSUME NEW w, w \in StagedShell, Good(w.table), TableOnly(m, w),
             ~w.adapter.send_in_flight, ReadyIds(w.table) = ReadyIds(m.table) \cup {id},
             r = [m |-> prepare_ready_response(w, id, up).m, ok |-> TRUE]
      PROVE  \E s : \E b \in BOOLEAN : r = [m |-> s, ok |-> b] /\ FinKept(m, s, p, D, id, b)
  BY <1>5, <1>6, Zenon
<1> QED
  BY <1>2, <1>3, <1>4, <1>6, Zenon DEF FinServed

LEMMA AsideTransitive ==
    ASSUME NEW a, NEW b, NEW c, SendsAside(a, b), SendsAside(b, c)
    PROVE  SendsAside(a, c)
  BY SendsTransitive, Zenon DEF SendsAside

LEMMA AsideSelf == \A m : SendsAside(m, m)
  BY Zenon DEF SendsAside, SendsKept

(* FIN on a stream whose end has come.                                     *)
LEMMA FinStaged ==
    ASSUME NEW m, NEW p, NEW D, Staged(m, p, D, {}), NEW id \in StreamId,
           Bound(p[id]), Ended(p[id]), NEW c, c = p[id].slot,
           NEW up, CanSend(m, p, up), NEW r, r = on_fin(m, c, up)
    PROVE  Staged(r.m, p, D, {}) /\ SendsAside(m, r.m)
<1> HIDE DEF Ended
<1> DEFINE e == Event("FIN", id, <<>>, 0, FALSE)
           f == on_authenticated_stream_fin(m, id, up)
<1>0. m \in StagedShell /\ StagedOK(m) /\ StreamStaged(m, p[id], D, {}, id)
  BY Zenon DEF Staged, Core, StagedOK
<1>1. CASE m.slots[c].received_fin \/ m.queue # <<>>
  <2>1. r.m = m
    BY <1>1, Zenon DEF on_fin
  <2> QED
    BY <2>1, AsideSelf, Zenon
<1>2. CASE ~m.slots[c].received_fin /\ m.queue = <<>>
  <2>1. ~HasSent(m, id) /\ id \notin ReadyIds(m.table) /\ m.slots[c].stream_id = id
    BY <1>0, <1>2, Zenon DEF StreamStaged, SlotBound, SentOnce, ReadyEnded
  <2>2. r = FinRecorded(dispatch_event(m, e, up), c)
    BY <1>0, <1>2, <2>1, DirectDispatch, Zenon DEF on_fin, DispatchFin
  <2>3. dispatch_event(m, e, up) = f
    BY Zenon DEF dispatch_event, Event
  <2>4. FinServed(m, f, id, up)
    BY <1>0, FinHandled, Zenon
  <2> HIDE DEF f, e
  <2>5. PICK s : \E b \in BOOLEAN : f = [m |-> s, ok |-> b] /\ FinKept(m, s, p, D, id, b)
    BY <2>1, <2>4, FinCore
  <2>6. PICK b \in BOOLEAN : f = [m |-> s, ok |-> b] /\ FinKept(m, s, p, D, id, b)
    BY <2>5, Zenon
  <2> DEFINE n == WithSlot(s, c, FinFlag(s.slots[c], b))
  <2>7. r = [m |-> n, ok |-> b]
    <3>1. r = FinRecorded([m |-> s, ok |-> b], c)
      BY <2>2, <2>3, <2>6, Zenon
    <3> QED
      BY <3>1, FinRecord, Zenon
  <2>8. r.m = n
    BY <2>7
  <2>9. /\ Core(s, p, D, {id}) /\ SlotHeld(s, p) /\ SendsAside(m, s)
        /\ HasSent(s, id) \/ id \in ReadyIds(s.table) => b
    BY <2>6, Zenon DEF FinKept
  <2>10. Core(n, p, D, {}) /\ n.queue = s.queue /\ n.adapter = s.adapter /\ n.sends = s.sends
    <3> DEFINE d == FinFlag(s.slots[c], b)
    <3>1. s.slots[c] \in ConnSlotState
      <4>1. s \in StagedShell /\ c \in ConnSlot
        BY <2>9, Zenon DEF Core, StagedOK, StreamStaged, SlotBound
      <4> QED
        BY <4>1, ShellFields, Zenon
    <3>2. FinOnly(s.slots[c], d) /\ d.received_fin = b
      BY <3>1, FinFlagFields, Zenon
    <3>3. n = WithSlot(s, c, d)
      BY Zenon
    <3> HIDE DEF n, d
    <3>4. HasSent(s, id) \/ id \in ReadyIds(s.table) => d.received_fin
      BY <2>9, <3>2, Zenon
    <3> QED
      BY <2>9, <3>2, <3>3, <3>4, FinnedCore
  <2> HIDE DEF n
  <2>11. SlotHeld(n, p) /\ SendsAside(m, n)
    BY <2>9, <2>10, Zenon DEF SlotHeld, InFlightFor, ResetQueued, SendsAside, SendsKept
  <2>12. QueueOK(n, p, D)
    BY <2>11, Zenon DEF SendsAside, Staged, QueueOK
  <2> QED
    BY <2>8, <2>10, <2>11, <2>12, Zenon DEF Staged
<1> QED
  BY <1>1, <1>2, Zenon

(* One buffer of a RECEIVE, on a stream that is not ready.                 *)
BufferKept(m, n, p, D, id) ==
    /\ Staged(n, p, D, {}) /\ SendsAside(m, n)
    /\ id \notin ReadyIds(n.table) /\ n.slots = m.slots

LEMMA BufferStaged ==
    ASSUME NEW m, NEW p, NEW D, Staged(m, p, D, {}), NEW c, NEW id \in StreamId,
           m.slots[c].stream_id = id, id \notin ReadyIds(m.table),
           NEW data \in Seq(Byte), NEW up,
           NEW r, r = copy_enqueue_and_dispatch(m, c, data, up)
    PROVE  BufferKept(m, r.m, p, D, id)
<1>1. CASE m.queue # <<>>
  <2>1. r.m = m
    BY <1>1, Zenon DEF copy_enqueue_and_dispatch
  <2> QED
    BY <2>1, AsideSelf, Zenon DEF BufferKept
<1>2. CASE m.queue = <<>>
  <2>1. BytesKept(m, r.m, id)
    BY <1>2, BytesEffect, Zenon DEF Staged, Core
  <2>2. Staged(r.m, p, D, {})
    BY <2>1, BytesStaged, Zenon
  <2> QED
    BY <2>1, <2>2, Zenon DEF BytesKept, BufferKept, TableOnly, SendsAside, SendsKept
<1> QED
  BY <1>1, <1>2, Zenon

(* RECEIVE: two buffers, then FIN when it is flagged.                      *)
LEMMA ReceiveStaged ==
    ASSUME NEW m, NEW p, NEW D, Staged(m, p, D, {}), NEW id \in StreamId,
           Bound(p[id]), NEW c, c = p[id].slot, id \notin ReadyIds(m.table),
           NEW first \in Seq(Byte), NEW second \in Seq(Byte), NEW flag, flag => Ended(p[id]),
           NEW up \in SUBSET StreamId, CanSend(m, p, up),
           NEW r, r = on_msquic_receive(m, c, first, second, flag, up)
    PROVE  Staged(r.m, p, D, {}) /\ SendsAside(m, r.m)
<1> HIDE DEF Ended
<1> DEFINE a == copy_enqueue_and_dispatch(m, c, first, up)
           b == ThenBuffer(a, c, second, up)
<1>1. m.slots[c].stream_id = id
  BY Zenon DEF Staged, Core, StreamStaged, SlotBound
<1>2. BufferKept(m, a.m, p, D, id)
  BY <1>1, BufferStaged, Zenon
<1>3. r = ThenFin(b, c, flag, up)
  BY Zenon DEF on_msquic_receive
<1> HIDE DEF a
<1>4. Staged(b.m, p, D, {}) /\ SendsAside(m, b.m)
  <2>1. CASE ~a.ok
    BY <1>2, <2>1, Zenon DEF ThenBuffer, BufferKept
  <2>2. CASE a.ok
    <3>1. b = copy_enqueue_and_dispatch(a.m, c, second, up)
      BY <2>2, Zenon DEF ThenBuffer
    <3>2. /\ Staged(a.m, p, D, {}) /\ SendsAside(m, a.m)
          /\ id \notin ReadyIds(a.m.table) /\ a.m.slots[c].stream_id = id
      BY <1>1, <1>2, Zenon DEF BufferKept
    <3> HIDE DEF b
    <3>3. BufferKept(a.m, b.m, p, D, id)
      BY <3>1, <3>2, BufferStaged, Zenon
    <3> QED
      BY <3>2, <3>3, AsideTransitive, Zenon DEF BufferKept
  <2> QED
    BY <2>1, <2>2, Zenon
<1> HIDE DEF b
<1>5. CASE ~(b.ok /\ flag)
  BY <1>3, <1>4, <1>5, Zenon DEF ThenFin
<1>6. CASE b.ok /\ flag
  <2>1. r = on_fin(b.m, c, up)
    BY <1>3, <1>6, Zenon DEF ThenFin
  <2>2. CanSend(b.m, p, up)
    <3>1. ASSUME NEW j \in up, HasSent(m, j), p[j].life # "live" PROVE HasSent(b.m, j)
      BY <1>4, <3>1, Zenon DEF SendsAside, SendsKept, HasSent
    <3> QED
      BY <3>1, Zenon DEF CanSend
  <2>3. Staged(r.m, p, D, {}) /\ SendsAside(b.m, r.m)
    BY <1>4, <1>6, <2>1, <2>2, FinStaged, Zenon
  <2> QED
    BY <1>4, <2>3, AsideTransitive, Zenon
<1> QED
  BY <1>5, <1>6, Zenon
=============================================================================
