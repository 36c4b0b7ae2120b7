-------------------------- MODULE DoqStagedProofs ---------------------------
(***************************************************************************)
(* The theorems about the server with staged events.  They hold for every  *)
(* queue, table and buffer size, every number of streams and slots and     *)
(* every peer, on a runtime that serves one connection (OneConnection).    *)
(***************************************************************************)
EXTENDS DoqStagedLemmas

OneConnection == MaxConnections <= 1

----------------------------------------------------------------------------
(* A change of one stream's slot, and of that stream.                      *)

SlotOnly(m, n, c) ==
    /\ n \in StagedShell /\ n.table = m.table /\ n.adapter = m.adapter
    /\ n.sendbuf = m.sendbuf /\ n.queue = m.queue /\ n.sends = m.sends
    /\ \A d \in ConnSlot \ {c} : n.slots[d] = m.slots[d]

LEMMA OthersStaged ==
    ASSUME NEW m, NEW n, NEW p, NEW q, NEW D, NEW E, NEW X, Core(m, p, D, X),
           NEW c, SlotOnly(m, n, c),
           NEW j \in StreamId, q[j] = p[j], j \in E <=> j \in D, Bound(p[j]) => p[j].slot # c
    PROVE  StreamStaged(n, q[j], E, X, j)
<1>1. StreamStaged(m, p[j], D, X, j)
  BY Zenon DEF Core
<1>2. Bound(p[j]) => n.slots[p[j].slot] = m.slots[p[j].slot] /\ p[j].slot \in ConnSlot
  BY <1>1, Zenon DEF StreamStaged, SlotBound, SlotOnly
<1>3. /\ n.table = m.table /\ n.adapter = m.adapter /\ n.sendbuf = m.sendbuf
      /\ n.sends = m.sends /\ q[j] = p[j]
  BY Zenon DEF SlotOnly
<1>4. SlotBound(n, q[j], E, j) /\ (j \in E => HasSent(n, j))
  BY <1>1, <1>2, <1>3, Zenon DEF StreamStaged, SlotBound, HasSent, Owed
<1>5. ReadyEnded(n, q[j], X, j) /\ SentOnce(n, q[j], X, j)
  BY <1>1, <1>2, <1>3, Zenon DEF StreamStaged, ReadyEnded, SentOnce, InFlightFor, HasSent
<1>6. OwedHeld(n, q[j], E, j) /\ AdapterRecord(n, j)
  BY <1>1, <1>2, <1>3, Zenon
     DEF StreamStaged, OwedHeld, AdapterRecord, InFlightFor, HasSent, Owed, Bound
<1> QED
  BY <1>4, <1>5, <1>6, Zenon DEF StreamStaged

(* The slot of a bound stream, and no other stream's.                      *)
LEMMA OwnSlot ==
    ASSUME NEW m, NEW p, NEW D, NEW X, Core(m, p, D, X), NEW id \in StreamId, Bound(p[id]),
           NEW c, c = p[id].slot
    PROVE  /\ c \in ConnSlot /\ m.slots[c] \in ConnSlotState
           /\ m.slots[c].in_use /\ m.slots[c].stream_id = id
           /\ \A j \in StreamId \ {id} : Bound(p[j]) => p[j].slot # c
<1>1. \A j \in StreamId : Bound(p[j]) =>
          p[j].slot \in ConnSlot /\ m.slots[p[j].slot].in_use /\ m.slots[p[j].slot].stream_id = j
  BY Zenon DEF Core, StreamStaged, SlotBound
<1>2. c \in ConnSlot /\ m.slots[c].in_use /\ m.slots[c].stream_id = id
  BY <1>1, Zenon
<1>3. m.slots[c] \in ConnSlotState
  BY <1>2, ShellFields, Zenon DEF Core, StagedOK
<1> QED
  BY <1>1, <1>2, <1>3, Zenon

(* A reset that waits for the completion MsQuic owes.                      *)
LEMMA DeferredStaged ==
    ASSUME NEW m, NEW p, NEW D, Staged(m, p, D, {}), NEW id \in StreamId, Bound(p[id]),
           NEW c, c = p[id].slot, NEW n, n = WithSlot(m, c, Deferred(m.slots[c]))
    PROVE  Staged(n, p, D, {}) /\ n.adapter = m.adapter /\ n.sends = m.sends /\ n.queue = m.queue
<1>0. Core(m, p, D, {}) /\ m \in StagedShell
  BY Zenon DEF Staged, Core, StagedOK
<1>1. /\ c \in ConnSlot /\ m.slots[c] \in ConnSlotState
      /\ m.slots[c].in_use /\ m.slots[c].stream_id = id
      /\ \A j \in StreamId \ {id} : Bound(p[j]) => p[j].slot # c
  BY <1>0, OwnSlot
<1> DEFINE s == Deferred(m.slots[c])
<1>2. s \in ConnSlotState
  BY <1>1, NoLength, SlotStates, Zenon
<1>3. /\ s.in_use = m.slots[c].in_use /\ s.stream_id = m.slots[c].stream_id
      /\ s.received_fin = m.slots[c].received_fin
      /\ s.send_in_flight = m.slots[c].send_in_flight /\ s.response_len = m.slots[c].response_len
  BY <1>1, SlotFields, SendFlags, Zenon
<1> HIDE DEF s
<1>4. SlotOnly(m, n, c) /\ n.slots[c] = s
  BY <1>0, <1>1, <1>2, SlotSet DEF SlotOnly, s
<1>5. ASSUME NEW j \in StreamId PROVE StreamStaged(n, p[j], D, {}, j)
  <2>1. CASE j # id
    BY <1>0, <1>1, <1>4, <2>1, OthersStaged, Zenon
  <2>2. CASE j = id
    <3>1. StreamStaged(m, p[id], D, {}, id)
      BY <1>0, Zenon DEF Core
    <3>2. SlotBound(n, p[id], D, id) /\ (id \in D => HasSent(n, id))
      BY <1>1, <1>3, <1>4, <3>1, Zenon DEF StreamStaged, SlotBound, HasSent, Owed, SlotOnly
    <3>3. ReadyEnded(n, p[id], {}, id) /\ SentOnce(n, p[id], {}, id)
      BY <1>3, <1>4, <3>1, Zenon
         DEF StreamStaged, ReadyEnded, SentOnce, InFlightFor, HasSent, SlotOnly
    <3>4. OwedHeld(n, p[id], D, id) /\ AdapterRecord(n, id)
      BY <1>3, <1>4, <3>1, Zenon
      DEF StreamStaged, OwedHeld, AdapterRecord, InFlightFor, HasSent, Owed, SlotOnly
    <3> QED
      BY <2>2, <3>2, <3>3, <3>4, Zenon DEF StreamStaged
  <2> QED
    BY <2>1, <2>2, Zenon
<1>6. Owners(n, p)
  <2>1. \A d \in ConnSlot : /\ n.slots[d].in_use = m.slots[d].in_use
                            /\ n.slots[d].stream_id = m.slots[d].stream_id
    BY <1>3, <1>4, Zenon DEF SlotOnly
  <2> QED
    BY <1>0, <2>1, Zenon DEF Core, Owners
<1>7. n.adapter = m.adapter /\ n.sends = m.sends /\ n.queue = m.queue /\ n.table = m.table
      /\ n \in StagedShell
  BY <1>4, Zenon DEF SlotOnly
<1> QED
  BY <1>0, <1>5, <1>6, <1>7, Zenon
     DEF Staged, Core, StagedOK, QueueOK, SlotHeld, InFlightFor, ResetQueued

(* SEND_COMPLETE clears the slot's send state; the completion is owed no   *)
(* more.                                                                   *)
LEMMA ClearedStaged ==
    ASSUME NEW m, NEW p, NEW D, Staged(m, p, D, {}), NEW id \in StreamId, Bound(p[id]),
           HasSent(m, id), NEW c, c = p[id].slot, NEW n, n = SlotCleared(m, c)
    PROVE  /\ Staged(n, p, D \cup {id}, {})
           /\ n.adapter = m.adapter /\ n.sends = m.sends /\ n.queue = m.queue
<1> DEFINE E == D \cup {id}
<1>0. Core(m, p, D, {}) /\ m \in StagedShell
  BY Zenon DEF Staged, Core, StagedOK
<1>1. /\ c \in ConnSlot /\ m.slots[c] \in ConnSlotState
      /\ m.slots[c].in_use /\ m.slots[c].stream_id = id
      /\ \A j \in StreamId \ {id} : Bound(p[j]) => p[j].slot # c
  BY <1>0, OwnSlot
<1> DEFINE s == Cleared(m.slots[c])
<1>2. s \in ConnSlotState
  BY <1>1, NoLength, SlotStates, Zenon
<1>3. /\ s.in_use = m.slots[c].in_use /\ s.stream_id = m.slots[c].stream_id
      /\ s.received_fin = m.slots[c].received_fin /\ ~s.send_in_flight
  BY <1>1, SlotFields, SendFlags, Zenon
<1>4. SlotOnly(m, n, c) /\ n.slots[c] = s
  <2>1. n = WithSlot(m, c, s)
    BY Zenon DEF SlotCleared, WithSlot
  <2>2. c \in ConnSlot
    BY <1>1, Zenon
  <2> HIDE DEF s
  <2>3. /\ n \in StagedShell /\ n.table = m.table /\ n.adapter = m.adapter
        /\ n.sendbuf = m.sendbuf /\ n.queue = m.queue /\ n.sends = m.sends
        /\ n.slots[c] = s
        /\ \A d \in ConnSlot \ {c} : n.slots[d] = m.slots[d]
    BY <1>0, <1>2, <2>1, <2>2, SlotSet
  <2> QED
    BY <2>3, Zenon DEF SlotOnly
<1> HIDE DEF s
<1>5. ASSUME NEW j \in StreamId PROVE StreamStaged(n, p[j], E, {}, j)
  <2>1. CASE j # id
    <3>1. j \in E <=> j \in D
      BY <2>1, Zenon
    <3>2. Bound(p[j]) => p[j].slot # c
      BY <1>1, <2>1, Zenon
    <3> HIDE DEF E
    <3> QED
      BY <1>0, <1>4, <3>1, <3>2, OthersStaged, Zenon
  <2>2. CASE j = id
    <3>1. StreamStaged(m, p[id], D, {}, id)
      BY <1>0, Zenon DEF Core
    <3> QED
      BY <1>1, <1>3, <1>4, <2>2, <3>1, Zenon
      DEF StreamStaged, SlotBound, SentOnce, OwedHeld, AdapterRecord, ReadyEnded, InFlightFor,
          HasSent, Owed, SlotOnly
  <2> QED
    BY <2>1, <2>2, Zenon
<1>6. Owners(n, p)
  <2>1. \A d \in ConnSlot : /\ n.slots[d].in_use = m.slots[d].in_use
                            /\ n.slots[d].stream_id = m.slots[d].stream_id
    BY <1>3, <1>4, Zenon DEF SlotOnly
  <2> QED
    BY <1>0, <2>1, Zenon DEF Core, Owners
<1>7. n.adapter = m.adapter /\ n.sends = m.sends /\ n.queue = m.queue /\ n.table = m.table
      /\ n \in StagedShell
  BY <1>4, Zenon DEF SlotOnly
<1> QED
  BY <1>0, <1>5, <1>6, <1>7, Zenon
  DEF Staged, Core, StagedOK, QueueOK, EventOK, SlotHeld, InFlightFor, ResetQueued

(* MsQuic's record of the completion it reported.                          *)
MarkedDone(m, id) == [m EXCEPT !.sends[id].state = "done"]

LEMMA DoneFields ==
    ASSUME NEW m \in StagedShell, NEW id \in StreamId, NEW n, n = MarkedDone(m, id)
    PROVE  /\ n \in StagedShell /\ n.table = m.table /\ n.adapter = m.adapter
           /\ n.sendbuf = m.sendbuf /\ n.queue = m.queue /\ n.slots = m.slots
           /\ n.sends[id].state = "done" /\ n.sends[id].frame = m.sends[id].frame
           /\ \A j \in StreamId \ {id} : n.sends[j] = m.sends[j]
<1> DEFINE s == [m.sends[id] EXCEPT !.state = "done"]
           a == [m.sends EXCEPT ![id] = s]
<1>1. m.sends \in [StreamId -> Send] /\ m.sends[id] \in Send
  BY ShellFields, Zenon
<1>2. s \in Send /\ s.state = "done" /\ s.frame = m.sends[id].frame
  BY <1>1, Zenon DEF Send
<1>3. n = [m EXCEPT !.sends = a]
  BY Zenon DEF MarkedDone
<1> HIDE DEF s
<1>4. a \in [StreamId -> Send] /\ a[id] = s /\ \A j \in StreamId \ {id} : a[j] = m.sends[j]
  BY <1>1, <1>2, Zenon
<1> HIDE DEF a
<1>5. /\ n \in StagedShell /\ n.table = m.table /\ n.adapter = m.adapter
      /\ n.sendbuf = m.sendbuf /\ n.queue = m.queue /\ n.slots = m.slots /\ n.sends = a
  BY <1>3, <1>4, Zenon DEF StagedShell
<1> QED
  BY <1>2, <1>4, <1>5, Zenon

LEMMA DoneStaged ==
    ASSUME NEW m, NEW p, NEW D, Staged(m, p, D, {}), NEW id \in StreamId, id \in D,
           NEW n, n = MarkedDone(m, id)
    PROVE  Staged(n, p, D, {})
<1>1. /\ n \in StagedShell /\ n.table = m.table /\ n.adapter = m.adapter
      /\ n.sendbuf = m.sendbuf /\ n.queue = m.queue /\ n.slots = m.slots
      /\ n.sends[id].state = "done"
      /\ \A j \in StreamId : n.sends[j].frame = m.sends[j].frame
      /\ \A j \in StreamId \ {id} : n.sends[j] = m.sends[j]
  BY DoneFields DEF Staged, Core, StagedOK
<1>2. \A j \in StreamId : HasSent(n, j) <=> HasSent(m, j)
  BY <1>1, Zenon DEF HasSent, Staged, Core, StreamStaged
<1>3. ASSUME NEW j \in StreamId PROVE StreamStaged(n, p[j], D, {}, j)
  <2>1. StreamStaged(m, p[j], D, {}, j)
    BY Zenon DEF Staged, Core
  <2>2. (HasSent(n, j) <=> HasSent(m, j)) /\ n.sends[j].frame = m.sends[j].frame
    BY <1>1, <1>2, Zenon
  <2> HIDE DEF HasSent
  <2>3. SlotBound(n, p[j], D, j) /\ (j \in D => HasSent(n, j))
    BY <1>1, <2>1, <2>2, Zenon DEF StreamStaged, SlotBound, Owed
  <2>4. ReadyEnded(n, p[j], {}, j) /\ SentOnce(n, p[j], {}, j)
    BY <1>1, <2>1, <2>2, Zenon DEF StreamStaged, ReadyEnded, SentOnce, InFlightFor
  <2>5. AdapterRecord(n, j)
    BY <1>1, <2>1, <2>2, Zenon DEF StreamStaged, AdapterRecord, InFlightFor
  <2>6. OwedHeld(n, p[j], D, j)
    BY <1>1, <2>1, <2>2, Zenon DEF StreamStaged, OwedHeld, InFlightFor, Owed
  <2> QED
    BY <2>3, <2>4, <2>5, <2>6, Zenon DEF StreamStaged
<1> QED
  BY <1>1, <1>3, Zenon
  DEF Staged, Core, StagedOK, Owners, QueueOK, SlotHeld, InFlightFor, ResetQueued

(* A queued reset stays one of a stream that is over.                      *)
LEMMA QueueMoved ==
    ASSUME NEW m, NEW p, NEW q, NEW D, QueueOK(m, p, D),
           \A j \in StreamId : Over(p[j]) => Over(q[j])
    PROVE  QueueOK(m, q, D)
<1>1. \A e \in Queued : e.stream_id \in StreamId
  BY Zenon DEF Queued
<1> QED
  BY <1>1, Zenon DEF QueueOK, EventOK

(* SHUTDOWN_COMPLETE is a stream's last event.                             *)
LEMMA ShutStaged ==
    ASSUME NEW m, NEW p, NEW D, Staged(m, p, D, {}), p \in [StreamId -> PeerStream],
           NEW id \in StreamId, p[id].life = "live", ~Owed(m, D, id),
           NEW q, q = [p EXCEPT ![id] = WithLife(p[id], "shut")]
    PROVE  Staged(m, q, D, {})
<1> DEFINE o == WithLife(p[id], "shut")
<1>1. /\ o.life = "shut" /\ o.slot = p[id].slot /\ (o.eof <=> p[id].eof) /\ (o.fin <=> p[id].fin)
      /\ (o.stopped <=> p[id].stopped) /\ (o.reset <=> p[id].reset)
  BY LifeFields
<1>2. q[id] = o /\ \A j \in StreamId \ {id} : q[j] = p[j]
  OBVIOUS
<1> HIDE DEF o
<1>3. Bound(q[id]) /\ Bound(p[id]) /\ (Ended(q[id]) <=> Ended(p[id]))
  BY <1>1, <1>2, Zenon DEF Bound, Ended
<1>4. ASSUME NEW j \in StreamId PROVE StreamStaged(m, q[j], D, {}, j)
  <2>1. StreamStaged(m, p[j], D, {}, j)
    BY Zenon DEF Staged, Core
  <2>2. CASE j # id
    BY <1>2, <2>1, <2>2, Zenon
  <2>3. CASE j = id
    <3> HIDE DEF Ended, Bound
    <3> QED
      BY <1>1, <1>2, <1>3, <2>1, <2>3, Zenon
      DEF StreamStaged, SlotBound, SentOnce, OwedHeld, ReadyEnded
  <2> QED
    BY <2>2, <2>3, Zenon
<1>5. Owners(m, q)
  <2>1. \A c \in ConnSlot : m.slots[c].stream_id \in StreamId
    BY ShellFields, Zenon DEF Staged, Core, StagedOK, ConnSlotState
  <2>2. \A j \in StreamId : (Bound(p[j]) => Bound(q[j])) /\ q[j].slot = p[j].slot
    BY <1>1, <1>2, <1>3, Zenon
  <2> QED
    BY <2>1, <2>2, Zenon DEF Staged, Core, Owners
<1>6. \A j \in StreamId : Over(p[j]) => Over(q[j])
  BY <1>1, <1>2, Zenon DEF Over
<1>7. QueueOK(m, q, D)
  BY <1>6, QueueMoved, Zenon DEF Staged
<1>8. SlotHeld(m, q)
  BY <1>2, <1>3, Zenon DEF Staged, SlotHeld
<1> QED
  BY <1>4, <1>5, <1>7, <1>8, Zenon DEF Staged, Core

(* The slot is released once the reset was accepted.                       *)
LEMMA ReleasedStaged ==
    ASSUME NEW m, NEW p, NEW D, Staged(m, p, D, {}), p \in [StreamId -> PeerStream],
           NEW id \in StreamId, p[id].life = "shut", ~InFlightFor(m, id) \/ ResetQueued(m, id),
           NEW c, c = p[id].slot, NEW n, n = WithSlot(m, c, FreeSlot),
           NEW q, q = [p EXCEPT ![id] = WithLife(p[id], "closed")]
    PROVE  Staged(n, q, D, {}) /\ n.adapter = m.adapter /\ n.sends = m.sends /\ n.queue = m.queue
<1> DEFINE o == WithLife(p[id], "closed")
<1>0. Core(m, p, D, {}) /\ m \in StagedShell /\ Bound(p[id])
  BY Zenon DEF Staged, Core, StagedOK, Bound
<1>1. /\ o.life = "closed" /\ (o.eof <=> p[id].eof) /\ (o.fin <=> p[id].fin)
      /\ (o.stopped <=> p[id].stopped) /\ (o.reset <=> p[id].reset)
  BY LifeFields
<1>2. q[id] = o /\ \A j \in StreamId \ {id} : q[j] = p[j]
  OBVIOUS
<1> HIDE DEF o
<1>3. ~Bound(q[id]) /\ (Ended(q[id]) <=> Ended(p[id]))
  BY <1>1, <1>2, Zenon DEF Bound, Ended
<1>4. /\ c \in ConnSlot /\ m.slots[c].in_use /\ m.slots[c].stream_id = id
      /\ \A j \in StreamId \ {id} : Bound(p[j]) => p[j].slot # c
  BY <1>0, OwnSlot
<1>5. SlotOnly(m, n, c) /\ n.slots[c] = FreeSlot /\ ~n.slots[c].in_use
  BY <1>0, <1>4, FreeSlotType, SlotSet DEF SlotOnly
<1>6. ASSUME NEW j \in StreamId PROVE StreamStaged(n, q[j], D, {}, j)
  <2>1. CASE j # id
    BY <1>0, <1>2, <1>4, <1>5, <2>1, OthersStaged
  <2>2. CASE j = id
    <3>1. StreamStaged(m, p[id], D, {}, id) /\ ~Owed(m, D, id)
      BY <1>0, Zenon DEF Core, StreamStaged, OwedHeld
    <3>2. n.table = m.table /\ n.adapter = m.adapter /\ n.sends = m.sends
      BY <1>5, Zenon DEF SlotOnly
    <3> HIDE DEF Ended, Bound
    <3>3. ~Owed(n, D, id) /\ AdapterRecord(n, id) /\ (id \in D => HasSent(n, id))
      BY <3>1, <3>2, Zenon DEF StreamStaged, AdapterRecord, InFlightFor, HasSent, Owed
    <3>4. SentOnce(n, q[id], {}, id) /\ ReadyEnded(n, q[id], {}, id)
      BY <1>0, <1>3, <3>1, <3>2, Zenon
         DEF StreamStaged, SentOnce, ReadyEnded, InFlightFor, HasSent
    <3> QED
      BY <1>3, <2>2, <3>3, <3>4, Zenon DEF StreamStaged, SlotBound, OwedHeld
  <2> QED
    BY <2>1, <2>2, Zenon
<1>7. Owners(n, q)
  <2>1. ASSUME NEW d \in ConnSlot, n.slots[d].in_use
        PROVE  Bound(q[n.slots[d].stream_id]) /\ q[n.slots[d].stream_id].slot = d
    <3>1. d # c /\ n.slots[d] = m.slots[d]
      BY <1>5, <2>1, Zenon DEF SlotOnly
    <3>2. n.slots[d].stream_id \in StreamId
      BY <1>0, <3>1, ShellFields, Zenon DEF ConnSlotState
    <3>3. Bound(p[n.slots[d].stream_id]) /\ p[n.slots[d].stream_id].slot = d
      BY <1>0, <2>1, <3>1, Zenon DEF Core, Owners
    <3> QED
      BY <1>2, <3>1, <3>2, <3>3, Zenon
  <2> QED
    BY <2>1, Zenon DEF Owners
<1>8. n.adapter = m.adapter /\ n.sends = m.sends /\ n.queue = m.queue /\ n.table = m.table
      /\ n \in StagedShell
  BY <1>5, Zenon DEF SlotOnly
<1>9. QueueOK(n, q, D)
  <2>1. \A j \in StreamId : Over(p[j]) => Over(q[j])
    BY <1>1, <1>2, Zenon DEF Over
  <2>2. QueueOK(m, q, D)
    BY <2>1, QueueMoved, Zenon DEF Staged
  <2> QED
    BY <1>8, <2>2, Zenon DEF QueueOK
<1>10. SlotHeld(n, q)
  BY <1>2, <1>8, Zenon DEF Staged, SlotHeld, InFlightFor, ResetQueued
<1> QED
  BY <1>0, <1>6, <1>7, <1>8, <1>9, <1>10 DEF Staged, Core, StagedOK

(* A stream that has not started holds nothing and was sent nothing.       *)
LEMMA NotStarted ==
    ASSUME NEW m, NEW p, NEW D, Core(m, p, D, {}), NEW id \in StreamId, p[id] = Unstarted
    PROVE  /\ ~Bound(p[id]) /\ ~Ended(p[id]) /\ ~Over(p[id])
           /\ ~HasSent(m, id) /\ ~InFlightFor(m, id) /\ id \notin ReadyIds(m.table) /\ id \notin D
<1>1. ~Bound(p[id]) /\ ~Ended(p[id]) /\ ~Over(p[id])
  BY DEF Unstarted, Bound, Ended, Over
<1>2. StreamStaged(m, p[id], D, {}, id)
  BY Zenon DEF Core
<1> QED
  BY <1>1, <1>2, Zenon DEF StreamStaged, SentOnce, ReadyEnded, AdapterRecord

(* A stream that starts: q[id] is live in slot c, or closed at once.       *)
LEMMA BegunStaged ==
    ASSUME NEW m, NEW p, NEW D, Staged(m, p, D, {}), p \in [StreamId -> PeerStream],
           NEW id \in StreamId, p[id] = Unstarted, NEW c \in FreeSlots(m),
           NEW n, n = WithSlot(m, c, BoundSlotOf(id)),
           NEW wire \in Seq(Byte), NEW q, q = [p EXCEPT ![id] = Begun(c, wire)]
    PROVE  Staged(n, q, D, {}) /\ n.adapter = m.adapter /\ n.sends = m.sends /\ n.queue = m.queue
<1>0. Core(m, p, D, {}) /\ m \in StagedShell
  BY Zenon DEF Staged, Core, StagedOK
<1>c. c \in ConnSlot /\ ~m.slots[c].in_use
  BY Zenon DEF FreeSlots
<1>1. q[id].life = "live" /\ q[id].slot = c /\ \A j \in StreamId \ {id} : q[j] = p[j]
  BY <1>c, BegunFields
<1>2. /\ ~Bound(p[id]) /\ ~Over(p[id]) /\ ~HasSent(m, id) /\ ~InFlightFor(m, id)
      /\ id \notin ReadyIds(m.table) /\ id \notin D
  BY <1>0, NotStarted, Zenon
<1> DEFINE s == BoundSlotOf(id)
<1>3. s \in ConnSlotState /\ s.in_use /\ s.stream_id = id /\ ~s.received_fin /\ ~s.send_in_flight
  BY BoundSlotFields, Zenon
<1> HIDE DEF s
<1>4. SlotOnly(m, n, c) /\ n.slots[c] = s
  <2>1. n = WithSlot(m, c, s)
    BY Zenon DEF s
  <2> QED
    BY <1>0, <1>c, <1>3, <2>1, SlotSet DEF SlotOnly
<1>5. n.adapter = m.adapter /\ n.sends = m.sends /\ n.queue = m.queue /\ n.table = m.table
      /\ n \in StagedShell
  BY <1>4, Zenon DEF SlotOnly
<1>6. ASSUME NEW j \in StreamId PROVE StreamStaged(n, q[j], D, {}, j)
  <2>1. CASE j # id
    <3>1. Bound(p[j]) => p[j].slot # c
      BY <1>0, <1>c, Zenon DEF Core, StreamStaged, SlotBound
    <3> QED
      BY <1>0, <1>1, <1>4, <2>1, <3>1, OthersStaged, Zenon
  <2>2. CASE j = id
    <3>1. ~HasSent(n, id) /\ ~InFlightFor(n, id) /\ id \notin ReadyIds(n.table)
      BY <1>2, <1>5 DEF HasSent, InFlightFor
    <3> QED
      BY <1>c, <1>1, <1>2, <1>3, <1>4, <2>2, <3>1, Zenon
      DEF StreamStaged, SlotBound, SentOnce, OwedHeld, AdapterRecord, ReadyEnded, Owed
  <2> QED
    BY <2>1, <2>2, Zenon
<1>7. Owners(n, q)
  <2>1. ASSUME NEW d \in ConnSlot, n.slots[d].in_use
        PROVE  Bound(q[n.slots[d].stream_id]) /\ q[n.slots[d].stream_id].slot = d
    <3>1. CASE d = c
      BY <1>1, <1>3, <1>4, <3>1, Zenon DEF Bound
    <3>2. CASE d # c
      <4>1. n.slots[d] = m.slots[d]
        BY <1>4, <3>2, Zenon DEF SlotOnly
      <4>2. n.slots[d].stream_id \in StreamId
        BY <1>0, <4>1, ShellFields, Zenon DEF ConnSlotState
      <4>3. Bound(p[n.slots[d].stream_id]) /\ p[n.slots[d].stream_id].slot = d
        BY <1>0, <2>1, <4>1, Zenon DEF Core, Owners
      <4> QED
        BY <1>1, <1>2, <4>2, <4>3, Zenon
    <3> QED
      BY <3>1, <3>2, Zenon
  <2> QED
    BY <2>1, Zenon DEF Owners
<1>8. QueueOK(n, q, D)
  <2>1. \A j \in StreamId : Over(p[j]) => Over(q[j])
    BY <1>1, <1>2, Zenon
  <2>2. QueueOK(m, q, D)
    BY <2>1, QueueMoved, Zenon DEF Staged
  <2> QED
    BY <1>5, <2>2, Zenon DEF QueueOK
<1>9. SlotHeld(n, q)
  BY <1>1, <1>2, <1>5, Zenon DEF Staged, SlotHeld, InFlightFor, ResetQueued
<1> QED
  BY <1>0, <1>5, <1>6, <1>7, <1>8, <1>9, Zenon DEF Staged, Core, StagedOK

LEMMA DeclinedStaged ==
    ASSUME NEW m, NEW p, NEW D, Staged(m, p, D, {}), p \in [StreamId -> PeerStream],
           NEW id \in StreamId, p[id] = Unstarted,
           NEW q, q = [p EXCEPT ![id] = WithLife(p[id], "closed")]
    PROVE  Staged(m, q, D, {})
<1>0. Core(m, p, D, {}) /\ m \in StagedShell
  BY Zenon DEF Staged, Core, StagedOK
<1>1. q[id].life = "closed" /\ \A j \in StreamId \ {id} : q[j] = p[j]
  BY LifeFields
<1>2. /\ ~Bound(p[id]) /\ ~Over(p[id]) /\ ~HasSent(m, id) /\ ~InFlightFor(m, id)
      /\ id \notin ReadyIds(m.table) /\ id \notin D
  BY <1>0, NotStarted, Zenon
<1>3. ASSUME NEW j \in StreamId PROVE StreamStaged(m, q[j], D, {}, j)
  <2>1. CASE j # id
    BY <1>0, <1>1, <2>1, Zenon DEF Core
  <2>2. CASE j = id
    BY <1>1, <1>2, <2>2, Zenon
    DEF StreamStaged, SlotBound, SentOnce, OwedHeld, AdapterRecord, ReadyEnded, Owed, Bound
  <2> QED
    BY <2>1, <2>2, Zenon
<1>4. Owners(m, q)
  <2>1. \A d \in ConnSlot : m.slots[d].stream_id \in StreamId
    BY <1>0, ShellFields, Zenon DEF ConnSlotState
  <2> QED
    BY <1>0, <1>1, <1>2, <2>1, Zenon DEF Core, Owners
<1>5. QueueOK(m, q, D)
  <2>1. \A j \in StreamId : Over(p[j]) => Over(q[j])
    BY <1>1, <1>2, Zenon
  <2> QED
    BY <2>1, QueueMoved, Zenon DEF Staged
<1>6. SlotHeld(m, q)
  BY <1>1, <1>2, Zenon DEF Staged, SlotHeld
<1> QED
  BY <1>0, <1>3, <1>4, <1>5, <1>6, Zenon DEF Staged, Core

----------------------------------------------------------------------------
(* The actions.                                                            *)

(* What a step does to the responses and to the completion of the send in  *)
(* flight.                                                                 *)
ResponsesKept ==
    \A id \in StreamId :
        /\ sends[id].state = "pending" => sends'[id].frame = sends[id].frame
        /\ sends[id].state = "done" => sends'[id] = sends[id]

CompletionHeld ==
    /\ adapter.send_in_flight /\ adapter' = adapter
    /\ CompletionExpected
    /\ Len(queue) < QueueCapacity \/ sends' = sends
    => CompletionExpected'

LEMMA AfterStep ==
    ASSUME NEW n \in StagedShell, Becomes(n)
    PROVE  Shell' = n
<1>1. n = [table |-> n.table, adapter |-> n.adapter, sendbuf |-> n.sendbuf,
           queue |-> n.queue, slots |-> n.slots, sends |-> n.sends]
  BY Zenon DEF StagedShell
<1> QED
  BY <1>1, Zenon DEF Becomes, Shell

LEMMA ShellView ==
    /\ Shell.table = table /\ Shell.adapter = adapter /\ Shell.sendbuf = sendbuf
    /\ Shell.queue = queue /\ Shell.slots = slots /\ Shell.sends = sends
  BY Zenon DEF Shell

LEMMA InvView ==
    ASSUME StagedInv
    PROVE  /\ Staged(Shell, peer, Completed, {}) /\ Shell \in StagedShell
           /\ PeersOK(peer) /\ peer \in [StreamId -> PeerStream]
           /\ \A id \in StreamId : peer[id] \in PeerStream /\ peer[id].pos <= Len(peer[id].wire)
           /\ \A id \in StreamId : Owed(Shell, Completed, id) <=> sends[id].state = "pending"
           /\ \A id \in StreamId : sends[id] \in Send
<1>1. Staged(Shell, peer, Completed, {}) /\ Shell \in StagedShell /\ PeersOK(peer)
  BY Zenon DEF StagedInv, Staged, Core, StagedOK
<1>2. peer \in [StreamId -> PeerStream]
      /\ \A id \in StreamId : peer[id] \in PeerStream /\ peer[id].pos <= Len(peer[id].wire)
  BY <1>1, Zenon DEF PeersOK, PeerOK
<1>3. \A id \in StreamId : sends[id] \in Send /\ sends[id].state \in {"none", "pending", "done"}
  BY <1>1, ShellFields, ShellView, Zenon DEF Send
<1> QED
  BY <1>1, <1>2, <1>3, ShellView, Zenon DEF Owed, HasSent, Completed

(* Where the completion of the send in flight is expected from.            *)
CompletionOf(m) ==
    \/ m.adapter.send_stream_id \in StreamId /\ m.sends[m.adapter.send_stream_id].state = "pending"
    \/ MatchQueued(m)

LEMMA ExpectedNow ==
    ASSUME CompletionExpected PROVE CompletionOf(Shell)
  BY ShellView, Zenon
     DEF CompletionExpected, CompletionOf, Pending, MatchQueued, Matching, Events

LEMMA ExpectedNext ==
    ASSUME NEW n, Becomes(n), CompletionOf(n)
    PROVE  CompletionExpected'
  BY Zenon
     DEF Becomes, CompletionExpected, CompletionOf, Pending, MatchQueued, Matching, Events

(* StreamSend succeeds on live streams only.                               *)
LEMMA LiveSends ==
    ASSUME NEW up \in StreamSendOutcome
    PROVE  up \in SUBSET StreamId /\ \A id \in up : peer[id].life = "live" /\ ~peer[id].stopped
                                                    /\ conn = "open"
  BY Zenon DEF StreamSendOutcome, SendSide, Live

(* A step that completes nothing.                                          *)
LEMMA SendsStep ==
    ASSUME StagedInv, NEW n, Becomes(n), SendsKept(Shell, n)
    PROVE  Completed' = Completed /\ ResponsesKept
<1>1. sends' = n.sends
  BY Zenon DEF Becomes
<1>2. \A id \in StreamId : \/ sends'[id] = sends[id]
                           \/ sends[id].state = "none" /\ sends'[id].state = "pending"
  BY <1>1, ShellView, Zenon DEF SendsKept, HasSent
<1> QED
  BY <1>2, Zenon DEF Completed, ResponsesKept

(* The connection, after a step of one of its streams.                     *)
LEMMA ConnectedStep ==
    ASSUME Connected, NEW id \in StreamId, peer \in [StreamId -> PeerStream], conn # "closed",
           NEW q, peer' = [peer EXCEPT ![id] = q], q.life # "idle",
           connections' = connections, fault' \in BOOLEAN, conn' = conn \/ conn' = "shutting"
    PROVE  Connected'
<1>1. peer'[id] = q /\ \A j \in StreamId \ {id} : peer'[j] = peer[j]
  OBVIOUS
<1>2. conn' \in {"open", "shutting"} /\ connections # 0
  BY Zenon DEF Connected
<1>3. \A j \in StreamId : peer'[j].life = "idle" => peer'[j] = Unstarted
  BY <1>1, Zenon DEF Connected
<1> QED
  BY <1>2, <1>3, Zenon DEF Connected, Live

LEMMA StepDone ==
    ASSUME NEW n, Becomes(n), Staged(n, peer', Completed', {}), PeersOK(peer'), Connected'
    PROVE  StagedInv'
<1>1. Shell' = n
  BY AfterStep, Zenon DEF Staged, Core, StagedOK
<1> QED
  BY <1>1, Zenon DEF StagedInv, Staged

(* The completion, after a step that only enqueues and dispatches.         *)
LEMMA HeldBy ==
    ASSUME StagedInv, NEW n, Becomes(n), SendsKept(Shell, n),
           adapter.send_in_flight /\ n.adapter = adapter /\ MatchQueued(Shell) => MatchQueued(n)
    PROVE  CompletionHeld
<1> SUFFICES ASSUME adapter.send_in_flight, adapter' = adapter, CompletionExpected
             PROVE  CompletionExpected'
  BY Zenon DEF CompletionHeld
<1>1. CompletionOf(Shell) /\ n.adapter = adapter
  BY ExpectedNow, Zenon DEF Becomes
<1>2. CompletionOf(n)
  BY <1>1, ShellView, Zenon DEF CompletionOf, SendsKept, HasSent
<1> QED
  BY <1>2, ExpectedNext, Zenon

(* The same, after bytes or FIN.                                           *)
LEMMA HeldAside ==
    ASSUME StagedInv, NEW n, Becomes(n), SendsAside(Shell, n)
    PROVE  CompletionHeld /\ SendsKept(Shell, n)
<1>1. MatchQueued(Shell) /\ n.adapter = adapter => MatchQueued(n)
  BY ShellView, Zenon DEF SendsAside, MatchQueued, Matching
<1> QED
  BY <1>1, HeldBy, Zenon DEF SendsAside

(* What every action is shown to do.                                       *)
Progress == StagedInv' /\ ResponsesKept /\ CompletionHeld

LEMMA PeersStep ==
    ASSUME NEW p, PeersOK(p), NEW id \in StreamId, NEW q \in PeerStream, q.pos <= Len(q.wire),
           q.reset => ~Ended(q)
    PROVE  PeersOK([p EXCEPT ![id] = q])
<1> DEFINE P == [p EXCEPT ![id] = q]
<1>1. P \in [StreamId -> PeerStream] /\ P[id] = q /\ \A j \in StreamId \ {id} : P[j] = p[j]
  BY Zenon DEF PeersOK, PeerOK
<1> HIDE DEF P
<1> QED
  BY <1>1, Zenon DEF PeersOK, PeerOK

(* A callback of one stream.                                               *)
LEMMA StreamStep ==
    ASSUME StagedInv, NEW id \in StreamId, conn # "closed",
           NEW q \in PeerStream, q.pos <= Len(q.wire), q.reset => ~Ended(q), q.life # "idle",
           peer' = [peer EXCEPT ![id] = q],
           connections' = connections, fault' \in BOOLEAN, conn' = conn \/ conn' = "shutting",
           NEW n, Becomes(n), Staged(n, [peer EXCEPT ![id] = q], Completed, {}),
           SendsKept(Shell, n), CompletionHeld
    PROVE  Progress
<1> DEFINE P == [peer EXCEPT ![id] = q]
<1>1. PeersOK(peer) /\ peer \in [StreamId -> PeerStream] /\ Connected
  BY InvView, Zenon DEF StagedInv
<1>2. PeersOK(P)
  BY <1>1, PeersStep, Zenon
<1>3. Connected'
  BY <1>1, ConnectedStep, Zenon
<1>4. Completed' = Completed /\ ResponsesKept
  BY SendsStep, Zenon
<1> HIDE DEF P
<1>5. peer' = P /\ Staged(n, P, Completed, {})
  BY Zenon DEF P
<1> QED
  BY <1>2, <1>3, <1>4, <1>5, StepDone, Zenon DEF Progress

(* A step that leaves the peer's side alone.                               *)
LEMMA ShellStep ==
    ASSUME StagedInv, UNCHANGED <<peer, conn, connections, fault>>,
           NEW n, Becomes(n), Staged(n, peer, Completed', {}), ResponsesKept, CompletionHeld
    PROVE  Progress
<1>1. PeersOK(peer') /\ Connected'
  BY Zenon DEF StagedInv, Connected, Live
<1>2. Staged(n, peer', Completed', {})
  OBVIOUS
<1> QED
  BY <1>1, <1>2, StepDone, Zenon DEF Progress

LEMMA StartProgress ==
    ASSUME StagedInv, NEW id \in StreamId, PeerStreamStarted(id)
    PROVE  Progress
<1>1. conn = "open" /\ peer[id].life = "idle" /\ UNCHANGED <<conn, connections, fault>>
  BY Zenon DEF PeerStreamStarted
<1>2. /\ Staged(Shell, peer, Completed, {}) /\ peer[id] = Unstarted
      /\ peer \in [StreamId -> PeerStream] /\ fault \in BOOLEAN
  BY <1>1, InvView, Zenon DEF StagedInv, Connected
<1>3. PICK wire \in Wires[id], getParam \in BOOLEAN :
          IF getParam /\ FreeSlots(Shell) # {}
          THEN LET r == allocate_slot(Shell, id)
               IN  /\ Becomes(r.m)
                   /\ peer' = [peer EXCEPT ![id].life = "live", ![id].slot = r.slot,
                                           ![id].wire = wire]
          ELSE /\ peer' = [peer EXCEPT ![id].life = "closed"]
               /\ UNCHANGED shell
  BY Zenon DEF PeerStreamStarted
<1>4. wire \in Seq(Byte)
  BY ServerConstants, Zenon
<1>5. CASE getParam /\ FreeSlots(Shell) # {}
  <2> DEFINE r == allocate_slot(Shell, id)
             c == r.slot
             q == Begun(c, wire)
  <2>1. Becomes(r.m) /\ peer' = [peer EXCEPT ![id].life = "live", ![id].slot = r.slot,
                                             ![id].wire = wire]
    BY <1>3, <1>5, Zenon
  <2>2. c \in ConnSlot /\ ~Shell.slots[c].in_use /\ r.m = WithSlot(Shell, c, BoundSlotOf(id))
    BY <1>5, Allocates, Zenon DEF BoundSlotOf
  <2> HIDE DEF r
  <2>3. peer' = [peer EXCEPT ![id] = q]
    BY <1>2, <2>1, Zenon DEF Begun
  <2>4. q \in PeerStream /\ q.life = "live" /\ q.pos <= Len(q.wire)
    BY <1>4, <2>2, BegunFields
  <2>5. ~q.reset
    BY Zenon DEF Begun, Unstarted
  <2>6. /\ Staged(r.m, [peer EXCEPT ![id] = q], Completed, {})
        /\ r.m.adapter = Shell.adapter /\ r.m.sends = Shell.sends /\ r.m.queue = Shell.queue
    <3> DEFINE n == r.m
               P == [peer EXCEPT ![id] = q]
    <3>1. P = [peer EXCEPT ![id] = Begun(c, wire)] /\ n = WithSlot(Shell, c, BoundSlotOf(id))
      BY <2>2, Zenon
    <3> HIDE DEF n, P, c, q
    <3>2. /\ Staged(n, P, Completed, {})
          /\ n.adapter = Shell.adapter /\ n.sends = Shell.sends /\ n.queue = Shell.queue
      <4>1. /\ Staged(Shell, peer, Completed, {}) /\ peer[id] = Unstarted
            /\ peer \in [StreamId -> PeerStream]
        BY <1>2, Zenon
      <4>2. c \in FreeSlots(Shell)
        BY <2>2, Zenon DEF FreeSlots
      <4>3. \A k, o :
               k = WithSlot(Shell, c, BoundSlotOf(id)) /\ o = [peer EXCEPT ![id] = Begun(c, wire)]
                   => Staged(k, o, Completed, {})
        BY <1>4, <4>1, <4>2, BegunStaged, Zenon
      <4>4. n.adapter = Shell.adapter /\ n.sends = Shell.sends /\ n.queue = Shell.queue
        BY <2>2, <3>1, InvView, BoundSlotFields, SlotSet
      <4> QED
        BY <3>1, <4>3, <4>4, Zenon
    <3> QED
      BY <3>2, Zenon DEF n, P
  <2> HIDE DEF q, c
  <2>7. SendsAside(Shell, r.m)
    BY <2>6, Zenon DEF SendsAside, SendsKept
  <2>8. CompletionHeld /\ SendsKept(Shell, r.m)
    BY <2>1, <2>7, HeldAside, Zenon
  <2>9. q.life # "idle" /\ conn # "closed" /\ connections' = connections /\ fault' \in BOOLEAN
        /\ conn' = conn
    BY <1>1, <1>2, <2>4, Zenon
  <2> QED
    BY <2>1, <2>3, <2>4, <2>5, <2>6, <2>8, <2>9, StreamStep, Zenon
<1>6. CASE ~(getParam /\ FreeSlots(Shell) # {})
  <2> DEFINE q == WithLife(peer[id], "closed")
  <2>1. peer' = [peer EXCEPT ![id] = q] /\ UNCHANGED shell
    BY <1>3, <1>6, Zenon DEF WithLife
  <2>2. Becomes(Shell) /\ SendsAside(Shell, Shell)
    BY <2>1, AsideSelf, Zenon DEF shell, Shell, Becomes
  <2>3. peer[id] \in PeerStream /\ peer[id].pos <= Len(peer[id].wire) /\ ~peer[id].reset
    <3>1. Unstarted.reset = FALSE
      BY Zenon DEF Unstarted
    <3> QED
      BY <1>2, <3>1, InvView, Zenon
  <2>4. q \in PeerStream /\ q.life = "closed" /\ q.pos <= Len(q.wire) /\ ~q.reset
    BY <2>3, LifeFields
  <2>5. Staged(Shell, [peer EXCEPT ![id] = q], Completed, {})
    BY <1>2, DeclinedStaged, Zenon
  <2> HIDE DEF q
  <2>6. CompletionHeld /\ SendsKept(Shell, Shell)
    BY <2>2, HeldAside, Zenon
  <2>7. q.life # "idle" /\ conn # "closed" /\ connections' = connections /\ fault' \in BOOLEAN
        /\ conn' = conn
    BY <1>1, <1>2, <2>4, Zenon
  <2> QED
    BY <2>1, <2>2, <2>4, <2>5, <2>6, <2>7, StreamStep, Zenon
<1> QED
  BY <1>5, <1>6, Zenon

(* What the shell finds when a callback of a live stream arrives: q is the *)
(* stream after what the peer did.                                         *)
LEMMA Arrives ==
    ASSUME StagedInv, NEW id \in StreamId, Live(id),
           NEW q \in PeerStream, q.life = "live", q.slot = peer[id].slot,
           Ended(peer[id]) => Ended(q), peer[id].stopped => q.stopped, peer[id].reset => q.reset,
           NEW p, p = [peer EXCEPT ![id] = q], NEW up \in StreamSendOutcome
    PROVE  /\ Staged(Shell, p, Completed, {}) /\ p[id] = q /\ Bound(p[id])
           /\ up \in SUBSET StreamId /\ CanSend(Shell, p, up)
           /\ conn # "closed" /\ fault \in BOOLEAN
<1>1. /\ Staged(Shell, peer, Completed, {}) /\ peer \in [StreamId -> PeerStream]
      /\ conn # "closed" /\ fault \in BOOLEAN
  BY InvView, Zenon DEF StagedInv, Connected
<1>2. p[id] = q /\ \A j \in StreamId \ {id} : p[j] = peer[j]
  BY <1>1, Zenon
<1>3. Later(peer, p)
  BY <1>2, Zenon DEF Later, Live
<1>4. Staged(Shell, p, Completed, {})
  BY <1>1, <1>3, LaterStaged, Zenon
<1>5. up \in SUBSET StreamId /\ \A j \in up : peer[j].life = "live"
  BY LiveSends, Zenon
<1> QED
  BY <1>1, <1>2, <1>4, <1>5 DEF Bound, CanSend

(* Bytes and FIN close the connection when they break the framing.         *)
LEMMA DataProgress ==
    ASSUME StagedInv, NEW id \in StreamId, Live(id),
           NEW q \in PeerStream, q.pos <= Len(q.wire), q.reset => ~Ended(q), q.life = "live",
           peer' = [peer EXCEPT ![id] = q], NEW ok, protocol_error(ok),
           NEW n, Becomes(n), Staged(n, [peer EXCEPT ![id] = q], Completed, {}),
           SendsAside(Shell, n)
    PROVE  Progress
<1>1. conn # "closed" /\ fault \in BOOLEAN
  BY Zenon DEF StagedInv, Connected
<1>2. fault' \in BOOLEAN /\ connections' = connections /\ (conn' = conn \/ conn' = "shutting")
  BY <1>1, Zenon DEF protocol_error
<1>3. CompletionHeld /\ SendsKept(Shell, n)
  BY HeldAside, Zenon
<1>4. q.life # "idle"
  OBVIOUS
<1> QED
  BY <1>1, <1>2, <1>3, <1>4, StreamStep, Zenon

LEMMA FinProgress ==
    ASSUME StagedInv, NEW id \in StreamId, PeerSendShutdown(id)
    PROVE  Progress
<1> DEFINE o == peer[id]
           q == FinReceived(o)
           p == [peer EXCEPT ![id] = q]
<1>1. Live(id) /\ ~o.reset /\ o.life = "live" /\ peer' = p
  BY Zenon DEF PeerSendShutdown, Live, FinReceived
<1>2. PICK up \in StreamSendOutcome : PeerData(on_fin(Shell, o.slot, up))
  BY Zenon DEF PeerSendShutdown
<1>3. o \in PeerStream /\ o.pos <= Len(o.wire)
  BY InvView, Zenon
<1>4. /\ q \in PeerStream /\ q.life = "live" /\ q.slot = o.slot /\ q.wire = o.wire
      /\ q.pos = o.pos /\ q.fin /\ (q.stopped <=> o.stopped) /\ ~q.reset
  BY <1>1, <1>3, Zenon DEF FinReceived, PeerStream
<1> HIDE DEF q
<1>5. Ended(q)
  BY <1>4, Zenon DEF Ended
<1>6. /\ Staged(Shell, p, Completed, {}) /\ p[id] = q /\ Bound(p[id]) /\ CanSend(Shell, p, up)
  BY <1>1, <1>4, <1>5, Arrives, Zenon
<1> DEFINE r == on_fin(Shell, p[id].slot, up)
<1> HIDE DEF p
<1>7. Becomes(r.m) /\ protocol_error(r.ok)
  BY <1>2, <1>4, <1>6, Zenon DEF PeerData
<1>8. Staged(r.m, p, Completed, {}) /\ SendsAside(Shell, r.m)
  BY <1>5, <1>6, FinStaged, Zenon
<1> HIDE DEF r
<1>9. q.pos <= Len(q.wire)
  BY <1>3, <1>4, Zenon
<1> QED
  BY <1>1, <1>4, <1>7, <1>8, <1>9, DataProgress, Zenon DEF p

LEMMA ReceiveProgress ==
    ASSUME StagedInv, NEW id \in StreamId,
           NEW n \in 0 .. Len(peer[id].wire), NEW cut \in 0 .. Len(peer[id].wire),
           NEW flag \in BOOLEAN, Receive(id, n, cut, flag)
    PROVE  Progress
<1> DEFINE o == peer[id]
           q == Received(o, n, flag)
           p == [peer EXCEPT ![id] = q]
           d == SubSeq(o.wire, o.pos + 1, o.pos + n)
           first == SubSeq(d, 1, cut)
           second == SubSeq(d, cut + 1, n)
<1>1. /\ Live(id) /\ o.life = "live" /\ ~o.eof /\ ~o.fin /\ ~o.reset
      /\ n <= Len(o.wire) - o.pos /\ cut <= n
  BY Zenon DEF Receive, Live
<1>2. peer' = p
  BY Zenon DEF Receive, Received
<1>3. PICK up \in StreamSendOutcome :
          PeerData(on_msquic_receive(Shell, o.slot, first, second, flag, up))
  BY Zenon DEF Receive
<1>4. o \in PeerStream /\ o.pos <= Len(o.wire) /\ o.pos \in Nat /\ Len(o.wire) \in Nat
      /\ o.wire \in Seq(Byte)
  BY InvView DEF PeerStream
<1>5. n \in Nat /\ cut \in 0 .. n /\ o.pos + n \in Nat /\ o.pos + n <= Len(o.wire)
  BY <1>1, <1>4
<1>6. first \in Seq(Byte) /\ second \in Seq(Byte)
  <2>1. d \in Seq(Byte) /\ Len(d) = n
    BY <1>4, <1>5
  <2> HIDE DEF d
  <2> QED
    BY <1>5, <2>1
<1> HIDE DEF first, second
<1>7. /\ q \in PeerStream /\ q.life = "live" /\ q.slot = o.slot /\ q.wire = o.wire
      /\ q.pos = o.pos + n /\ (q.eof <=> flag) /\ (q.stopped <=> o.stopped) /\ ~q.reset
  BY <1>1, <1>4, <1>5, Zenon DEF Received, PeerStream
<1> HIDE DEF q
<1>8. ~Ended(o) /\ (flag => Ended(q))
  BY <1>1, <1>7, Zenon DEF Ended
<1>9. /\ Staged(Shell, p, Completed, {}) /\ p[id] = q /\ Bound(p[id])
      /\ up \in SUBSET StreamId /\ CanSend(Shell, p, up)
  <2>1. /\ Live(id) /\ q \in PeerStream /\ q.life = "live" /\ q.slot = peer[id].slot
        /\ (Ended(peer[id]) => Ended(q)) /\ (peer[id].stopped => q.stopped)
        /\ (peer[id].reset => q.reset)
    BY <1>1, <1>7, <1>8, Zenon
  <2>2. p = [peer EXCEPT ![id] = q]
    OBVIOUS
  <2> HIDE DEF p
  <2> QED
    BY <2>1, <2>2, Arrives, Zenon
<1>10. id \notin ReadyIds(Shell.table)
  BY <1>8, InvView, Zenon DEF Staged, Core, StreamStaged, ReadyEnded
<1> DEFINE r == on_msquic_receive(Shell, p[id].slot, first, second, flag, up)
<1> HIDE DEF p
<1>11. Becomes(r.m) /\ protocol_error(r.ok)
  BY <1>3, <1>7, <1>9, Zenon DEF PeerData
<1>12. Staged(r.m, p, Completed, {}) /\ SendsAside(Shell, r.m)
  BY <1>6, <1>8, <1>9, <1>10, ReceiveStaged, Zenon
<1> HIDE DEF r
<1>13. q.pos <= Len(q.wire)
  BY <1>5, <1>7, Zenon
<1> QED
  BY <1>1, <1>2, <1>7, <1>11, <1>12, <1>13, DataProgress, Zenon DEF p

LEMMA EventFields ==
    ASSUME NEW kind \in {"READY", "SEND_COMPLETE", "RESET"}, NEW id \in StreamId,
           NEW len \in 0 .. MaxMessage + 2, NEW dropped \in BOOLEAN,
           NEW e, e = Event(kind, id, <<>>, len, dropped)
    PROVE  e \in Queued /\ e.kind = kind /\ e.stream_id = id /\ e.len = len
  BY Zenon DEF Event, Queued

(* The runtime's reset callback: deferred while MsQuic owns the bytes,     *)
(* enqueued otherwise.                                                     *)
LEMMA ResetStaged ==
    ASSUME NEW m, NEW p, NEW D, Staged(m, p, D, {}), PeersOK(p), NEW id \in StreamId,
           Bound(p[id]), Over(p[id]), NEW c, c = p[id].slot,
           NEW up, CanSend(m, p, up), NEW r, r = on_stream_reset(m, c, up)
    PROVE  /\ Staged(r.m, p, D, {}) /\ SendsKept(m, r.m)
           /\ m.adapter.send_in_flight /\ r.m.adapter = m.adapter /\ MatchQueued(m)
                 => MatchQueued(r.m)
           /\ ~m.slots[c].send_in_flight /\ r.ok =>
                 ~InFlightFor(r.m, id) \/ ResetQueued(r.m, id)
<1>1. m.slots[c].stream_id = id
  BY OwnSlot DEF Staged
<1>2. CASE m.slots[c].send_in_flight
  <2>1. r.m = [m EXCEPT !.slots[c].reset_pending = TRUE]
    BY <1>2, Zenon DEF on_stream_reset
  <2>2. r.m = WithSlot(m, c, Deferred(m.slots[c]))
    BY <2>1, Zenon DEF Deferred, WithSlot
  <2>3. /\ Staged(r.m, p, D, {}) /\ r.m.adapter = m.adapter
        /\ r.m.sends = m.sends /\ r.m.queue = m.queue
    BY <2>2, DeferredStaged
  <2> QED
    BY <1>2, <2>3, Zenon DEF SendsKept, MatchQueued, Matching
<1>3. CASE ~m.slots[c].send_in_flight
  <2> DEFINE e == Event("RESET", id, <<>>, 0, TRUE)
  <2>1. r = EnqueueAndDispatch(m, e, up)
    BY <1>1, <1>3, Zenon DEF on_stream_reset
  <2>2. e \in Queued /\ e.kind = "RESET" /\ e.stream_id = id
    BY NoLength, Zenon DEF Event, Queued
  <2> HIDE DEF e
  <2>3. EventOK(p, D, e)
    BY <2>2, Zenon DEF EventOK
  <2>4. /\ Staged(r.m, p, D, {}) /\ SendsKept(m, r.m)
        /\ r.ok /\ e.kind = "RESET" =>
              ~InFlightFor(r.m, e.stream_id) \/ ResetQueued(r.m, e.stream_id)
        /\ m.adapter.send_in_flight /\ r.m.adapter = m.adapter /\ MatchQueued(m)
              => MatchQueued(r.m)
    BY <2>1, <2>3, EnqueueStaged, Zenon
  <2> QED
    BY <2>2, <2>4, Zenon
<1> QED
  BY <1>2, <1>3, Zenon

(* PEER_SEND_ABORTED and PEER_RECEIVE_ABORTED.                             *)
LEMMA AbortProgress ==
    ASSUME StagedInv, NEW id \in StreamId, Live(id), Aborted(id),
           UNCHANGED <<conn, connections, fault>>,
           NEW q \in PeerStream, peer' = [peer EXCEPT ![id] = q],
           q.life = "live", q.slot = peer[id].slot, q.pos <= Len(q.wire), q.reset => ~Ended(q),
           Ended(peer[id]) => Ended(q), peer[id].stopped => q.stopped, peer[id].reset => q.reset,
           q.reset \/ q.stopped
    PROVE  Progress
<1> DEFINE p == [peer EXCEPT ![id] = q]
<1>1. PICK up \in StreamSendOutcome : Becomes(on_stream_reset(Shell, peer[id].slot, up).m)
  BY Zenon DEF Aborted
<1>2. PeersOK(peer)
  BY InvView, Zenon
<1>3. PeersOK(p)
  BY <1>2, PeersStep, Zenon
<1>4. p = [peer EXCEPT ![id] = q]
  OBVIOUS
<1> HIDE DEF p
<1>5. /\ Staged(Shell, p, Completed, {}) /\ p[id] = q /\ Bound(p[id]) /\ CanSend(Shell, p, up)
      /\ conn # "closed" /\ fault \in BOOLEAN
  BY <1>4, Arrives, Zenon
<1>6. Over(p[id]) /\ p[id].slot = peer[id].slot
  BY <1>5, Zenon DEF Over
<1> DEFINE r == on_stream_reset(Shell, p[id].slot, up)
           n == r.m
<1>7. Becomes(n)
  BY <1>1, <1>6, Zenon
<1>8. /\ Staged(n, p, Completed, {}) /\ SendsKept(Shell, n)
      /\ Shell.adapter.send_in_flight /\ n.adapter = Shell.adapter /\ MatchQueued(Shell)
            => MatchQueued(n)
  BY <1>3, <1>5, <1>6, ResetStaged, Zenon
<1> HIDE DEF n
<1>9. CompletionHeld
  BY <1>7, <1>8, ShellView, HeldBy, Zenon
<1>10. q.life # "idle" /\ fault' \in BOOLEAN /\ conn' = conn /\ connections' = connections
  BY <1>5, Zenon
<1>11. Staged(n, [peer EXCEPT ![id] = q], Completed, {})
  BY <1>4, <1>8, Zenon
<1> QED
  BY <1>5, <1>7, <1>8, <1>9, <1>10, <1>11, StreamStep, Zenon

LEMMA SendAbortProgress ==
    ASSUME StagedInv, NEW id \in StreamId, PeerSendAborted(id)
    PROVE  Progress
<1> DEFINE o == peer[id]
           q == ResetBy(o)
<1>1. /\ Live(id) /\ Aborted(id) /\ UNCHANGED <<conn, connections, fault>>
      /\ o.life = "live" /\ ~o.eof /\ ~o.fin
  BY Zenon DEF PeerSendAborted, Live
<1>2. peer' = [peer EXCEPT ![id] = q]
  BY Zenon DEF PeerSendAborted, ResetBy
<1>3. o \in PeerStream /\ o.pos <= Len(o.wire)
  BY InvView, Zenon
<1>4. /\ q \in PeerStream /\ q.life = "live" /\ q.slot = o.slot /\ q.wire = o.wire
      /\ q.pos = o.pos /\ (q.stopped <=> o.stopped) /\ q.reset
      /\ (q.eof <=> o.eof) /\ (q.fin <=> o.fin)
  BY <1>1, <1>3, Zenon DEF ResetBy, PeerStream
<1> HIDE DEF q
<1>5. /\ q.pos <= Len(q.wire) /\ ~Ended(q) /\ ~Ended(o)
  BY <1>1, <1>3, <1>4, Zenon DEF Ended
<1> QED
  BY <1>1, <1>2, <1>4, <1>5, AbortProgress, Zenon

LEMMA ReceiveAbortProgress ==
    ASSUME StagedInv, NEW id \in StreamId, PeerReceiveAborted(id)
    PROVE  Progress
<1> DEFINE o == peer[id]
           q == StoppedBy(o)
<1>1. /\ Live(id) /\ Aborted(id) /\ UNCHANGED <<conn, connections, fault>> /\ o.life = "live"
  BY Zenon DEF PeerReceiveAborted, Live
<1>2. peer' = [peer EXCEPT ![id] = q]
  BY Zenon DEF PeerReceiveAborted, StoppedBy
<1>3. o \in PeerStream /\ o.pos <= Len(o.wire) /\ (o.reset => ~Ended(o))
  BY InvView, Zenon DEF PeersOK
<1>4. /\ q \in PeerStream /\ q.life = "live" /\ q.slot = o.slot /\ q.wire = o.wire
      /\ q.pos = o.pos /\ q.stopped /\ (q.reset <=> o.reset)
      /\ (q.eof <=> o.eof) /\ (q.fin <=> o.fin)
  BY <1>1, <1>3, Zenon DEF StoppedBy, PeerStream
<1> HIDE DEF q
<1>5. q.pos <= Len(q.wire) /\ (Ended(q) <=> Ended(o)) /\ (q.reset => ~Ended(q))
  BY <1>3, <1>4, Zenon DEF Ended
<1> QED
  BY <1>1, <1>2, <1>4, <1>5, AbortProgress, Zenon

(* SEND_COMPLETE: the slot's send state is cleared, the completion is      *)
(* staged for the adapter, and MsQuic owes it no more.                     *)
LEMMA CompleteStaged ==
    ASSUME NEW m, NEW p, NEW D, Staged(m, p, D, {}), PeersOK(p), NEW id \in StreamId,
           Owed(m, D, id), NEW c, c = p[id].slot, NEW canceled \in BOOLEAN,
           NEW up, CanSend(m, p, up), NEW r, r = on_send_complete(m, c, canceled, up)
    PROVE  /\ Staged(r.m, p, D \cup {id}, {}) /\ SendsKept(m, r.m)
           /\ /\ m.adapter.send_in_flight /\ r.m.adapter = m.adapter
              /\ MatchQueued(m) \/ (InFlightFor(m, id) /\ Len(m.queue) < QueueCapacity)
              => MatchQueued(r.m)
<1> DEFINE E == D \cup {id}
           k == SlotCleared(m, c)
<1>0. m \in StagedShell
  BY Zenon DEF Staged, Core, StagedOK
<1>1. /\ p[id].life = "live" /\ Bound(p[id]) /\ HasSent(m, id)
      /\ m.slots[c].send_in_flight /\ m.slots[c].response_len = m.sends[id].frame.len
      /\ InFlightFor(m, id) => m.adapter.send_len = m.sends[id].frame.len
  BY Zenon DEF Staged, Core, StreamStaged, OwedHeld, AdapterRecord, Owed, Bound
<1>2. m.slots[c].stream_id = id /\ m.slots[c] \in ConnSlotState
  BY <1>1, OwnSlot DEF Staged
<1>3. /\ Staged(k, p, E, {}) /\ k.adapter = m.adapter /\ k.sends = m.sends /\ k.queue = m.queue
  BY <1>1, ClearedStaged
<1>4. id \in E
  OBVIOUS
<1> HIDE DEF E
<1>5. CASE ~m.adapter.send_in_flight
  <2>1. r.m = k
    BY <1>1, <1>5, Zenon DEF on_send_complete, SlotCleared
  <2> HIDE DEF k
  <2> QED
    BY <1>3, <1>5, <2>1, Zenon DEF SendsKept, E
<1>6. CASE m.adapter.send_in_flight
  <2> DEFINE b == canceled \/ m.slots[c].reset_pending
             len == m.slots[c].response_len
             e == Event("SEND_COMPLETE", id, <<>>, len, b)
  <2>1. r = EnqueueAndDispatch(k, e, up)
    BY <1>1, <1>2, <1>6, Zenon DEF on_send_complete, SlotCleared
  <2> HIDE DEF k
  <2>2. len \in 0 .. MaxMessage + 2 /\ b \in BOOLEAN
    BY <1>2, Zenon DEF ConnSlotState
  <2> HIDE DEF b
  <2>3. e \in Queued /\ e.kind = "SEND_COMPLETE" /\ e.stream_id = id /\ e.len = len
    BY <2>2, Zenon DEF Event, Queued
  <2> HIDE DEF e
  <2>4. EventOK(p, E, e)
    BY <1>4, <2>3, Zenon DEF EventOK
  <2>5. CanSend(k, p, up)
    BY <1>3, Zenon DEF CanSend, HasSent
  <2>6. /\ Staged(r.m, p, E, {}) /\ SendsKept(k, r.m)
        /\ /\ k.adapter.send_in_flight /\ r.m.adapter = k.adapter
           /\ MatchQueued(k) \/ (Matching(k, e) /\ Len(k.queue) < QueueCapacity)
           => MatchQueued(r.m)
    BY <1>3, <2>1, <2>4, <2>5, EnqueueStaged
  <2>7. MatchQueued(m) => MatchQueued(k)
    BY <1>3, Zenon DEF MatchQueued, Matching
  <2>8. InFlightFor(m, id) => Matching(k, e)
    BY <1>1, <1>3, <2>3, Zenon DEF Matching, InFlightFor
  <2>9. SendsKept(m, r.m)
    BY <1>3, <2>6, Zenon DEF SendsKept, HasSent
  <2> QED
    BY <1>3, <2>6, <2>7, <2>8, <2>9, Zenon DEF E
<1> QED
  BY <1>0, <1>2, <1>5, <1>6, Zenon DEF ConnSlotState

LEMMA CompleteProgress ==
    ASSUME StagedInv, NEW id \in StreamId, NEW canceled \in BOOLEAN, SendComplete(id, canceled)
    PROVE  Progress
<1> DEFINE D == Completed
           E == D \cup {id}
<1>1. /\ sends[id].state = "pending" /\ UNCHANGED <<peer, conn, connections, fault>>
      /\ Owed(Shell, D, id)
  BY InvView, Zenon DEF SendComplete
<1>2. PICK up \in StreamSendOutcome :
          Becomes(MarkedDone(on_send_complete(Shell, peer[id].slot, canceled, up).m, id))
  BY Zenon DEF SendComplete, MarkedDone
<1> DEFINE r == on_send_complete(Shell, peer[id].slot, canceled, up)
           k == r.m
           n == MarkedDone(k, id)
<1>3. CanSend(Shell, peer, up)
  BY LiveSends, Zenon DEF CanSend
<1>4. Staged(Shell, peer, D, {}) /\ PeersOK(peer) /\ \A j \in StreamId : sends[j] \in Send
  BY InvView, Zenon
<1> HIDE DEF D
<1>5. /\ Staged(k, peer, E, {}) /\ SendsKept(Shell, k)
      /\ /\ Shell.adapter.send_in_flight /\ k.adapter = Shell.adapter
         /\ MatchQueued(Shell) \/ (InFlightFor(Shell, id) /\ Len(Shell.queue) < QueueCapacity)
         => MatchQueued(k)
  BY <1>1, <1>3, <1>4, CompleteStaged, Zenon
<1>6. Becomes(n)
  BY <1>2, Zenon
<1> HIDE DEF k
<1>7. Staged(n, peer, E, {}) /\ k \in StagedShell
  BY <1>5, DoneStaged, Zenon DEF Staged, Core, StagedOK
<1>8. /\ n.adapter = k.adapter /\ n.queue = k.queue
      /\ n.sends[id].state = "done" /\ n.sends[id].frame = k.sends[id].frame
      /\ \A j \in StreamId \ {id} : n.sends[j] = k.sends[j]
  BY <1>7, DoneFields
<1> HIDE DEF n
<1>9. sends' = n.sends /\ adapter' = n.adapter
  BY <1>6, Zenon DEF Becomes
<1>10. \A j \in StreamId : \/ k.sends[j] = sends[j]
                           \/ sends[j].state = "none" /\ k.sends[j].state = "pending"
  BY <1>5, ShellView, Zenon DEF SendsKept, HasSent
<1>11. Completed' = E
  BY <1>8, <1>9, <1>10 DEF Completed, D
<1>12. ResponsesKept
  BY <1>1, <1>8, <1>9, <1>10, Zenon DEF ResponsesKept
<1>13. CompletionHeld
  <2> SUFFICES ASSUME adapter.send_in_flight, adapter' = adapter, CompletionExpected,
                      Len(queue) < QueueCapacity \/ sends' = sends
               PROVE  CompletionExpected'
    BY Zenon DEF CompletionHeld
  <2>1. sends' # sends
    BY <1>1, <1>8, <1>9, Zenon
  <2>2. CompletionOf(Shell)
    BY ExpectedNow, Zenon
  <2> DEFINE a == adapter.send_stream_id
  <2>3. CASE a # id /\ a \in StreamId /\ sends[a].state = "pending"
    BY <1>6, <1>8, <1>9, <1>10, <2>3, ExpectedNext DEF CompletionOf
  <2>4. CASE MatchQueued(Shell) \/ a = id
    <3>1. MatchQueued(k)
      BY <1>5, <1>8, <1>9, <2>1, <2>4, ShellView, Zenon DEF InFlightFor
    <3>2. MatchQueued(n)
      BY <1>8, <3>1, Zenon DEF MatchQueued, Matching
    <3> QED
      BY <1>6, <3>2, ExpectedNext, Zenon DEF CompletionOf
  <2> QED
    BY <2>2, <2>3, <2>4, ShellView, Zenon DEF CompletionOf
<1>14. Staged(n, peer, Completed', {})
  BY <1>7, <1>11, Zenon
<1> QED
  BY <1>1, <1>6, <1>12, <1>13, <1>14, ShellStep, Zenon

(* SHUTDOWN_COMPLETE: the reset is accepted and the slot released, or it   *)
(* is refused and the stream keeps its slot.                               *)
LEMMA ShutdownProgress ==
    ASSUME StagedInv, NEW id \in StreamId, StreamShutdownComplete(id)
    PROVE  Progress
<1> DEFINE o == peer[id]
           c == o.slot
           q1 == WithLife(o, "shut")
           q2 == WithLife(o, "closed")
           p == [peer EXCEPT ![id] = q1]
<1>1. PICK up \in StreamSendOutcome : ShutDown(on_stream_reset(Shell, c, up), id)
  BY Zenon DEF StreamShutdownComplete
<1>2. /\ o.life = "live" /\ Live(id) /\ sends[id].state # "pending"
      /\ UNCHANGED <<conn, connections, fault>>
      /\ conn = "open" /\ ~o.stopped => sends[id].state = "done"
  BY Zenon DEF StreamShutdownComplete, StreamOver, Live
<1>3. /\ Staged(Shell, peer, Completed, {}) /\ PeersOK(peer) /\ peer \in [StreamId -> PeerStream]
      /\ o \in PeerStream /\ o.pos <= Len(o.wire) /\ (o.reset => ~Ended(o))
      /\ ~Owed(Shell, Completed, id)
  BY <1>2, InvView, Zenon DEF PeersOK
<1>4. conn # "closed" /\ fault' \in BOOLEAN /\ conn' = conn /\ connections' = connections
  BY <1>2, Zenon DEF StagedInv, Connected
<1>5. \A q \in {q1, q2} :
          /\ q \in PeerStream /\ q.slot = c /\ q.pos <= Len(q.wire) /\ (q.reset => ~Ended(q))
          /\ q.life # "idle"
  <2>1. ASSUME NEW life \in {"shut", "closed"}, NEW q, q = WithLife(o, life)
        PROVE  /\ q \in PeerStream /\ q.slot = c /\ q.pos <= Len(q.wire) /\ (q.reset => ~Ended(q))
               /\ q.life # "idle"
    <3>1. /\ q \in PeerStream /\ q.life = life /\ q.slot = o.slot /\ q.wire = o.wire
          /\ q.pos = o.pos /\ (q.eof <=> o.eof) /\ (q.fin <=> o.fin) /\ (q.reset <=> o.reset)
      BY <1>3, <2>1, LifeFields
    <3> QED
      BY <1>3, <3>1, Zenon DEF Ended
  <2> QED
    BY <2>1, Zenon
<1>6. q1.life = "shut"
  BY <1>3, LifeFields, Zenon
<1>7. Staged(Shell, p, Completed, {})
  BY <1>2, <1>3, ShutStaged, Zenon
<1>8. p[id] = q1 /\ p \in [StreamId -> PeerStream] /\ \A j \in StreamId \ {id} : p[j] = peer[j]
  BY <1>3, <1>5, Zenon
<1>9. [peer EXCEPT ![id] = q2] = [p EXCEPT ![id] = WithLife(p[id], "closed")]
  <2>1. WithLife(q1, "closed") = q2
    BY <1>3, Zenon DEF WithLife, PeerStream
  <2> HIDE DEF q1, q2
  <2> QED
    BY <1>3, <1>8, <2>1, Zenon
<1>10. PeersOK(p)
  <2>1. q1 \in PeerStream /\ q1.pos <= Len(q1.wire) /\ (q1.reset => ~Ended(q1))
    BY <1>5, Zenon
  <2> QED
    BY <1>3, <2>1, PeersStep, Zenon
<1>11. peer' = [peer EXCEPT ![id] = IF on_stream_reset(Shell, c, up).ok THEN q2 ELSE q1]
  BY <1>1, Zenon DEF ShutDown, ReleasedIf, WithLife
<1> HIDE DEF q1, q2
<1>12. p = [peer EXCEPT ![id] = q1]
  OBVIOUS
<1> HIDE DEF p
<1>13. CanSend(Shell, p, up)
  BY <1>2, <1>8, LiveSends, ShellView, Zenon DEF CanSend, HasSent
<1>14. Over(p[id]) /\ Bound(p[id]) /\ p[id].slot = c /\ p[id].life = "shut"
  BY <1>5, <1>6, <1>8, Zenon DEF Over, Bound
<1>15. ~Shell.slots[c].send_in_flight
  BY <1>3, <1>7, <1>14, Zenon DEF Staged, Core, StreamStaged, SlotBound
<1> DEFINE r == on_stream_reset(Shell, c, up)
           k == r.m
<1>16. /\ Staged(k, p, Completed, {}) /\ SendsKept(Shell, k)
       /\ Shell.adapter.send_in_flight /\ k.adapter = Shell.adapter /\ MatchQueued(Shell)
             => MatchQueued(k)
       /\ r.ok => ~InFlightFor(k, id) \/ ResetQueued(k, id)
  BY <1>7, <1>10, <1>13, <1>14, <1>15, ResetStaged, Zenon
<1>17. /\ Becomes(IF r.ok THEN release_slot(k, c) ELSE k)
       /\ peer' = [peer EXCEPT ![id] = IF r.ok THEN q2 ELSE q1]
  BY <1>1, <1>11, Zenon DEF ShutDown, ReleasedIf
<1> HIDE DEF r, k, c
<1>18. CASE r.ok
  <2> DEFINE n == WithSlot(k, c, FreeSlot)
  <2>1. Becomes(n) /\ peer' = [peer EXCEPT ![id] = q2]
    BY <1>17, <1>18, Zenon DEF release_slot, WithSlot
  <2>2. /\ Staged(n, [peer EXCEPT ![id] = q2], Completed, {})
        /\ n.adapter = k.adapter /\ n.sends = k.sends /\ n.queue = k.queue
    <3> DEFINE P == [p EXCEPT ![id] = WithLife(p[id], "closed")]
    <3>1. P = [p EXCEPT ![id] = WithLife(p[id], "closed")] /\ P = [peer EXCEPT ![id] = q2]
      BY <1>9, Zenon
    <3>2. n = WithSlot(k, c, FreeSlot)
      OBVIOUS
    <3> HIDE DEF P, n
    <3>3. ~InFlightFor(k, id) \/ ResetQueued(k, id)
      BY <1>16, <1>18, Zenon
    <3>4. /\ Staged(n, P, Completed, {})
          /\ n.adapter = k.adapter /\ n.sends = k.sends /\ n.queue = k.queue
      <4>1. Staged(k, p, Completed, {}) /\ p \in [StreamId -> PeerStream] /\ p[id].life = "shut"
            /\ c = p[id].slot /\ P = [p EXCEPT ![id] = WithLife(p[id], "closed")]
        BY <1>8, <1>14, <1>16, <3>1, Zenon
      <4>2. Staged(n, P, Completed, {})
        BY <3>2, <3>3, <4>1, ReleasedStaged, Zenon
      <4>3. n.adapter = k.adapter /\ n.sends = k.sends /\ n.queue = k.queue
        <5>1. k \in StagedShell /\ c \in ConnSlot
          BY <1>14, <1>16, Zenon DEF Staged, Core, StagedOK, StreamStaged, SlotBound
        <5> QED
          BY <3>2, <5>1, FreeSlotType, SlotSet
      <4> QED
        BY <4>2, <4>3, Zenon
    <3> QED
      BY <3>1, <3>4, Zenon
  <2> HIDE DEF n
  <2>3. SendsKept(Shell, n)
    BY <1>16, <2>2, Zenon DEF SendsKept
  <2>4. adapter.send_in_flight /\ n.adapter = adapter /\ MatchQueued(Shell) => MatchQueued(n)
    BY <1>16, <2>2, ShellView, Zenon DEF MatchQueued, Matching
  <2>5. CompletionHeld
    BY <2>1, <2>3, <2>4, HeldBy, Zenon
  <2>6. q2 \in PeerStream /\ q2.pos <= Len(q2.wire) /\ (q2.reset => ~Ended(q2)) /\ q2.life # "idle"
    BY <1>5, Zenon
  <2> QED
    BY <1>4, <2>1, <2>2, <2>3, <2>5, <2>6, StreamStep, Zenon
<1>19. CASE ~r.ok
  <2>1. Becomes(k) /\ peer' = [peer EXCEPT ![id] = q1]
    BY <1>17, <1>19, Zenon
  <2>2. adapter.send_in_flight /\ k.adapter = adapter /\ MatchQueued(Shell) => MatchQueued(k)
    BY <1>16, ShellView, Zenon
  <2>3. CompletionHeld
    BY <1>16, <2>1, <2>2, HeldBy, Zenon
  <2>4. q1 \in PeerStream /\ q1.pos <= Len(q1.wire) /\ (q1.reset => ~Ended(q1)) /\ q1.life # "idle"
    BY <1>5, Zenon
  <2>5. Staged(k, [peer EXCEPT ![id] = q1], Completed, {})
    BY <1>12, <1>16, Zenon
  <2> QED
    BY <1>4, <1>16, <2>1, <2>3, <2>4, <2>5, StreamStep, Zenon
<1> QED
  BY <1>18, <1>19, Zenon

(* The scheduler's three steps.                                            *)
LEMMA ServeProgress ==
    ASSUME StagedInv, NEW id \in StreamId, ServeReady(id)
    PROVE  Progress
<1> DEFINE e == Event("READY", id, <<>>, 0, FALSE)
<1>1. UNCHANGED <<peer, conn, connections, fault>>
  BY Zenon DEF ServeReady
<1>2. PICK up \in StreamSendOutcome : Becomes(EnqueueAndDispatch(Shell, e, up).m)
  BY Zenon DEF ServeReady
<1>3. e \in Queued /\ e.kind = "READY"
  BY NoLength, Zenon DEF Event, Queued
<1> HIDE DEF e
<1>4. EventOK(peer, Completed, e)
  BY <1>3, Zenon DEF EventOK
<1>5. CanSend(Shell, peer, up)
  BY LiveSends, Zenon DEF CanSend
<1> DEFINE n == EnqueueAndDispatch(Shell, e, up).m
<1>6. /\ Staged(n, peer, Completed, {}) /\ SendsKept(Shell, n)
      /\ Shell.adapter.send_in_flight /\ n.adapter = Shell.adapter /\ MatchQueued(Shell)
            => MatchQueued(n)
  BY <1>4, <1>5, InvView, EnqueueStaged, Zenon
<1>7. Becomes(n)
  BY <1>2, Zenon
<1> HIDE DEF n
<1>8. CompletionHeld /\ Completed' = Completed /\ ResponsesKept
  BY <1>6, <1>7, ShellView, HeldBy, SendsStep, Zenon
<1>9. Staged(n, peer, Completed', {})
  BY <1>6, <1>8, Zenon
<1> QED
  BY <1>1, <1>7, <1>8, <1>9, ShellStep, Zenon

LEMMA StageProgress ==
    ASSUME StagedInv, NEW id \in StreamId, StageReady(id)
    PROVE  Progress
<1> DEFINE e == Event("READY", id, <<>>, 0, FALSE)
           n == enqueue(Shell, e).m
<1>1. UNCHANGED <<peer, conn, connections, fault>> /\ Becomes(n) /\ Len(queue) < StageLimit
  BY Zenon DEF StageReady
<1>2. e \in Queued /\ e.kind = "READY"
  BY NoLength, Zenon DEF Event, Queued
<1> HIDE DEF e
<1>3. EventOK(peer, Completed, e)
  BY <1>2, Zenon DEF EventOK
<1>4. /\ Staged(Shell, peer, Completed, {}) /\ queue \in Seq(Queued) /\ Len(queue) \in Nat
      /\ Shell.queue = queue
  BY InvView, ShellFields, ShellView
<1> DEFINE q == Append(queue, e)
<1>5. Len(queue) < QueueCapacity /\ QueueCapacity \in Nat
  BY <1>1, <1>4, ServerConstants, RuntimeConstants
<1>6. n = [Shell EXCEPT !.queue = q]
  BY <1>4, <1>5 DEF enqueue
<1>7. q \in Seq(Queued) /\ Len(q) = Len(queue) + 1 /\ Events(q) = Events(queue) \cup {e}
  BY <1>2, <1>4, AppendEvents
<1> HIDE DEF n, q
<1>8. /\ Core(n, peer, Completed, {}) /\ SendsKept(Shell, n) /\ n.queue = q
      /\ n.adapter = Shell.adapter
  BY <1>4, <1>6, <1>7, QueueOnlyCore DEF Staged
<1>9. QueueOK(n, peer, Completed)
  BY <1>3, <1>4, <1>5, <1>7, <1>8 DEF Staged, QueueOK
<1>10. SlotHeld(n, peer)
  BY <1>4, <1>7, <1>8, Zenon DEF Staged, SlotHeld, InFlightFor, ResetQueued
<1>11. MatchQueued(Shell) => MatchQueued(n)
  BY <1>4, <1>7, <1>8, Zenon DEF MatchQueued, Matching
<1>12. CompletionHeld /\ Completed' = Completed /\ ResponsesKept
  BY <1>1, <1>8, <1>11, HeldBy, SendsStep, Zenon
<1>13. Staged(n, peer, Completed', {})
  BY <1>8, <1>9, <1>10, <1>12, Zenon DEF Staged
<1> QED
  BY <1>1, <1>12, <1>13, ShellStep, Zenon

LEMMA DispatchProgress ==
    ASSUME StagedInv, DispatchStaged
    PROVE  Progress
<1>1. UNCHANGED <<peer, conn, connections, fault>>
  BY Zenon DEF DispatchStaged
<1>2. PICK up \in StreamSendOutcome, max \in 1 .. QueueCapacity :
          Becomes(dispatch_all(Shell, max, up))
  BY Zenon DEF DispatchStaged
<1>3. max \in Nat
  BY RuntimeConstants
<1>4. up \in SUBSET StreamId /\ CanSend(Shell, peer, up)
  BY LiveSends, Zenon DEF CanSend
<1> DEFINE n == dispatch_all(Shell, max, up)
<1>5. RunInv(Shell, n, peer, Completed, {})
  BY <1>3, <1>4, InvView, DispatchAllStaged, Zenon
<1>6. Becomes(n)
  BY <1>2, Zenon
<1> HIDE DEF n
<1>7. Staged(n, peer, Completed, {}) /\ SendsKept(Shell, n)
  BY <1>5, Zenon DEF RunInv
<1>8. Completed' = Completed /\ ResponsesKept
  BY <1>6, <1>7, SendsStep, Zenon
<1>9. CompletionHeld
  <2> SUFFICES ASSUME adapter.send_in_flight, adapter' = adapter, CompletionExpected
               PROVE  CompletionExpected'
    BY Zenon DEF CompletionHeld
  <2> DEFINE a == adapter.send_stream_id
  <2>1. CompletionOf(Shell) /\ n.adapter = adapter /\ Shell.adapter = adapter
    BY <1>6, ExpectedNow, ShellView, Zenon DEF Becomes
  <2>2. a \in StreamId /\ sends[a] \in Send
    BY InvView, ShellFields, <2>1, Zenon DEF Adapter
  <2>3. Owed(Shell, Completed, a) \/ MatchQueued(Shell)
    BY <2>1, <2>2, InvView, ShellView, Zenon DEF CompletionOf
  <2>4. CompletionKept(Shell, n, Completed)
    BY <1>5, <2>1, <2>3, Zenon DEF RunInv
  <2>5. CASE Owed(n, Completed, a)
    <3>1. n.sends[a].state = "pending"
      BY <1>7, <2>2, <2>5, ShellView, Zenon DEF Owed, HasSent, SendsKept, Completed, Send
    <3> QED
      BY <1>6, <2>1, <2>2, <3>1, ExpectedNext, Zenon DEF CompletionOf
  <2>6. CASE MatchQueued(n)
    BY <1>6, <2>6, ExpectedNext, Zenon DEF CompletionOf
  <2> QED
    BY <2>1, <2>4, <2>5, <2>6, Zenon DEF CompletionKept, InFlightFor
<1>10. Staged(n, peer, Completed', {})
  BY <1>7, <1>8, Zenon
<1> QED
  BY <1>1, <1>6, <1>8, <1>9, <1>10, ShellStep, Zenon

----------------------------------------------------------------------------
(* The connection's events.                                                *)

(* Before the connection nothing has started, so nothing was sent.         *)
LEMMA AcceptProgress ==
    ASSUME OneConnection, StagedInv, AcceptConnection
    PROVE  Progress
<1>1. /\ connections' = connections + 1 /\ conn = "closed"
      /\ table' = table /\ adapter' = adapter /\ sendbuf' = sendbuf
      /\ queue' = queue /\ slots' = slots
      /\ \/ conn' = "open" /\ peer' = [j \in StreamId |-> Unstarted] /\ sends' = Unsent /\ fault' = FALSE
         \/ UNCHANGED <<conn, peer, sends, fault>>
  BY Zenon DEF AcceptConnection
<1>2. connections \in Nat /\ connections < MaxConnections /\ MaxConnections <= 1 /\ MaxConnections \in Nat
  BY ServerConstants DEF AcceptConnection, OneConnection, StagedInv, Connected
<1>3. connections = 0 /\ connections' = 1 /\ 1 \in 0 .. MaxConnections
  BY <1>1, <1>2
<1>4. peer \in [StreamId -> PeerStream] /\ \A id \in StreamId : peer[id] = Unstarted
  BY <1>3, InvView, Zenon DEF StagedInv, Connected
<1>5. peer' = peer
  BY <1>1, <1>4, Zenon
<1>6. /\ Staged(Shell, peer, Completed, {}) /\ Shell \in StagedShell /\ PeersOK(peer)
      /\ Core(Shell, peer, Completed, {})
  BY InvView, Zenon DEF Staged
<1>7. \A id \in StreamId :
          ~HasSent(Shell, id) /\ ~InFlightFor(Shell, id) /\ id \notin ReadyIds(Shell.table)
             /\ id \notin Completed
  BY <1>4, <1>6, NotStarted, Zenon
<1>8. sends' \in [StreamId -> Send] /\ \A id \in StreamId : sends'[id].state = "none"
  <2>1. sends \in [StreamId -> Send] /\ \A id \in StreamId : sends[id].state = "none"
    BY <1>6, <1>7, ShellFields, ShellView, Zenon DEF HasSent
  <2> QED
    BY <1>1, <2>1, UnsentType, Zenon
<1>9. Completed = {} /\ Completed' = {}
  <2>1. Completed = {}
    BY <1>7, Zenon DEF Completed
  <2>2. Completed' = {}
    BY <1>8, Zenon DEF Completed
  <2> QED
    BY <2>1, <2>2, Zenon
<1> DEFINE n == [table |-> table, adapter |-> adapter, sendbuf |-> sendbuf,
                 queue |-> queue, slots |-> slots, sends |-> sends']
<1>10. Becomes(n)
  BY <1>1, Zenon DEF Becomes
<1>11. n \in StagedShell
  BY <1>6, <1>8, Zenon DEF StagedShell, Shell
<1>12. /\ n.table = Shell.table /\ n.adapter = Shell.adapter /\ n.queue = Shell.queue
       /\ n.slots = Shell.slots /\ n.sends = sends'
  BY ShellView, Zenon
<1> HIDE DEF n
<1>13. ASSUME NEW id \in StreamId PROVE StreamStaged(n, peer[id], {}, {}, id)
  <2>1. ~HasSent(n, id) /\ ~InFlightFor(n, id) /\ id \notin ReadyIds(n.table) /\ ~Bound(peer[id])
    <3>1. ~Bound(Unstarted)
      BY Zenon DEF Bound, Unstarted
    <3> QED
      BY <1>4, <1>7, <1>8, <1>12, <3>1, Zenon DEF HasSent, InFlightFor
  <2> QED
    BY <2>1, Zenon
       DEF StreamStaged, SlotBound, SentOnce, OwedHeld, AdapterRecord, ReadyEnded, Owed
<1>14. Owners(n, peer) /\ Good(n.table)
  BY <1>6, <1>12, Zenon DEF Core, Owners, StagedOK
<1>15. QueueOK(n, peer, {}) /\ SlotHeld(n, peer)
  BY <1>6, <1>9, <1>12, Zenon DEF Staged, QueueOK, SlotHeld, InFlightFor, ResetQueued
<1>16. Staged(n, peer', Completed', {})
  BY <1>5, <1>9, <1>11, <1>13, <1>14, <1>15, Zenon DEF Staged, Core, StagedOK
<1>17. Connected'
  <2>1. conn' \in {"open", "shutting", "closed"} /\ fault' \in BOOLEAN
    BY <1>1, Zenon DEF StagedInv, Connected
  <2>2. \A id \in StreamId : peer'[id] = Unstarted /\ peer'[id].life = "idle"
    BY <1>4, <1>5, UnstartedFields, Zenon
  <2> QED
    BY <1>3, <2>1, <2>2 DEF Connected, Live
<1>18. ResponsesKept
  BY <1>7, ShellView, Zenon DEF ResponsesKept, HasSent
<1>19. CompletionHeld
  <2>1. ~adapter.send_in_flight
    BY <1>6, <1>7, ShellFields, ShellView, Zenon DEF InFlightFor, Adapter
  <2> QED
    BY <2>1, Zenon DEF CompletionHeld
<1>20. PeersOK(peer')
  BY <1>5, <1>6, Zenon
<1> QED
  BY <1>10, <1>16, <1>17, <1>18, <1>19, <1>20, StepDone DEF Progress

(* A step that leaves the shell and the streams alone.                     *)
LEMMA IdleProgress ==
    ASSUME StagedInv, UNCHANGED <<shell, peer>>, Connected'
    PROVE  Progress
<1>1. Becomes(Shell)
  BY Zenon DEF shell, Becomes, Shell
<1>2. Completed' = Completed /\ peer' = peer
  BY Zenon DEF Completed, shell
<1>3. StagedInv'
  BY <1>1, <1>2, InvView, StepDone, Zenon
<1>4. ResponsesKept
  BY Zenon DEF ResponsesKept, shell
<1>5. CompletionHeld
  BY <1>1, AsideSelf, HeldAside, Zenon
<1> QED
  BY <1>3, <1>4, <1>5, Zenon DEF Progress

LEMMA ConnectionProgress ==
    ASSUME StagedInv,
           ConnectionShutdownInitiated \/ ConnectionShutdownComplete \/ UNCHANGED vars
    PROVE  Progress
<1>1. UNCHANGED <<shell, peer>>
  BY Zenon DEF ConnectionShutdownInitiated, ConnectionShutdownComplete, vars, shell
<1>2. Connected'
  <2>1. Connected
    BY Zenon DEF StagedInv
  <2>2. CASE ConnectionShutdownInitiated
    BY <2>1, <2>2, Zenon DEF ConnectionShutdownInitiated, Connected, Live
  <2>3. CASE ConnectionShutdownComplete
    BY <2>1, <2>3, Zenon DEF ConnectionShutdownComplete, Connected, Live
  <2>4. CASE UNCHANGED vars
    BY <2>1, <2>4, Zenon DEF vars, Connected, Live
  <2> QED
    BY <2>2, <2>3, <2>4, Zenon
<1> QED
  BY <1>1, <1>2, IdleProgress, Zenon

LEMMA NextProgress ==
    ASSUME OneConnection, StagedInv, [Next]_vars
    PROVE  Progress
<1>1. ASSUME NEW id \in StreamId, StreamEvent(id) PROVE Progress
  <2>1. CASE \E n, cut \in 0 .. Len(peer[id].wire), flag \in BOOLEAN : Receive(id, n, cut, flag)
    BY <2>1, ReceiveProgress, Zenon
  <2>2. CASE \E canceled \in BOOLEAN : SendComplete(id, canceled)
    BY <2>2, CompleteProgress, Zenon
  <2> QED
    BY <1>1, <2>1, <2>2, FinProgress, SendAbortProgress, ReceiveAbortProgress,
       ShutdownProgress
    DEF StreamEvent
<1>2. ASSUME NEW id \in StreamId,
             PeerStreamStarted(id) \/ StreamEvent(id) \/ ServeReady(id) \/ StageReady(id)
      PROVE  Progress
  BY <1>1, <1>2, StartProgress, ServeProgress, StageProgress, Zenon
<1>3. CASE ConnectionClosed
  BY <1>3, ConnectionProgress, Zenon DEF ConnectionClosed
<1> QED
  BY <1>2, <1>3, AcceptProgress, ConnectionProgress, DispatchProgress, Zenon DEF Next

LEMMA StagedInit == Init => StagedInv
<1> SUFFICES ASSUME Init PROVE StagedInv
  OBVIOUS
<1>1. Good(table) /\ ActiveIds(table) = {}
  BY InitTable, Zenon
<1>2. /\ adapter = Idle /\ queue = <<>> /\ sends = Unsent
      /\ peer = [id \in StreamId |-> Unstarted] /\ conn = "closed" /\ connections = 0
      /\ fault = FALSE
  BY Zenon DEF Init
<1>3. Shell \in StagedShell
  <2>1. NoFrame \in Frames
    BY Zenon DEF Frames
  <2>2. /\ adapter \in Adapter /\ sendbuf \in Frames /\ queue \in Seq(Queued)
        /\ slots \in [ConnSlot -> ConnSlotState] /\ sends \in [StreamId -> Send]
    BY <2>1, IdleType, FreeSlotType, UnsentType DEF Init
  <2>3. table \in TableOf(ServerShape)
    BY <1>1, Zenon DEF Good, GoodTable
  <2> QED
    BY <2>2, <2>3, Zenon DEF StagedShell, Shell
<1>4. \A id \in StreamId : sends[id].state = "none"
  BY <1>2, UnsentType, Zenon
<1>5. Completed = {}
  BY <1>4, Zenon DEF Completed
<1>6. /\ peer \in [StreamId -> PeerStream]
      /\ \A id \in StreamId : peer[id] = Unstarted /\ peer[id].life = "idle"
                                 /\ peer[id].pos <= Len(peer[id].wire) /\ ~peer[id].reset
  <2>1. Unstarted.reset = FALSE
    BY Zenon DEF Unstarted
  <2> QED
    BY <1>2, <2>1, UnstartedFields, Zenon
<1>7. ASSUME NEW id \in StreamId PROVE StreamStaged(Shell, peer[id], {}, {}, id)
  <2>1. ~HasSent(Shell, id) /\ ~InFlightFor(Shell, id) /\ id \notin ReadyIds(Shell.table)
        /\ ~Bound(peer[id])
    BY <1>1, <1>2, <1>4, <1>6, ShellView, IdleType, Zenon
       DEF HasSent, InFlightFor, ReadyIds, Bound
  <2> QED
    BY <2>1, Zenon
       DEF StreamStaged, SlotBound, SentOnce, OwedHeld, AdapterRecord, ReadyEnded, Owed
<1>8. Owners(Shell, peer)
  BY FreeSlotType, ShellView, Zenon DEF Init, Owners
<1>9. Core(Shell, peer, Completed, {})
  BY <1>1, <1>3, <1>5, <1>7, <1>8, ShellView, Zenon DEF Core, StagedOK
<1>10. QueueOK(Shell, peer, Completed) /\ SlotHeld(Shell, peer)
  <2>1. Len(queue) = 0 /\ Events(queue) = {} /\ 0 <= QueueCapacity
    BY <1>2, RuntimeConstants DEF Events
  <2>2. ~Shell.adapter.send_in_flight
    BY <1>2, ShellView, IdleType, Zenon
  <2> QED
    BY <2>1, <2>2, ShellView, Zenon DEF QueueOK, SlotHeld, InFlightFor
<1>11. PeersOK(peer)
  BY <1>6, Zenon DEF PeersOK, PeerOK
<1>12. Connected
  <2>1. connections \in 0 .. MaxConnections
    BY <1>2, ServerConstants
  <2> QED
    BY <1>2, <1>6, <2>1, Zenon DEF Connected, Live
<1> QED
  BY <1>9, <1>10, <1>11, <1>12, Zenon DEF StagedInv

----------------------------------------------------------------------------
(* The theorems.                                                           *)

(* The inductive invariant of the server with staged events.               *)
THEOREM StagedInvariant ==
    ASSUME OneConnection
    PROVE  Spec => []StagedInv
<1>1. StagedInv /\ [Next]_vars => StagedInv'
  BY NextProgress, Zenon DEF Progress
<1> QED
  BY <1>1, StagedInit, PTL DEF Spec

LEMMA StagedTypes == StagedInv => TypeOK
<1> SUFFICES ASSUME StagedInv PROVE TypeOK
  OBVIOUS
<1>1. /\ table \in TableOf(ServerShape) /\ adapter \in Adapter /\ sendbuf \in Frames
      /\ slots \in [ConnSlot -> ConnSlotState] /\ sends \in [StreamId -> Send]
  BY InvView, ShellFields, ShellView, Zenon
<1>2. /\ table.active \in [Slot -> Slot] /\ table.num \in 0 .. Capacity
      /\ table.ctx \in [Slot -> Context] /\ table.used \in [Slot -> BOOLEAN]
  BY <1>1, ServerShapeOK, Zenon DEF TableOf
<1>3. Len(queue) <= QueueCapacity /\ Connected
  BY ShellView, Zenon DEF StagedInv, QueueOK
<1> QED
  BY <1>1, <1>2, <1>3, Zenon
  DEF TypeOK, Context, ContextWith, Adapter, ConnSlotState, Send, Connected

(* However many events the scheduler stages, every record of the shell     *)
(* keeps its type and the queue never outgrows its array                   *)
(* (doq_shell_event_queue_enqueue).                                        *)
THEOREM StagedTypeCorrect ==
    ASSUME OneConnection
    PROVE  Spec => []TypeOK
  BY StagedInvariant, StagedTypes, PTL

(* With staged events too the bytes MsQuic owns stay in the one send       *)
(* buffer until it completes the send, unless the peer stopped the stream: *)
(* no order of staged, delayed and refused events frames another response  *)
(* over them (prepare_ready_response, adapter_on_send_complete).           *)
THEOREM BytesHeld ==
    ASSUME OneConnection
    PROVE  Spec => []SendBufferHeld
<1>1. StagedInv => SendBufferHeld
  <2> SUFFICES ASSUME StagedInv, NEW id \in Pending
               PROVE  sendbuf = sends[id].frame \/ peer[id].stopped
    BY Zenon DEF SendBufferHeld
  <2>1. id \in StreamId /\ Owed(Shell, Completed, id)
    BY InvView, Zenon DEF Pending
  <2> QED
    BY <2>1, ShellView, Zenon DEF StagedInv, Core, StreamStaged, OwedHeld
<1> QED
  BY <1>1, StagedInvariant, PTL

(* The send slot is never taken on behalf of a stream nobody holds, even   *)
(* when a full queue refuses completions and resets: the stream still has  *)
(* its runtime slot, or its reset waits in the queue (on_stream_reset).    *)
THEOREM StagedSlotOwned ==
    ASSUME OneConnection
    PROVE  Spec => []SendSlotOwned
<1>1. StagedInv => SendSlotOwned
  <2> SUFFICES ASSUME StagedInv, adapter.send_in_flight
               PROVE  \/ SlotOf(Shell, adapter.send_stream_id) # {}
                      \/ \E i \in 1 .. Len(queue) : queue[i].kind = "RESET"
                                                     /\ queue[i].stream_id = adapter.send_stream_id
    BY Zenon DEF SendSlotOwned
  <2> DEFINE a == adapter.send_stream_id
  <2>1. a \in StreamId /\ InFlightFor(Shell, a)
    BY InvView, ShellFields, ShellView, Zenon DEF InFlightFor, Adapter
  <2>2. CASE Bound(peer[a])
    BY <2>1, <2>2, Zenon DEF StagedInv, Core, StreamStaged, SlotBound, SlotOf
  <2>3. CASE ResetQueued(Shell, a)
    BY <2>3, ShellView, Zenon DEF ResetQueued, ResetOf, Events
  <2> QED
    BY <2>1, <2>2, <2>3, Zenon DEF StagedInv, SlotHeld
<1> QED
  BY <1>1, StagedInvariant, PTL

(* A completion may wait behind staged events but is never lost: while the *)
(* send slot stays taken, MsQuic owes the completion or it is queued with  *)
(* the right stream and length, unless MsQuic reports it to a full queue   *)
(* (on_send_complete, dispatch_all).                                       *)
THEOREM CompletionIsKept ==
    ASSUME OneConnection
    PROVE  Spec => CompletionNotLost
<1>1. StagedInv /\ [Next]_vars =>
          [/\ adapter.send_in_flight /\ adapter' = adapter
           /\ CompletionExpected
           /\ Len(queue) < QueueCapacity \/ sends' = sends
           => CompletionExpected']_vars
  <2>1. ASSUME StagedInv, [Next]_vars PROVE CompletionHeld
    BY <2>1, NextProgress, Zenon DEF Progress
  <2> QED
    BY <2>1, Zenon DEF CompletionHeld
<1> QED
  BY <1>1, StagedInvariant, PTL DEF Spec, CompletionNotLost

(* Whatever is staged, delayed or dispatched twice, a stream is given at   *)
(* most one response, and the record of a completed one never changes      *)
(* (prepare_ready_response, runtime_send).                                 *)
THEOREM StagedOneResponse ==
    ASSUME OneConnection
    PROVE  Spec => OneResponsePerStream
<1>1. StagedInv /\ [Next]_vars =>
          [conn # "closed" => \A id \in StreamId :
              /\ sends[id].state = "pending" => sends'[id].frame = sends[id].frame
              /\ sends[id].state = "done" => sends'[id] = sends[id]]_vars
  <2>1. ASSUME StagedInv, [Next]_vars PROVE ResponsesKept
    BY <2>1, NextProgress, Zenon DEF Progress
  <2> QED
    BY <2>1, Zenon DEF ResponsesKept
<1> QED
  BY <1>1, StagedInvariant, PTL DEF Spec, OneResponsePerStream
=============================================================================
