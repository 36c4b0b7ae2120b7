---------------------------- MODULE ServerLemmas ----------------------------
(***************************************************************************)
(* What the server's proofs share: the types of the shell's state, the     *)
(* stream table as the server uses it, the responder, and the send state   *)
(* of a stream slot.                                                       *)
(***************************************************************************)
EXTENDS DoqServer, StreamLemmas

ServerShape == [ids |-> StreamId, phases |-> Phase, empty |-> ReadingLength, bufs |-> Buffer]

Good(t) == GoodTable(ServerShape, t)

Context == ContextWith(StreamId)

Adapter == [send_in_flight : BOOLEAN, send_stream_id : StreamId, send_len : 0 .. MaxMessage + 2]

ConnSlotState ==
    [in_use : BOOLEAN, stream_id : StreamId, received_fin : BOOLEAN,
     send_in_flight : BOOLEAN, reset_pending : BOOLEAN, response_len : 0 .. MaxMessage + 2]

Send == [state : {"none", "pending", "done"}, frame : Frames]

PeerStream ==
    [life : {"idle", "live", "shut", "closed"}, slot : ConnSlot \cup {NULL},
     wire : Seq(Byte), pos : Nat,
     eof : BOOLEAN, fin : BOOLEAN, reset : BOOLEAN, stopped : BOOLEAN]

PeerOK(p) ==
    /\ p \in [StreamId -> PeerStream]
    /\ \A id \in StreamId : p[id].pos <= Len(p[id].wire)


Bound(q) == q.life \in {"live", "shut"}

----------------------------------------------------------------------------
(* The table, at this server's shape.                                      *)

LEMMA ServerShapeOK ==
    /\ Shape(ServerShape)
    /\ ServerShape.ids = StreamId /\ ServerShape.empty = ReadingLength
    /\ ContextOf(ServerShape) = Context
    /\ ReadingLength \in Phase /\ ReadingLength.tag = "ReadingLength"
<1>1. 0 \in Byte /\ 0 \in 0 .. MaxMessage
  BY FramingConstants, SMTT(20) DEF Byte, MaxMessage
<1>2. ReadingLength \in Phase /\ ReadingLength.tag = "ReadingLength"
  BY <1>1 DEF ReadingLength, PhaseRecord, Phase
<1> QED
  BY <1>2, RuntimeConstants, Zenon DEF Shape, ServerShape, ContextOf, Context, ContextWith

(* find_stream finds exactly the open streams.                             *)
LEMMA TableFind ==
    ASSUME NEW t, Good(t), NEW id
    PROVE  /\ find_stream(t, id) = NULL <=> id \notin ActiveIds(t)
           /\ id \in ActiveIds(t) => /\ id \in StreamId
                                     /\ Ctx(t, id) \in Context /\ Ctx(t, id).id = id
  BY FoundIffOpen, ServerShapeOK DEF Good

(* open_stream, and a context stored in the slot it returned.              *)
LEMMA TableOpen ==
    ASSUME NEW t, Good(t), NEW id \in StreamId,
           NEW o, o = open_stream(t, id, ReadingLength)
    PROVE  \/ /\ o.slot = NULL /\ o.table = t
              /\ id \notin ActiveIds(t) /\ t.num = Capacity
           \/ /\ o.slot # NULL
              /\ o.table.ctx[o.slot] \in Context
              /\ o.table.ctx[o.slot].id = id
              /\ id \in ActiveIds(t) => o.table.ctx[o.slot] = Ctx(t, id)
              /\ id \notin ActiveIds(t) => o.table.ctx[o.slot].phase = ReadingLength
              /\ \A c \in Context : c.id = id =>
                    /\ Good(Put(o, c))
                    /\ ActiveIds(Put(o, c)) = ActiveIds(t) \cup {id}
                    /\ Ctx(Put(o, c), id) = c
                    /\ \A j \in ActiveIds(t) \ {id} : Ctx(Put(o, c), j) = Ctx(t, j)
<1>1. id \in ServerShape.ids /\ o = open_stream(t, id, ServerShape.empty)
  BY ServerShapeOK
<1>2. ContextOf(ServerShape) = Context /\ ServerShape.empty = ReadingLength
  BY ServerShapeOK
<1> QED
  BY <1>1, <1>2, OpenView, SMTT(30) DEF Good

(* Both closing calls.                                                     *)
LEMMA TableClose ==
    ASSUME NEW t, Good(t), NEW id, NEW u \in Closings(t, id, ReadingLength)
    PROVE  /\ Good(u)
           /\ ActiveIds(u) = ActiveIds(t) \ {id}
           /\ \A j \in ActiveIds(u) : Ctx(u, j) = Ctx(t, j)
<1>1. u \in Closings(t, id, ServerShape.empty)
  BY ServerShapeOK
<1> QED
  BY <1>1, CloseView DEF Good

----------------------------------------------------------------------------
(* The responder.                                                          *)

LEMMA MessageSizes == MaxMessage \in Nat /\ MinMessage \in Nat /\ MinMessage >= 2 /\ MinMessage <= MaxMessage
  BY FramingConstants, MaxMessageType DEF MaxMessage

(* The length of a framed response: 0, or the message and its prefix, when *)
(* that fits the send buffer.                                              *)
LEMMA FramedLength ==
    ASSUME NEW len \in 0 .. MaxMessage
    PROVE  /\ framed_length(len, SendCapacity) \in 0 .. MaxMessage + 2
           /\ framed_length(len, SendCapacity) # 0 =>
                 /\ framed_length(len, SendCapacity) = len + 2
                 /\ framed_length(len, SendCapacity) \in 1 .. SendCapacity
  BY MessageSizes, RuntimeConstants DEF framed_length

LEMMA RequestType ==
    ASSUME NEW ctx \in Context
    PROVE  /\ Request(ctx) \in Seq(Byte)
           /\ Len(Request(ctx)) = ctx.phase.expected
           /\ Len(Request(ctx)) \in 0 .. MaxMessage
<1>1. ctx.phase.expected \in 0 .. MaxMessage /\ ctx.buf \in [0 .. MaxMessage - 1 -> Byte]
  BY DEF Context, ContextWith, Phase, Buffer
<1>2. ctx.phase.expected \in Nat
  BY <1>1, MessageSizes
<1>3. \A i \in 1 .. ctx.phase.expected : ctx.buf[i - 1] \in Byte
  BY <1>1, <1>2, MessageSizes
<1>4. Request(ctx) \in Seq(Byte)
  BY <1>2, <1>3 DEF Request
<1>5. Len(Request(ctx)) = ctx.phase.expected
  BY <1>2, <1>4 DEF Request
<1> QED
  BY <1>1, <1>4, <1>5

(* A response has a length the shell can hold, and a framed one is as long *)
(* as the response and its prefix.                                         *)
LEMMA ResponseType ==
    ASSUME NEW q \in Seq(Byte), Len(q) \in 0 .. MaxMessage,
           NEW r, r = prepare_worker_validated_minimal_response_send(q)
    PROVE  /\ r = NoFrame \/ (q \in ValidQuestion /\ r = Frame(Len(q), "NOERROR", q))
                          \/ (q \notin ValidQuestion /\ r = Frame(MinMessage, "FORMERR", <<>>))
           /\ Framed(r) \in Frames
           /\ Framed(r).len # 0 =>
                 /\ Framed(r).len \in 1 .. SendCapacity
                 /\ Framed(r) = IF q \in ValidQuestion THEN Frame(Len(q) + 2, "NOERROR", q)
                                ELSE Frame(MinMessage + 2, "FORMERR", <<>>)
<1>1. \/ r = NoFrame \/ (q \in ValidQuestion /\ r = Frame(Len(q), "NOERROR", q))
      \/ (q \notin ValidQuestion /\ r = Frame(MinMessage, "FORMERR", <<>>))
  BY DEF prepare_worker_validated_minimal_response_send
<1>2. MinMessage \in 0 .. MaxMessage
  BY MessageSizes
<1>3. NoFrame \in Frames /\ NoFrame.len = 0
  BY DEF NoFrame, Frame, Frames
<1>4. CASE r = NoFrame
  <2>1. Framed(r) = NoFrame
    BY <1>3, <1>4 DEF Framed
  <2> QED
    BY <1>1, <1>3, <2>1
<1>5. CASE q \in ValidQuestion /\ r = Frame(Len(q), "NOERROR", q)
  <2>1. r.len = Len(q) /\ r.rcode = "NOERROR" /\ r.question = q
    BY <1>5 DEF Frame
  <2>2. CASE r.len = 0
    BY <1>1, <1>3, <2>2 DEF Framed
  <2>3. CASE r.len # 0
    <3>1. Framed(r) = Frame(framed_length(Len(q), SendCapacity), "NOERROR", q)
      BY <2>1, <2>3 DEF Framed
    <3>2. Framed(r).len = framed_length(Len(q), SendCapacity)
      BY <3>1 DEF Frame
    <3> QED
      BY <1>1, <1>5, <3>1, <3>2, FramedLength DEF Frame, Frames
  <2> QED
    BY <2>2, <2>3
<1>6. CASE q \notin ValidQuestion /\ r = Frame(MinMessage, "FORMERR", <<>>)
  <2>1. r.len = MinMessage /\ r.rcode = "FORMERR" /\ r.question = <<>>
    BY <1>6 DEF Frame
  <2>2. Framed(r) = Frame(framed_length(MinMessage, SendCapacity), "FORMERR", <<>>)
    BY <2>1, MessageSizes DEF Framed
  <2>3. Framed(r).len = framed_length(MinMessage, SendCapacity)
    BY <2>2 DEF Frame
  <2> QED
    BY <1>1, <1>2, <1>6, <2>2, <2>3, FramedLength DEF Frame, Frames
<1> QED
  BY <1>1, <1>4, <1>5, <1>6

(* The frame prepared for a stream, of any table: none unless the stream   *)
(* is open and ready.                                                      *)
LEMMA ReadyFrameType ==
    ASSUME NEW m, Good(m.table), NEW id \in StreamId
    PROVE  /\ ReadyFrame(m, id) \in Frames
           /\ ReadyFrame(m, id).len # 0 =>
                 /\ ReadyFrame(m, id).len \in 1 .. SendCapacity
                 /\ id \in ActiveIds(m.table)
                 /\ Ctx(m.table, id).phase.tag = "Processing"
                 /\ LET q == Request(Ctx(m.table, id))
                    IN  ReadyFrame(m, id) =
                           IF q \in ValidQuestion THEN Frame(Len(q) + 2, "NOERROR", q)
                           ELSE Frame(MinMessage + 2, "FORMERR", <<>>)
<1> DEFINE q == Request(Ctx(m.table, id))
<1>1. Framed(NoFrame) = NoFrame /\ NoFrame \in Frames /\ NoFrame.len = 0
  BY DEF Framed, NoFrame, Frame, Frames
<1>2. CASE id \notin ActiveIds(m.table) \/ Ctx(m.table, id).phase.tag # "Processing"
  <2>1. ReadyFrame(m, id) = NoFrame
    BY <1>1, <1>2, TableFind DEF ReadyFrame, dispatch_ready_stream_validated_minimal_response, Ctx
  <2> QED
    BY <1>1, <2>1
<1>3. CASE id \in ActiveIds(m.table) /\ Ctx(m.table, id).phase.tag = "Processing"
  <2>1. ReadyFrame(m, id) = Framed(prepare_worker_validated_minimal_response_send(q))
    BY <1>3, TableFind DEF ReadyFrame, dispatch_ready_stream_validated_minimal_response, Ctx
  <2>2. q \in Seq(Byte) /\ Len(q) \in 0 .. MaxMessage
    BY <1>3, TableFind, RequestType
  <2> HIDE DEF q
  <2> QED
    BY <1>3, <2>1, <2>2, ResponseType DEF q
<1> QED
  BY <1>2, <1>3

----------------------------------------------------------------------------
(* The send state of a stream slot and of the adapter.                    *)

(* The runtime's send state in a stream slot: MsQuic was given len bytes;  *)
(* no send; a reset that waits for the completion.                         *)
Deferred(slot) == [slot EXCEPT !.reset_pending = TRUE]

LEMMA NoLength == 0 \in 0 .. MaxMessage + 2
  BY MessageSizes

LEMMA SlotStates ==
    ASSUME NEW slot \in ConnSlotState, NEW len \in 0 .. MaxMessage + 2,
           NEW s \in {Busy(slot, len), Cleared(slot), Deferred(slot)}
    PROVE  s \in ConnSlotState
  BY NoLength, Zenon DEF Busy, Cleared, Deferred, ConnSlotState

LEMMA SlotFields ==
    ASSUME NEW slot \in ConnSlotState, NEW len,
           NEW s \in {Busy(slot, len), Cleared(slot), Deferred(slot)}
    PROVE  /\ s.in_use = slot.in_use /\ s.stream_id = slot.stream_id
           /\ s.received_fin = slot.received_fin
  BY Zenon DEF Busy, Cleared, Deferred, ConnSlotState

LEMMA SendFlags ==
    ASSUME NEW slot \in ConnSlotState, NEW len
    PROVE  /\ Busy(slot, len).send_in_flight /\ Busy(slot, len).response_len = len
           /\ ~Cleared(slot).send_in_flight
           /\ Deferred(slot).send_in_flight = slot.send_in_flight
           /\ Deferred(slot).response_len = slot.response_len
  BY DEF Busy, Cleared, Deferred, ConnSlotState

LEMMA IdleType == Idle \in Adapter /\ ~Idle.send_in_flight
  BY NoLength, RuntimeConstants DEF Idle, Adapter

(* The stream's end recorded in its slot.                                  *)
Finned(slot) == [slot EXCEPT !.received_fin = TRUE]

LEMMA FinnedFields ==
    ASSUME NEW slot \in ConnSlotState
    PROVE  /\ Finned(slot).received_fin
           /\ Finned(slot).in_use = slot.in_use /\ Finned(slot).stream_id = slot.stream_id
           /\ Finned(slot).send_in_flight = slot.send_in_flight
           /\ Finned(slot).response_len = slot.response_len
  BY DEF Finned, ConnSlotState

----------------------------------------------------------------------------
(* The start and the end of a stream.                                      *)

WithSlot(m, c, s) == [m EXCEPT !.slots = [m.slots EXCEPT ![c] = s]]

LEMMA FreeSlotType == FreeSlot \in ConnSlotState /\ ~FreeSlot.in_use
  BY NoLength, RuntimeConstants DEF FreeSlot, ConnSlotState

(* allocate_slot binds a free slot.                                        *)
LEMMA Allocates ==
    ASSUME NEW m, NEW id, FreeSlots(m) # {}, NEW r, r = allocate_slot(m, id)
    PROVE  /\ r.slot \in ConnSlot /\ ~m.slots[r.slot].in_use
           /\ r.m = WithSlot(m, r.slot, [FreeSlot EXCEPT !.in_use = TRUE, !.stream_id = id])
<1> DEFINE c == CHOOSE k \in FreeSlots(m) : \A j \in FreeSlots(m) : k <= j
<1>1. FreeSlots(m) \in SUBSET Nat
  BY RuntimeConstants DEF FreeSlots, ConnSlot
<1>2. c \in FreeSlots(m)
  BY <1>1, LeastNatural
<1>3. r.slot = c /\ r.m = [m EXCEPT !.slots[c] = [FreeSlot EXCEPT !.in_use = TRUE, !.stream_id = id]]
  BY DEF allocate_slot
<1> HIDE DEF c
<1> QED
  BY <1>2, <1>3 DEF FreeSlots, WithSlot

BoundSlotOf(id) == [FreeSlot EXCEPT !.in_use = TRUE, !.stream_id = id]

LEMMA BoundSlotFields ==
    ASSUME NEW id \in StreamId
    PROVE  /\ BoundSlotOf(id) \in ConnSlotState
           /\ BoundSlotOf(id).in_use /\ BoundSlotOf(id).stream_id = id
           /\ ~BoundSlotOf(id).received_fin /\ ~BoundSlotOf(id).send_in_flight
  BY FreeSlotType, Zenon DEF BoundSlotOf, FreeSlot, ConnSlotState

Begun(slot, wire) == [Unstarted EXCEPT !.life = "live", !.slot = slot, !.wire = wire]

LEMMA BegunFields ==
    ASSUME NEW slot \in ConnSlot, NEW wire \in Seq(Byte), NEW q, q = Begun(slot, wire)
    PROVE  /\ q \in PeerStream /\ q.life = "live" /\ q.slot = slot /\ q.wire = wire /\ q.pos = 0
           /\ q.pos <= Len(q.wire)
<1>1. /\ q \in PeerStream /\ q.life = "live" /\ q.slot = slot /\ q.wire = wire /\ q.pos = 0
  BY Zenon DEF Begun, Unstarted, PeerStream
<1>2. Len(wire) \in Nat
  OBVIOUS
<1> QED
  BY <1>1, <1>2

WithLife(q, life) == [q EXCEPT !.life = life]

LEMMA LifeFields ==
    ASSUME NEW q \in PeerStream, NEW life \in {"idle", "live", "shut", "closed"},
           NEW o, o = WithLife(q, life)
    PROVE  /\ o \in PeerStream /\ o.life = life /\ o.slot = q.slot /\ o.wire = q.wire
           /\ o.pos = q.pos /\ (o.eof <=> q.eof) /\ (o.fin <=> q.fin)
           /\ (o.stopped <=> q.stopped) /\ (o.reset <=> q.reset)
  BY DEF WithLife, PeerStream

(* What the peer does to a stream it has.                                  *)
Received(q, n, flag) == [q EXCEPT !.pos = @ + n, !.eof = flag]
FinReceived(q) == [q EXCEPT !.fin = TRUE]
ResetBy(q)   == [q EXCEPT !.reset = TRUE]
StoppedBy(q) == [q EXCEPT !.stopped = TRUE]

LEMMA UnstartedFields ==
    /\ Unstarted \in PeerStream /\ Unstarted.life = "idle" /\ Unstarted.pos <= Len(Unstarted.wire)
<1>1. Unstarted \in PeerStream /\ Unstarted.life = "idle"
  BY DEF Unstarted, PeerStream
<1>2. Unstarted.pos = 0 /\ Unstarted.wire = <<>>
  BY DEF Unstarted
<1> QED
  BY <1>1, <1>2

LEMMA UnsentType ==
    Unsent \in [StreamId -> Send] /\ \A id \in StreamId : Unsent[id].state = "none"
<1>1. NoFrame \in Frames
  BY DEF Frames
<1> QED
  BY <1>1 DEF Unsent, Send

(* The table is empty at first.                                            *)
LEMMA InitTable ==
    ASSUME Init
    PROVE  Good(table) /\ ActiveIds(table) = {}
<1> DEFINE buf == [i \in 0 .. MaxMessage - 1 |-> 0]
<1>1. buf \in Buffer
  <2>1. 0 \in Byte
    BY FramingConstants DEF Byte
  <2> QED
    BY <2>1 DEF Buffer
<1>2. table = connection_init(ServerShape.empty, buf) /\ buf \in ServerShape.bufs
  BY <1>1, ServerShapeOK DEF Init, ServerShape
<1> HIDE DEF buf
<1>3. Good(table)
  BY <1>2, InitGood, ServerShapeOK DEF Good
<1>4. Prefix(table) = {}
  BY <1>2 DEF connection_init, Prefix
<1> QED
  BY <1>3, <1>4 DEF ActiveIds, ActiveSlots

----------------------------------------------------------------------------
(* The codes the shell returns for a phase.                               *)

LEMMA PhaseCodes ==
    ASSUME NEW ctx \in Context
    PROVE  /\ shell_phase_code(ctx.phase) = 2 <=> ctx.phase.tag = "Processing"
           /\ shell_phase_code(ctx.phase) = 3 <=> ctx.phase.tag = "Done"
  BY DEF Context, ContextWith, Phase, shell_phase_code
=============================================================================
