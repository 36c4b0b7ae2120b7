---------------------------- MODULE ShellProofs -----------------------------
(***************************************************************************)
(* The framing properties of one stream, for every byte radix, every       *)
(* minimal message length, every byte string a peer sends, every way it is *)
(* cut into fragments and every stale buffer; then the invariants of the   *)
(* stream table, for every capacity, every set of stream ids and every set *)
(* of phases.                                                              *)
(*                                                                         *)
(* Last, the stable shell and the one on the Pulse adapters, for every     *)
(* table capacity, initial descriptor and sequence of calls.  As long as   *)
(* the descriptor is intact (Intact) the adapters accept it, and each of   *)
(* their calls is shown equal to the stable call on the same table; so     *)
(* both connections stay equal, and intact.  Every corruption leaves a     *)
(* descriptor that one of the two checks refuses.                          *)
(***************************************************************************)
EXTENDS StreamFraming, StreamTable, PulseDifferential, StreamLemmas, FiniteSetTheorems

----------------------------------------------------------------------------
(* The inductive invariant: the properties themselves, with what makes     *)
(* them inductive, that FIN comes last and that the buffer holds the body  *)
(* of every prefix not rejected, whether or not FIN was seen.              *)
FramingInv ==
    /\ FramingTypeOK
    /\ FragmentationIndependent
    /\ ReadyIffWholeQuery
    /\ fin => pos = Len(wire)
    /\ BodyHeld(wire, ctx.buf, pos)

(* After FIN a stream is Processing or Done.                               *)
LEMMA FinalPhase ==
    ASSUME FramingInv, fin
    PROVE  \/ ctx.phase = Done
           \/ /\ Expected(wire) \in 0 .. MaxMessage /\ ctx.phase = Processing(Expected(wire))
              /\ pos = Len(wire) /\ Len(wire) = Expected(wire) + 2 /\ Accepted(wire, pos)
              /\ Expected(wire) >= MinMessage /\ wire[3] = 0 /\ wire[4] = 0
<1>1. wire \in Seq(Byte) /\ Len(wire) \in Nat
  BY FramingInputs DEF FramingInv, FramingTypeOK
<1>2. Len(wire) >= 2 => Expected(wire) \in 0 .. MaxMessage
  BY <1>1, ExpectedType, Zenon
<1> QED
  BY <1>1, <1>2, MaxMessageType DEF FramingInv, ReadyIffWholeQuery, WholeQuery, Accepted

(* handle_stream_data preserves the invariant.                             *)
LEMMA DataStep ==
    ASSUME FramingInv, NEW n, Data(n)
    PROVE  FramingInv'
<1> DEFINE d == SubSeq(wire, pos + 1, pos + n)
           plan == fragment_copy_plan(ctx.phase, n, ByteAt(d, 1), ByteAt(d, 2))
           phase == fragment_phase(ctx.phase, n, ByteAt(d, 1), ByteAt(d, 2))
           buf == copied_bytes(ctx.buf, d, plan)
<1>0. /\ wire \in Seq(Byte) /\ pos \in 0 .. Len(wire) /\ Len(wire) \in Nat
      /\ ctx \in [phase : Phase, buf : Buffer] /\ fin \in BOOLEAN
      /\ ctx.phase \in Phase /\ ctx.buf \in Buffer
  BY FramingInputs DEF FramingInv, FramingTypeOK
<1>1. n \in 0 .. Len(wire) - pos /\ n \in Nat /\ pos \in Nat /\ pos + n <= Len(wire)
  BY <1>0 DEF Data
<1>2. wire' = wire /\ fin' = fin /\ pos' = pos + n
  BY Zenon DEF Data
<1>3. /\ Len(d) = n
      /\ \A k \in 1 .. n : d[k] \in Byte
      /\ ByteAt(d, 1) = IF n >= 1 THEN wire[pos + 1] ELSE 0
      /\ ByteAt(d, 2) = IF n >= 2 THEN wire[pos + 2] ELSE 0
  BY <1>0, <1>1, Fragment, Zenon
<1>4. d \in Seq(Byte) /\ ByteAt(d, 1) \in Byte /\ ByteAt(d, 2) \in Byte
  <2>1. 0 \in Byte
    BY FramingConstants DEF Byte
  <2>2. d \in Seq(Byte)
    BY <1>0, <1>1
  <2> QED
    BY <1>1, <1>3, <2>1, <2>2 DEF ByteAt
<1>5. ctx' = [ctx EXCEPT !.phase = phase, !.buf = buf]
  BY <1>3, Zenon DEF Data, handle_stream_data
<1> HIDE DEF d
<1>6. buf \in Buffer
  <2>1. /\ plan.source \in Nat /\ plan.destination \in Nat /\ plan.count \in Nat
        /\ plan.source + plan.count <= Len(d)
    BY <1>0, <1>1, <1>3, <1>4, PlanBound, Zenon
  <2> HIDE DEF plan
  <2> QED
    BY <1>0, <1>4, <2>1, CopyType, Zenon
<1>7. ctx'.phase = phase /\ ctx'.buf = buf
  BY <1>0, <1>5, Zenon
<1>8. CASE ~fin
  <2>1. ctx.phase = WholeStreamPhase(wire, pos)
    BY <1>8, Zenon DEF FramingInv, FragmentationIndependent
  <2>2. phase = WholeStreamPhase(wire, pos + n)
    BY <1>0, <1>1, <1>3, <2>1, PhaseStep
  <2>3. phase \in Phase
    BY <1>0, <1>1, <2>2, WholePhaseType
  <2>4. BodyHeld(wire, buf, pos + n)
    BY <1>0, <1>1, <2>1, BodyStep, Zenon DEF FramingInv, d
  <2> HIDE DEF buf, phase
  <2>5. ctx' \in [phase : Phase, buf : Buffer]
    BY <1>0, <1>5, <1>6, <2>3, Zenon
  <2>6. FramingTypeOK'
    BY <1>0, <1>1, <1>2, <2>5 DEF FramingTypeOK, FramingInv
  <2>7. FragmentationIndependent'
    BY <1>2, <1>7, <2>2, Zenon DEF FragmentationIndependent, WholeStreamPhase, Expected
  <2>8. BodyHeld(wire, ctx.buf, pos)'
    BY <1>2, <1>7, <2>4, Zenon DEF BodyHeld, Accepted, Expected
  <2> QED
    BY <1>2, <1>8, <2>6, <2>7, <2>8, Zenon DEF FramingInv, ReadyIffWholeQuery
<1>9. CASE fin
  <2>1. n = 0 /\ pos = Len(wire)
    BY <1>0, <1>1, <1>9 DEF FramingInv
  <2>2. phase = ctx.phase /\ plan = CopyPlan(0, 0, 0)
    <3>1. ctx.phase.tag = "Done" => ctx.phase = Done
      BY <1>9, FinalPhase DEF Done, Processing, PhaseRecord
    <3>2. ctx.phase.tag \in {"Done", "Processing"}
      BY <1>9, FinalPhase DEF Done, Processing, PhaseRecord
    <3>3. phase = ctx.phase
      BY <2>1, <3>1, <3>2 DEF fragment_phase, advance_body_phase
    <3> QED
      BY <3>2, <3>3, Zenon DEF fragment_copy_plan
  <2>3. buf = ctx.buf
    <3> HIDE DEF plan
    <3>1. \A i \in 0 .. MaxMessage - 1 :
            ~(plan.destination <= i /\ i < plan.destination + plan.count)
      BY <2>2, MaxMessageType DEF CopyPlan
    <3> QED
      BY <1>0, <3>1, Zenon DEF copied_bytes, Buffer
  <2> HIDE DEF buf, phase, plan
  <2>4. ctx' = ctx
    BY <1>0, <1>5, <2>2, <2>3, Zenon
  <2>5. pos' = pos
    BY <1>1, <1>2, <2>1
  <2> QED
    BY <1>2, <2>4, <2>5, Zenon
       DEF FramingInv, FramingTypeOK, FragmentationIndependent, WholeStreamPhase, ReadyIffWholeQuery,
           BodyHeld, Accepted, Expected
<1> QED
  BY <1>0, <1>8, <1>9, Zenon

(* handle_stream_fin preserves the invariant.                              *)
LEMMA FinStep ==
    ASSUME FramingInv, Fin
    PROVE  FramingInv'
<1> DEFINE phase == finish_doq_phase(ctx.phase, ctx.buf[0], ctx.buf[1])
<1>0. /\ wire \in Seq(Byte) /\ pos \in 0 .. Len(wire) /\ Len(wire) \in Nat
      /\ ctx \in [phase : Phase, buf : Buffer] /\ fin \in BOOLEAN
      /\ ctx.phase \in Phase /\ ctx.buf \in Buffer
  BY FramingInputs DEF FramingInv, FramingTypeOK
<1>1. wire' = wire /\ fin' = TRUE /\ pos' = pos /\ pos = Len(wire)
  BY Zenon DEF Fin
<1>2. ctx' = [ctx EXCEPT !.phase = phase]
  BY Zenon DEF Fin, handle_stream_fin
<1>3. ctx'.phase = phase /\ ctx'.buf = ctx.buf
  BY <1>0, <1>2, Zenon
<1>4. BodyHeld(wire, ctx.buf, Len(wire))
  BY <1>1, Zenon DEF FramingInv
<1>6. phase = IF WholeQuery(wire) THEN Processing(Expected(wire)) ELSE Done
  <2>1. CASE fin
    <3>1. CASE ~WholeQuery(wire)
      <4>1. ctx.phase = Done
        BY <2>1, <3>1, Zenon DEF FramingInv, ReadyIffWholeQuery
      <4> QED
        BY <3>1, <4>1 DEF finish_doq_phase, finish_stream_phase, Done, PhaseRecord
    <3>2. CASE WholeQuery(wire)
      <4>1. ctx.phase = Processing(Expected(wire))
        BY <2>1, <3>2, Zenon DEF FramingInv, ReadyIffWholeQuery
      <4>2. ctx.buf[0] = 0 /\ ctx.buf[1] = 0
        BY <1>0, <1>4, <3>2, WholeQueryId, Zenon DEF WholeQuery
      <4> QED
        BY <3>2, <4>1, <4>2
           DEF finish_doq_phase, finish_stream_phase, Processing, PhaseRecord
    <3> QED
      BY <3>1, <3>2, Zenon
  <2>2. CASE ~fin
    <3>1. ctx.phase = WholeStreamPhase(wire, Len(wire))
      BY <1>1, <2>2, Zenon DEF FramingInv, FragmentationIndependent
    <3> QED
      BY <1>0, <1>4, <3>1, FinishStep, Zenon
  <2> QED
    BY <1>0, <2>1, <2>2, Zenon
<1>7. phase \in Phase
  BY <1>0, FinishPhaseType, Zenon
<1> HIDE DEF phase
<1>8. ctx' \in [phase : Phase, buf : Buffer]
  BY <1>0, <1>2, <1>7, Zenon
<1>9. FramingTypeOK'
  BY <1>1, <1>8, Zenon DEF FramingTypeOK, FramingInv
<1>10. ReadyIffWholeQuery'
  BY <1>1, <1>3, <1>6, Zenon DEF ReadyIffWholeQuery, WholeQuery, Expected
<1>11. BodyHeld(wire, ctx.buf, pos)'
  BY <1>1, <1>3, Zenon DEF FramingInv, BodyHeld, Accepted, Expected
<1> QED
  BY <1>1, <1>9, <1>10, <1>11, Zenon DEF FramingInv, FragmentationIndependent

(* What the phase counts as received is held in the buffer.                *)
LEMMA BodyFromInv ==
    ASSUME FramingInv
    PROVE  BufferHoldsBody
<1>0. /\ wire \in Seq(Byte) /\ pos \in 0 .. Len(wire) /\ Len(wire) \in Nat /\ fin \in BOOLEAN
  BY FramingInputs DEF FramingInv, FramingTypeOK
<1>1. CASE ctx.phase.tag \notin {"ReadingMessage", "AwaitingFin", "Processing"}
  <2>1. MessageBytes = 0
    BY <1>1, Zenon DEF MessageBytes
  <2> QED
    BY <2>1 DEF BufferHoldsBody
<1>2. CASE ctx.phase.tag \in {"ReadingMessage", "AwaitingFin", "Processing"}
  <2>1. Accepted(wire, pos) /\ MessageBytes - 1 = pos - 3
    <3>1. CASE fin
      BY <1>0, <1>2, <3>1, FinalPhase
         DEF Done, Processing, PhaseRecord, MessageBytes
    <3>2. CASE ~fin
      <4>1. ctx.phase = WholeStreamPhase(wire, pos)
        BY <3>2, Zenon DEF FramingInv, FragmentationIndependent
      <4>2. pos # 0 /\ pos # 1
        BY <1>2, <4>1 DEF WholeStreamPhase, ReadingLength, ReadingLengthHigh, PhaseRecord
      <4>3. pos >= 2 /\ Expected(wire) \in 0 .. MaxMessage
        BY <1>0, <4>2, ExpectedType
      <4>4. ~(Expected(wire) < MinMessage \/ pos - 2 > Expected(wire))
        BY <1>2, <4>1, <4>2, <4>3 DEF WholeStreamPhase, Done, PhaseRecord
      <4>5. MessageBytes = pos - 2
        BY <1>0, <4>1, <4>2, <4>3, <4>4
           DEF WholeStreamPhase, AwaitingFin, ReadingMessage, PhaseRecord, MessageBytes
      <4> QED
        BY <1>0, <4>3, <4>4, <4>5, MaxMessageType DEF Accepted
    <3> QED
      BY <1>0, <3>1, <3>2, Zenon
  <2> QED
    BY <2>1, Zenon DEF FramingInv, BodyHeld, BufferHoldsBody
<1> QED
  BY <1>1, <1>2, Zenon

(* FramingInv holds in every reachable state.                              *)
LEMMA Inductive == FramingSpec => []FramingInv
<1>1. FramingInit => FramingInv
  <2> SUFFICES ASSUME FramingInit PROVE FramingInv
    OBVIOUS
  <2>1. wire \in Seq(Byte) /\ Len(wire) \in Nat /\ pos = 0 /\ fin = FALSE
    BY FramingInputs DEF FramingInit
  <2>2. PICK stale \in StaleBuffers : ctx = [phase |-> ReadingLength, buf |-> stale]
    BY Zenon DEF FramingInit
  <2>3. WholeStreamPhase(wire, 0) = ReadingLength
    BY DEF WholeStreamPhase
  <2>4. ReadingLength \in Phase
    BY <2>1, <2>3, WholePhaseType
  <2>5. FramingTypeOK
    <3>1. stale \in Buffer
      BY FramingInputs, Zenon
    <3>2. ctx \in [phase : Phase, buf : Buffer]
      BY <2>2, <2>4, <3>1, Zenon
    <3>3. pos \in 0 .. Len(wire)
      BY <2>1
    <3> QED
      BY <2>1, <3>2, <3>3, Zenon DEF FramingInit, FramingTypeOK
  <2>6. FragmentationIndependent
    BY <2>1, <2>2, <2>3, Zenon DEF FragmentationIndependent
  <2>7. BodyHeld(wire, ctx.buf, pos)
    BY <2>1 DEF BodyHeld
  <2> QED
    BY <2>1, <2>5, <2>6, <2>7, Zenon DEF FramingInv, ReadyIffWholeQuery
<1>2. FramingInv /\ [FramingNext]_framingVars => FramingInv'
  <2> SUFFICES ASSUME FramingInv, [FramingNext]_framingVars PROVE FramingInv'
    OBVIOUS
  <2>1. CASE FramingNext
    BY <2>1, DataStep, FinStep, Zenon DEF FramingNext
  <2>2. CASE UNCHANGED framingVars
    BY <2>2, Zenon
       DEF framingVars, FramingInv, FramingTypeOK, FragmentationIndependent, WholeStreamPhase,
                ReadyIffWholeQuery, WholeQuery, BodyHeld, Accepted, Expected
  <2> QED
    BY <2>1, <2>2, Zenon
<1> QED
  BY <1>1, <1>2, PTL DEF FramingSpec

(* Every delivered fragment and FIN keeps the context well-formed: the     *)
(* phase is one of the code's and the buffer holds bytes.                  *)
THEOREM FramingTypeCorrect == FramingSpec => []FramingTypeOK
<1>1. FramingInv => FramingTypeOK
  BY Zenon DEF FramingInv
<1> QED
  BY <1>1, Inductive, PTL

(* However QUIC cuts the peer's bytes, fragment_phase reaches the phase of *)
(* the delivered prefix.                                                   *)
THEOREM Fragmentation == FramingSpec => []FragmentationIndependent
<1>1. FramingInv => FragmentationIndependent
  BY Zenon DEF FramingInv
<1> QED
  BY <1>1, Inductive, PTL

(* copy_body_bytes leaves the peer's body in the message buffer.           *)
THEOREM Body == FramingSpec => []BufferHoldsBody
<1>1. FramingInv => BufferHoldsBody
  BY BodyFromInv, Zenon
<1> QED
  BY <1>1, Inductive, PTL

(* handle_stream_fin hands over exactly the whole, zero-ID queries.        *)
THEOREM WholeQueriesOnly == FramingSpec => []ReadyIffWholeQuery
<1>1. FramingInv => ReadyIffWholeQuery
  BY Zenon DEF FramingInv
<1> QED
  BY <1>1, Inductive, PTL

----------------------------------------------------------------------------
(* The handlers of this module leave a stream's id in its buffer.          *)
TableShape ==
    [ids |-> StreamId, phases |-> PhaseName, empty |-> NewPhase, bufs |-> StreamId \cup {Stale}]

LEMMA TableShapeOK ==
    /\ Shape(TableShape)
    /\ TableShape.ids = StreamId /\ TableShape.phases = PhaseName
    /\ TableShape.empty = NewPhase /\ TableShape.bufs = StreamId \cup {Stale}
  BY TableConstants, Zenon DEF Shape, TableShape

----------------------------------------------------------------------------
(* Operations.                                                             *)

(* What a handler that moves a stream to a phase leaves of its context.    *)
Moved(d, phase, b) == [d EXCEPT !.phase = phase, !.buf = b]

LEMMA ContextMoved ==
    ASSUME NEW d \in ContextOf(TableShape), NEW phase \in PhaseName,
           NEW b \in TableShape.bufs
    PROVE  Moved(d, phase, b) = [id |-> d.id, phase |-> phase, buf |-> b]
<1>1. Moved(d, phase, b) \in ContextOf(TableShape)
  BY TableShapeOK, Zenon DEF ContextOf, Moved
<1>2. /\ Moved(d, phase, b).id = d.id /\ Moved(d, phase, b).phase = phase
      /\ Moved(d, phase, b).buf = b
  BY TableShapeOK, Zenon DEF ContextOf, Moved
<1> QED
  BY <1>1, <1>2, TableShapeOK, Zenon DEF ContextOf

(* Input opens the stream if need be.  Afterwards every stream that was    *)
(* open still has its slot, and only the named one's context changed.      *)
LEMMA InputGood ==
    ASSUME NEW t, GoodTable(TableShape, t), NEW id \in StreamId, NEW phase \in PhaseName
    PROVE  LET o == open_stream(t, id, NewPhase)
               v == Advance(o.table, o.slot, id, phase)
           IN  \/ /\ o.slot = NULL /\ o.table = t
                  /\ id \notin ActiveIds(t) /\ t.num = Capacity
               \/ /\ o.slot # NULL
                  /\ id \in ActiveIds(t) \/ t.num < Capacity
                  /\ GoodTable(TableShape, v)
                  /\ o.slot \in ActiveSlots(v)
                  /\ ActiveSlots(v) = ActiveSlots(t) \cup {o.slot}
                  /\ v.ctx[o.slot] = [id |-> id, phase |-> phase, buf |-> id]
                  /\ \A s \in ActiveSlots(t) \ {o.slot} : v.ctx[s] = t.ctx[s]
                  /\ o.slot \in ActiveSlots(t) => t.ctx[o.slot].id = id
                  /\ id \in ActiveIds(t) => o.slot \in ActiveSlots(t)
<1> DEFINE o == open_stream(t, id, NewPhase)
           v == Advance(o.table, o.slot, id, phase)
           c == Moved(o.table.ctx[o.slot], phase, id)
<1>1. ActiveSlots(t) \subseteq Slot
  BY PrefixInSlots, Zenon DEF GoodTable
<1> HIDE DEF o
<1>2. CASE o.slot = NULL
  BY <1>2, OpenGood, TableShapeOK, Zenon DEF o
<1>3. CASE o.slot # NULL
  <2>1. /\ id \in ActiveIds(t) \/ t.num < Capacity
        /\ GoodTable(TableShape, o.table)
        /\ o.slot \in ActiveSlots(o.table)
        /\ ActiveSlots(o.table) = ActiveSlots(t) \cup {o.slot}
        /\ o.table.ctx[o.slot].id = id
        /\ \A s \in ActiveSlots(t) : o.table.ctx[s] = t.ctx[s]
        /\ o.slot \in ActiveSlots(t) <=> id \in ActiveIds(t)
    BY <1>3, OpenGood, TableShapeOK, SMTT(20) DEF o
  <2>2. o.slot \in Slot /\ o.table.ctx[o.slot] \in ContextOf(TableShape)
    <3>1. o.table \in TableOf(TableShape)
      BY <2>1, Zenon DEF GoodTable
    <3>2. o.slot \in Slot
      BY <2>1, <3>1, PrefixInSlots, Zenon
    <3> QED
      BY <3>1, <3>2, Zenon DEF TableOf
  <2>3. c \in ContextOf(TableShape) /\ c = [id |-> id, phase |-> phase, buf |-> id]
    <3>1. id \in TableShape.bufs
      BY Zenon DEF TableShape
    <3>2. c = [id |-> id, phase |-> phase, buf |-> id]
      <4>1. c = [id |-> o.table.ctx[o.slot].id, phase |-> phase, buf |-> id]
        BY <2>2, <3>1, ContextMoved, Zenon
      <4>2. o.table.ctx[o.slot].id = id
        BY <2>1, Zenon
      <4> HIDE DEF c
      <4> QED
        BY <4>1, <4>2, Zenon
    <3> QED
      BY <3>1, <3>2, TableShapeOK DEF ContextOf
  <2>4. v = [o.table EXCEPT !.ctx = [o.table.ctx EXCEPT ![o.slot] = c]]
    <3>1. o.table \in TableOf(TableShape)
      BY <2>1, Zenon DEF GoodTable
    <3> QED
      BY Zenon DEF Advance, Moved
  <2> HIDE DEF v, c
  <2>5. c.id = o.table.ctx[o.slot].id
    BY <2>1, <2>3, Zenon
  <2>6. /\ GoodTable(TableShape, v) /\ ActiveSlots(v) = ActiveSlots(o.table)
        /\ v.ctx[o.slot] = c
        /\ \A r \in Slot \ {o.slot} : v.ctx[r] = o.table.ctx[r]
    BY <2>1, <2>3, <2>4, <2>5, StoreGood
  <2> QED
    BY <1>1, <1>3, <2>1, <2>3, <2>6, Zenon DEF o, v
<1> QED
  BY <1>2, <1>3, Zenon

----------------------------------------------------------------------------
(* Invariants.                                                             *)

CallOK == call \in [op : {"init", "input", "close"}, id : StreamId]

(* The step lemma: one case per call of the shell.                         *)
LEMMA StepGood ==
    ASSUME GoodTable(TableShape, table), BuffersIsolated, CallOK, [Next]_vars
    PROVE  GoodTable(TableShape, table)' /\ BuffersIsolated' /\ CallOK'
<1>1. ASSUME NEW id \in StreamId, NEW phase \in PhaseName, StreamInput(id, phase)
      PROVE  GoodTable(TableShape, table)' /\ BuffersIsolated' /\ CallOK'
  <2> DEFINE o == open_stream(table, id, NewPhase)
  <2>1. table' = IF o.slot = NULL THEN o.table ELSE Advance(o.table, o.slot, id, phase)
    BY <1>1, Zenon DEF StreamInput
  <2>2. CallOK'
    BY <1>1, Zenon DEF StreamInput, CallOK
  <2>3. CASE o.slot = NULL
    <3>1. table' = table
      BY <2>1, <2>3, InputGood, Zenon
    <3> QED
      BY <2>2, <3>1, Zenon DEF GoodTable, BuffersIsolated
  <2>4. CASE o.slot # NULL
    <3>1. /\ GoodTable(TableShape, table')
          /\ ActiveSlots(table') = ActiveSlots(table) \cup {o.slot}
          /\ table'.ctx[o.slot] = [id |-> id, phase |-> phase, buf |-> id]
          /\ \A s \in ActiveSlots(table) \ {o.slot} : table'.ctx[s] = table.ctx[s]
      <4>1. table' = Advance(o.table, o.slot, id, phase)
        BY <2>1, <2>4, Zenon
      <4> QED
        BY <2>4, <4>1, InputGood, SMTT(30)
    <3>2. BuffersIsolated'
      BY <3>1 DEF BuffersIsolated
    <3> QED
      BY <2>2, <3>1, <3>2, Zenon
  <2> QED
    BY <2>3, <2>4, Zenon
<1>2. ASSUME NEW id \in StreamId, SendFinished(id) \/ StreamReset(id)
      PROVE  GoodTable(TableShape, table)' /\ BuffersIsolated' /\ CallOK'
  <2>1. table' \in Closings(table, id, TableShape.empty)
    BY <1>2, TableShapeOK, Zenon DEF SendFinished, StreamReset, Closings
  <2>2. CallOK'
    BY <1>2 DEF SendFinished, StreamReset, CallOK
  <2>3. /\ GoodTable(TableShape, table')
        /\ ActiveSlots(table') \subseteq ActiveSlots(table)
        /\ \A s \in ActiveSlots(table') : table'.ctx[s] = table.ctx[s]
    BY <2>1, ClosingGood
  <2>4. BuffersIsolated'
    BY <2>3, Zenon DEF BuffersIsolated
  <2> QED
    BY <2>2, <2>3, <2>4, Zenon
<1>3. CASE UNCHANGED vars
  BY <1>3, Zenon DEF vars, GoodTable, BuffersIsolated, CallOK
<1> QED
  BY <1>1, <1>2, <1>3, Zenon DEF Next

(* For every capacity, set of ids and set of phases, the table keeps its   *)
(* representation invariant: pointers a permutation, flags and free slots  *)
(* in line with the prefix, one context per stream; and no open stream's   *)
(* buffer was written by another (open_stream, close_stream,               *)
(* sync_stream_slots).                                                     *)
THEOREM TableInvariant == Spec => [](TableInv /\ BuffersIsolated)
<1> DEFINE IInv == GoodTable(TableShape, table) /\ BuffersIsolated /\ CallOK
<1>1. Init => IInv
  <2> SUFFICES ASSUME Init PROVE IInv
    OBVIOUS
  <2>1. GoodTable(TableShape, table)
    <3>1. Stale \in TableShape.bufs
      BY Zenon DEF TableShape
    <3> QED
      BY <3>1, InitGood, TableShapeOK, Zenon DEF Init, TableShape
  <2>2. ActiveSlots(table) = {}
    BY DEF Init, connection_init, ActiveSlots, Prefix
  <2>3. BuffersIsolated
    BY <2>2, Zenon DEF BuffersIsolated
  <2>4. CallOK
    BY TableConstants, Zenon DEF Init, CallOK
  <2> QED
    BY <2>1, <2>3, <2>4, Zenon
<1>2. IInv /\ [Next]_vars => IInv'
  BY StepGood, Zenon
<1>3. IInv => TableInv /\ BuffersIsolated
  BY Zenon
     DEF GoodTable, TableOf, ContextOf, TableShape, Table, CallOK, TableInv, TypeOK, SlotsOwned, SlotsSynced, OneContextPerStream
<1> HIDE DEF IInv
<1> QED
  BY <1>1, <1>2, <1>3, PTL DEF Spec

(* The table never leaves its type: the count stays between 0 and the      *)
(* capacity and every pointer names a slot.                                *)
THEOREM TableTypeCorrect == Spec => []TypeOK
<1>1. TableInv => TypeOK
  BY Zenon DEF TableInv
<1> QED
  BY <1>1, TableInvariant, PTL

(* Compaction never loses a context or shares one (close_stream).          *)
THEOREM PointersOwned == Spec => []SlotsOwned
<1>1. TableInv => SlotsOwned
  BY Zenon DEF TableInv
<1> QED
  BY <1>1, TableInvariant, PTL

(* The shell's flags follow the verified prefix through every call, so no  *)
(* stream is refused while a slot is free (sync_stream_slots).             *)
THEOREM FlagsSynced == Spec => []SlotsSynced
<1>1. TableInv => SlotsSynced
  BY Zenon DEF TableInv
<1> QED
  BY <1>1, TableInvariant, PTL

(* No two open contexts carry the same id, id 0 included (open_stream).    *)
THEOREM OneContext == Spec => []OneContextPerStream
<1>1. TableInv => OneContextPerStream
  BY Zenon DEF TableInv
<1> QED
  BY <1>1, TableInvariant, PTL

(* A stream that stays open keeps its slot through every call.             *)
THEOREM SlotStable == Spec => StreamsKeepTheirSlot
<1> DEFINE Keeps == \A s \in ActiveSlots(table), r \in ActiveSlots(table') :
                        table.ctx[s].id = table'.ctx[r].id => s = r
<1>0. GoodTable(TableShape, table) => \A r, s \in ActiveSlots(table) :
                              table.ctx[r].id = table.ctx[s].id => r = s
  BY Zenon DEF GoodTable, IdsDistinct, ActiveSlots
<1>1. TableInv /\ [Next]_vars => [Keeps]_vars
  <2> SUFFICES ASSUME TableInv, Next PROVE Keeps
    BY Zenon DEF vars
  <2>1. GoodTable(TableShape, table)
    BY TableShapeOK, Zenon
       DEF GoodTable, TableOf, ContextOf, TableShape, Table, TableInv, TypeOK, SlotsOwned, SlotsSynced, OneContextPerStream
  <2>2. ASSUME NEW id \in StreamId, NEW phase \in PhaseName, StreamInput(id, phase)
        PROVE  Keeps
    <3> DEFINE o == open_stream(table, id, NewPhase)
    <3>1. table' = IF o.slot = NULL THEN o.table ELSE Advance(o.table, o.slot, id, phase)
      BY <2>2, Zenon DEF StreamInput
    <3>2. CASE o.slot = NULL
      <4>1. table' = table
        BY <2>1, <3>1, <3>2, InputGood, Zenon
      <4> QED
        BY <1>0, <2>1, <4>1, Zenon
    <3>3. CASE o.slot # NULL
      <4>1. /\ ActiveSlots(table') = ActiveSlots(table) \cup {o.slot}
            /\ table'.ctx[o.slot] = [id |-> id, phase |-> phase, buf |-> id]
            /\ \A s \in ActiveSlots(table) \ {o.slot} : table'.ctx[s] = table.ctx[s]
            /\ o.slot \in ActiveSlots(table) => table.ctx[o.slot].id = id
            /\ id \in ActiveIds(table) => o.slot \in ActiveSlots(table)
        <5>1. table' = Advance(o.table, o.slot, id, phase)
          BY <3>1, <3>3, Zenon
        <5> QED
          BY <2>1, <3>3, <5>1, InputGood, SMTT(30)
      <4> HIDE DEF o
      <4> QED
        BY <1>0, <2>1, <4>1 DEF ActiveIds
    <3> QED
      BY <3>2, <3>3, Zenon
  <2>3. ASSUME NEW id \in StreamId, SendFinished(id) \/ StreamReset(id)
        PROVE  Keeps
    <3>1. table' \in Closings(table, id, TableShape.empty)
      BY <2>3, TableShapeOK, Zenon DEF SendFinished, StreamReset, Closings
    <3>2. /\ ActiveSlots(table') \subseteq ActiveSlots(table)
          /\ \A s \in ActiveSlots(table') : table'.ctx[s] = table.ctx[s]
      BY <2>1, <3>1, ClosingGood
    <3> QED
      BY <1>0, <2>1, <3>2, Zenon
  <2> QED
    BY <2>2, <2>3, Zenon DEF Next
<1> QED
  BY <1>1, TableInvariant, PTL DEF Spec, StreamsKeepTheirSlot

----------------------------------------------------------------------------
(* Refinement.                                                             *)

OpenMap(t) ==
    [id \in ActiveIds(t) |-> t.ctx[CHOOSE s \in ActiveSlots(t) : t.ctx[s].id = id].phase]

(* The abstract map at the id of an open slot is that slot's phase.        *)
LEMMA MapAt ==
    ASSUME NEW t, GoodTable(TableShape, t), NEW s \in ActiveSlots(t)
    PROVE  /\ t.ctx[s].id \in ActiveIds(t)
           /\ OpenMap(t)[t.ctx[s].id] = t.ctx[s].phase
<1> DEFINE id == t.ctx[s].id
           c == CHOOSE r \in ActiveSlots(t) : t.ctx[r].id = id
<1>1. id \in ActiveIds(t)
  BY Zenon DEF ActiveIds
<1>2. c \in ActiveSlots(t) /\ t.ctx[c].id = id
  OBVIOUS
<1>3. c = s
  BY <1>2, SlotUnique, Zenon
<1> QED
  BY <1>1, <1>3, Zenon DEF OpenMap

(* As many streams are open as the prefix is long.                         *)
LEMMA OpenCount ==
    ASSUME NEW S, NEW t, GoodTable(S, t)
    PROVE  Cardinality(ActiveIds(t)) = t.num
<1> DEFINE f == [k \in 1 .. t.num |-> t.ctx[t.active[k - 1]].id]
<1>1. t.num \in Nat
  BY CapacityAssumption DEF GoodTable, TableOf, ContextOf
<1>2. \A k \in 1 .. t.num : k - 1 \in Prefix(t)
  BY <1>1 DEF Prefix
<1>3. f \in [1 .. t.num -> ActiveIds(t)]
  BY <1>2, Zenon DEF ActiveIds, ActiveSlots
<1>4. \A j, k \in 1 .. t.num : f[j] = f[k] => j = k
  <2> SUFFICES ASSUME NEW j \in 1 .. t.num, NEW k \in 1 .. t.num, f[j] = f[k]
               PROVE  j = k
    OBVIOUS
  <2>1. j - 1 = k - 1
    BY <1>2, Zenon DEF GoodTable, IdsDistinct
  <2> QED
    BY <1>1, <2>1
<1>5. \A x \in ActiveIds(t) : \E k \in 1 .. t.num : f[k] = x
  <2> TAKE x \in ActiveIds(t)
  <2>1. PICK i \in Prefix(t) : x = t.ctx[t.active[i]].id
    BY Zenon DEF ActiveIds, ActiveSlots
  <2>2. i + 1 \in 1 .. t.num /\ (i + 1) - 1 = i
    BY <1>1, <2>1 DEF Prefix
  <2> QED
    BY <2>1, <2>2, Zenon
<1> HIDE DEF f
<1>6. f \in Bijection(1 .. t.num, ActiveIds(t))
  BY <1>3, <1>4, <1>5, Zenon DEF Bijection, Injection, Surjection, IsInjective
<1>7. ExistsBijection(1 .. t.num, ActiveIds(t))
  BY <1>6, Zenon DEF ExistsBijection
<1> QED
  BY <1>1, <1>7, FS_CountingElements, Zenon

(* The abstract specification counts with the same Cardinality.            *)
LEMMA SameCardinality ==
    ASSUME NEW S
    PROVE  Abstract!Cardinality(S) = Cardinality(S)
  BY Zenon DEF Abstract!Cardinality, Cardinality

(* Every call on the table is the call of the same name on the map of open *)
(* streams, which touches no other stream and refuses one only when        *)
(* Capacity streams are open (find_stream, open_stream, close_stream).     *)
THEOREM Refinement == Spec => ImplementsOpenStreams
<1>0. OpenMap(table) = [id \in ActiveIds(table) |-> table.ctx[SlotOf(id)].phase]
  BY Zenon DEF OpenMap, SlotOf
<1>1. Init => Abstract!Init
  <2> SUFFICES ASSUME Init PROVE Abstract!Init
    OBVIOUS
  <2>1. ActiveIds(table) = {}
    BY DEF Init, connection_init, ActiveIds, ActiveSlots, Prefix
  <2>2. OpenMap(table) = [id \in {} |-> NewPhase]
    BY <2>1, Zenon DEF OpenMap
  <2> QED
    BY <1>0, <2>2, Zenon DEF Init, Abstract!Init
<1>2. TableInv /\ [Next]_vars => [Abstract!Next]_(Abstract!vars)
  <2> SUFFICES ASSUME TableInv, [Next]_vars PROVE [Abstract!Next]_(Abstract!vars)
    OBVIOUS
  <2>1. GoodTable(TableShape, table)
    BY TableShapeOK, Zenon
       DEF GoodTable, TableOf, ContextOf, TableShape, Table, TableInv, TypeOK, SlotsOwned, SlotsSynced, OneContextPerStream
  <2>2. OpenMap(table') = [id \in ActiveIds(table) |-> table.ctx[SlotOf(id)].phase]'
    BY Zenon DEF OpenMap, SlotOf
  <2>3. DOMAIN OpenMap(table) = ActiveIds(table)
    BY Zenon DEF OpenMap
  <2>4. ASSUME NEW id \in StreamId, NEW phase \in PhaseName, StreamInput(id, phase)
        PROVE  Abstract!Touch(id)
    <3> DEFINE o == open_stream(table, id, NewPhase)
    <3>1. table' = IF o.slot = NULL THEN o.table ELSE Advance(o.table, o.slot, id, phase)
      BY <2>4, Zenon DEF StreamInput
    <3>2. call' = [op |-> "input", id |-> id]
      BY <2>4, Zenon DEF StreamInput
    <3>3. CASE o.slot = NULL
      <4>1. table' = table /\ id \notin ActiveIds(table) /\ table.num = Capacity
        BY <2>1, <3>1, <3>3, InputGood, Zenon
      <4>2. ~(id \in ActiveIds(table) \/ Abstract!Cardinality(ActiveIds(table)) < Capacity)
        BY <2>1, <4>1, OpenCount, SameCardinality, CapacityAssumption
      <4>3. OpenMap(table') = OpenMap(table)
        BY <4>1, Zenon
      <4> QED
        BY <1>0, <2>2, <2>3, <3>2, <4>2, <4>3, Zenon DEF Abstract!Touch
    <3>4. CASE o.slot # NULL
      <4>1. /\ id \in ActiveIds(table) \/ table.num < Capacity
            /\ GoodTable(TableShape, table')
            /\ ActiveSlots(table') = ActiveSlots(table) \cup {o.slot}
            /\ table'.ctx[o.slot] = [id |-> id, phase |-> phase, buf |-> id]
            /\ \A s \in ActiveSlots(table) \ {o.slot} : table'.ctx[s] = table.ctx[s]
            /\ o.slot \in ActiveSlots(table) => table.ctx[o.slot].id = id
            /\ id \in ActiveIds(table) => o.slot \in ActiveSlots(table)
        <5>1. table' = Advance(o.table, o.slot, id, phase)
          BY <3>1, <3>4, Zenon
        <5> QED
          BY <2>1, <3>4, <5>1, InputGood, SMTT(30)
      <4> HIDE DEF o
      <4>2. id \in ActiveIds(table) \/ Cardinality(ActiveIds(table)) < Capacity
        BY <2>1, <4>1, OpenCount, Zenon
      <4>3. ActiveIds(table') = ActiveIds(table) \cup {id}
        BY <4>1 DEF ActiveIds
      <4>4. OpenMap(table')[id] = phase
        BY <4>1, MapAt
      <4>5. ASSUME NEW i \in ActiveIds(table), i # id
            PROVE  OpenMap(table')[i] = OpenMap(table)[i]
        <5>1. PICK s \in ActiveSlots(table) : table.ctx[s].id = i
          BY Zenon DEF ActiveIds
        <5>2. s \in ActiveSlots(table') /\ table'.ctx[s] = table.ctx[s]
          BY <4>1, <4>5, <5>1, Zenon
        <5>3. OpenMap(table)[i] = table.ctx[s].phase
          BY <2>1, <5>1, MapAt, Zenon
        <5>4. OpenMap(table')[i] = table'.ctx[s].phase
          BY <4>1, <5>1, <5>2, MapAt
        <5> QED
          BY <5>2, <5>3, <5>4, Zenon
      <4>6. OpenMap(table') = [i \in ActiveIds(table) \cup {id} |->
                                  IF i = id THEN phase ELSE OpenMap(table)[i]]
        <5>1. OpenMap(table') = [i \in ActiveIds(table') |-> OpenMap(table')[i]]
          BY DEF OpenMap
        <5> QED
          BY <4>3, <4>4, <4>5, <5>1, Zenon
      <4> DEFINE open == [i \in ActiveIds(table) |-> table.ctx[SlotOf(i)].phase]
      <4>7. id \in DOMAIN open \/ Abstract!Cardinality(DOMAIN open) < Capacity
        BY <4>2, SameCardinality, Zenon
      <4>8. open' = [i \in DOMAIN open \cup {id} |-> IF i = id THEN phase ELSE open[i]]
        BY <1>0, <2>2, <2>3, <4>6, Zenon
      <4>9. \E state \in PhaseName :
                open' = [i \in DOMAIN open \cup {id} |-> IF i = id THEN state ELSE open[i]]
        BY <4>8, Zenon
      <4> QED
        BY <3>2, <4>7, <4>9, Zenon DEF Abstract!Touch
    <3> QED
      BY <3>3, <3>4, Zenon
  <2>5. ASSUME NEW id \in StreamId, SendFinished(id) \/ StreamReset(id)
        PROVE  Abstract!Drop(id)
    <3>1. table' \in Closings(table, id, TableShape.empty)
      BY <2>5, TableShapeOK, Zenon DEF SendFinished, StreamReset, Closings
    <3>2. call' = [op |-> "close", id |-> id]
      BY <2>5, Zenon DEF SendFinished, StreamReset
    <3>3. /\ GoodTable(TableShape, table')
          /\ ActiveSlots(table') = {s \in ActiveSlots(table) : table.ctx[s].id # id}
          /\ \A s \in ActiveSlots(table') : table'.ctx[s] = table.ctx[s]
      BY <2>1, <3>1, ClosingGood
    <3>4. ActiveIds(table') = ActiveIds(table) \ {id}
      BY <3>3, Zenon DEF ActiveIds
    <3>5. ASSUME NEW i \in ActiveIds(table')
          PROVE  OpenMap(table')[i] = OpenMap(table)[i]
      <4>1. PICK s \in ActiveSlots(table') : table'.ctx[s].id = i
        BY Zenon DEF ActiveIds
      <4>2. s \in ActiveSlots(table) /\ table'.ctx[s] = table.ctx[s]
        BY <3>3, <4>1, Zenon
      <4>3. OpenMap(table')[i] = table'.ctx[s].phase
        BY <3>3, <4>1, MapAt, Zenon
      <4>4. OpenMap(table)[i] = table.ctx[s].phase
        BY <2>1, <4>1, <4>2, MapAt, Zenon
      <4> QED
        BY <4>2, <4>3, <4>4, Zenon
    <3>6. OpenMap(table') = [i \in ActiveIds(table) \ {id} |-> OpenMap(table)[i]]
      <4>1. OpenMap(table') = [i \in ActiveIds(table') |-> OpenMap(table')[i]]
        BY DEF OpenMap
      <4> QED
        BY <3>4, <3>5, <4>1, Zenon
    <3> QED
      BY <1>0, <2>2, <2>3, <3>2, <3>6, Zenon DEF Abstract!Drop, Abstract!Restrict
  <2>6. CASE UNCHANGED vars
    <3>1. OpenMap(table') = OpenMap(table) /\ call' = call
      BY <2>6, Zenon DEF vars
    <3> QED
      BY <1>0, <2>2, <3>1, Zenon DEF Abstract!vars
  <2> QED
    BY <2>4, <2>5, <2>6, Zenon DEF Next, Abstract!Next
<1> QED
  BY <1>1, <1>2, TableInvariant, PTL DEF Spec, ImplementsOpenStreams, Abstract!Spec

----------------------------------------------------------------------------
(* The stable shell and the one on the Pulse adapters.                     *)

StreamContext == [id : Nat, phase : Representable, buf : Buffer]

ConnectionState ==
    [active : [Slot -> Slot], num : Nat, ctx : [Slot -> StreamContext],
     used : [Slot -> BOOLEAN], own : [Slot -> Slot], cap : 0 .. Capacity, based : BOOLEAN]

(* A connection within the adapters' contract.                             *)
Intact(t) ==
    /\ t \in ConnectionState
    /\ t.num <= t.cap /\ t.based
    /\ \A s \in Slot : t.own[s] = s
    /\ PointersDistinct(t)
    /\ FlagsMatchPrefix(t)

(* A connection that the snapshot or the candidate's own checks turn away. *)
Refusing(t) == t.num \in Nat /\ (~snapshot_ok(t) \/ ~descriptor_ok(snapshot(t)))

DifferentialInv ==
    /\ ~corrupt => Intact(old) /\ candidate = old /\ answer.candidate = answer.old
    /\ corrupt => Refusing(candidate)
    /\ corrupt \in BOOLEAN /\ old.cap \in 0 .. Capacity

----------------------------------------------------------------------------
(* Phases.                                                                 *)

LEMMA PhaseFields ==
    ASSUME NEW p \in Representable
    PROVE  /\ p.tag \in {"ReadingLength", "ReadingLengthHigh", "ReadingMessage", "AwaitingFin",
                         "Processing", "Done"}
           /\ p.hi \in Byte /\ p.expected \in 0 .. MaxMessage /\ p.current \in Nat
           /\ p = PhaseRecord(p.tag, p.hi, p.expected, p.current)
           /\ p.tag # "ReadingLengthHigh" => p.hi = 0
           /\ p.tag \notin {"ReadingMessage", "AwaitingFin", "Processing"} => p.expected = 0
           /\ p.tag # "ReadingMessage" => p.current = 0
  BY Zenon DEF Representable, PhaseRecord

(* A representable phase is what its tag's constructor makes.              *)
LEMMA PhaseForms ==
    ASSUME NEW p \in Representable
    PROVE  /\ p.tag = "ReadingLength" => p = ReadingLength
           /\ p.tag = "ReadingLengthHigh" => p = ReadingLengthHigh(p.hi)
           /\ p.tag = "ReadingMessage" => p = ReadingMessage(p.expected, p.current)
           /\ p.tag = "AwaitingFin" => p = AwaitingFin(p.expected)
           /\ p.tag = "Processing" => p = Processing(p.expected)
           /\ p.tag = "Done" => p = Done
  BY PhaseFields, Zenon DEF ReadingLength, ReadingLengthHigh, ReadingMessage, AwaitingFin,
                            Processing, Done

LEMMA PhaseConstructors ==
    /\ ReadingLength \in Representable /\ Done \in Representable
    /\ \A h \in Byte : ReadingLengthHigh(h) \in Representable
    /\ \A e \in 0 .. MaxMessage : AwaitingFin(e) \in Representable /\ Processing(e) \in Representable
    /\ \A e \in 0 .. MaxMessage, c \in Nat : ReadingMessage(e, c) \in Representable
<1>1. 0 \in Byte /\ 0 \in 0 .. MaxMessage /\ 0 \in Nat
  BY FramingConstants, MaxMessageType DEF Byte
<1>2. ReadingLength \in Representable /\ Done \in Representable
  BY <1>1 DEF ReadingLength, Done, PhaseRecord, Representable
<1>3. \A h \in Byte : ReadingLengthHigh(h) \in Representable
  BY <1>1 DEF ReadingLengthHigh, PhaseRecord, Representable
<1>4. \A e \in 0 .. MaxMessage : AwaitingFin(e) \in Representable /\ Processing(e) \in Representable
  BY <1>1 DEF AwaitingFin, Processing, PhaseRecord, Representable
<1>5. \A e \in 0 .. MaxMessage, c \in Nat : ReadingMessage(e, c) \in Representable
  BY <1>1 DEF ReadingMessage, PhaseRecord, Representable
<1> QED
  BY <1>2, <1>3, <1>4, <1>5, Zenon

(* Either side reads from the wire the phase that the shell put there, and *)
(* the candidate's results carry the wire phase and code of the shell.     *)
LEMMA RoundTrip ==
    ASSUME NEW p \in Representable
    PROVE  /\ decodable(phase_to_wire(p)) /\ decode_phase(phase_to_wire(p)).phase = p
           /\ phase_from_wire(phase_to_wire(p)) = p
           /\ encode(p).phase = phase_to_wire(p) /\ encode(p).code = shell_phase_code(p)
<1>1. p.expected <= MaxMessage
  BY PhaseFields, MaxMessageType
<1>2. \A t, h, e, c : LET w == WirePhase(t, h, e, c)
                     IN  w.tag = t /\ w.high = h /\ w.expected = e /\ w.current = c
  BY DEF WirePhase
<1> DEFINE w == phase_to_wire(p)
<1> USE DEF ISM_PULSE_LENGTH, ISM_PULSE_LENGTH_HIGH, ISM_PULSE_BODY, ISM_PULSE_AWAITING_FIN,
            ISM_PULSE_PROCESSING, ISM_PULSE_DONE
<1>3. CASE p.tag = "ReadingLength"
  <2>1. w = WirePhase(ISM_PULSE_LENGTH, 0, 0, 0)
    BY <1>3 DEF phase_to_wire
  <2>2. decode_phase(w) = Decoded(p) /\ phase_from_wire(w) = p
    BY <1>1, <1>2, <1>3, <2>1, PhaseForms DEF decode_phase, phase_from_wire
  <2>3. encode(p) = StreamResult(w, shell_phase_code(p))
    BY <1>3, <2>1 DEF encode, rejected, shell_phase_code
  <2>4. decodable(w) /\ decode_phase(w).phase = p
    BY <2>2 DEF decodable, Decoded
  <2>5. encode(p).phase = w /\ encode(p).code = shell_phase_code(p)
    BY <2>3 DEF StreamResult
  <2> QED
    BY <2>2, <2>4, <2>5, Zenon
<1>4. CASE p.tag = "ReadingLengthHigh"
  <2>1. w = WirePhase(ISM_PULSE_LENGTH_HIGH, p.hi, 0, 0)
    BY <1>4 DEF phase_to_wire
  <2>2. decode_phase(w) = Decoded(p) /\ phase_from_wire(w) = p
    BY <1>1, <1>2, <1>4, <2>1, PhaseForms DEF decode_phase, phase_from_wire
  <2>3. encode(p) = StreamResult(w, shell_phase_code(p))
    BY <1>4, <2>1 DEF encode, rejected, shell_phase_code
  <2>4. decodable(w) /\ decode_phase(w).phase = p
    BY <2>2 DEF decodable, Decoded
  <2>5. encode(p).phase = w /\ encode(p).code = shell_phase_code(p)
    BY <2>3 DEF StreamResult
  <2> QED
    BY <2>2, <2>4, <2>5, Zenon
<1>5. CASE p.tag = "ReadingMessage"
  <2>1. w = WirePhase(ISM_PULSE_BODY, 0, p.expected, p.current)
    BY <1>5 DEF phase_to_wire
  <2>2. decode_phase(w) = Decoded(p) /\ phase_from_wire(w) = p
    BY <1>1, <1>2, <1>5, <2>1, PhaseForms DEF decode_phase, phase_from_wire
  <2>3. encode(p) = StreamResult(w, shell_phase_code(p))
    BY <1>5, <2>1 DEF encode, rejected, shell_phase_code
  <2>4. decodable(w) /\ decode_phase(w).phase = p
    BY <2>2 DEF decodable, Decoded
  <2>5. encode(p).phase = w /\ encode(p).code = shell_phase_code(p)
    BY <2>3 DEF StreamResult
  <2> QED
    BY <2>2, <2>4, <2>5, Zenon
<1>6. CASE p.tag = "AwaitingFin"
  <2>1. w = WirePhase(ISM_PULSE_AWAITING_FIN, 0, p.expected, 0)
    BY <1>6 DEF phase_to_wire
  <2>2. decode_phase(w) = Decoded(p) /\ phase_from_wire(w) = p
    BY <1>1, <1>2, <1>6, <2>1, PhaseForms DEF decode_phase, phase_from_wire
  <2>3. encode(p) = StreamResult(w, shell_phase_code(p))
    BY <1>6, <2>1 DEF encode, rejected, shell_phase_code
  <2>4. decodable(w) /\ decode_phase(w).phase = p
    BY <2>2 DEF decodable, Decoded
  <2>5. encode(p).phase = w /\ encode(p).code = shell_phase_code(p)
    BY <2>3 DEF StreamResult
  <2> QED
    BY <2>2, <2>4, <2>5, Zenon
<1>7. CASE p.tag = "Processing"
  <2>1. w = WirePhase(ISM_PULSE_PROCESSING, 0, p.expected, 0)
    BY <1>7 DEF phase_to_wire
  <2>2. decode_phase(w) = Decoded(p) /\ phase_from_wire(w) = p
    BY <1>1, <1>2, <1>7, <2>1, PhaseForms DEF decode_phase, phase_from_wire
  <2>3. encode(p) = StreamResult(w, shell_phase_code(p))
    BY <1>7, <2>1 DEF encode, rejected, shell_phase_code
  <2>4. decodable(w) /\ decode_phase(w).phase = p
    BY <2>2 DEF decodable, Decoded
  <2>5. encode(p).phase = w /\ encode(p).code = shell_phase_code(p)
    BY <2>3 DEF StreamResult
  <2> QED
    BY <2>2, <2>4, <2>5, Zenon
<1>8. CASE p.tag = "Done"
  <2>1. w = WirePhase(ISM_PULSE_DONE, 0, 0, 0)
    BY <1>8 DEF phase_to_wire
  <2>2. decode_phase(w) = Decoded(p) /\ phase_from_wire(w) = p
    BY <1>1, <1>2, <1>8, <2>1, PhaseForms DEF decode_phase, phase_from_wire
  <2>3. encode(p) = StreamResult(w, shell_phase_code(p))
    BY <1>8, <2>1 DEF encode, rejected, shell_phase_code
  <2>4. decodable(w) /\ decode_phase(w).phase = p
    BY <2>2 DEF decodable, Decoded
  <2>5. encode(p).phase = w /\ encode(p).code = shell_phase_code(p)
    BY <2>3 DEF StreamResult
  <2> QED
    BY <2>2, <2>4, <2>5, Zenon
<1> QED
  BY <1>3, <1>4, <1>5, <1>6, <1>7, <1>8, PhaseFields, Zenon

(* The length check keeps a phase representable.                           *)
LEMMA CheckedRepresentable ==
    ASSUME NEW e \in 0 .. MaxMessage, NEW c \in Nat, NEW k \in Nat
    PROVE  advance_message_checked(e, c, k) \in Representable
<1>1. c + k \in Nat
  OBVIOUS
<1>2. AwaitingFin(e) \in Representable /\ ReadingMessage(e, c + k) \in Representable
  BY <1>1, PhaseConstructors, Zenon
<1> QED
  BY <1>2, PhaseConstructors, Zenon DEF advance_message_checked, advance_message

LEMMA FragmentRepresentable ==
    ASSUME NEW p \in Representable, NEW n \in Nat, NEW first \in Byte, NEW second \in Byte
    PROVE  fragment_phase(p, n, first, second) \in Representable
<1>1. /\ p.hi \in Byte /\ p.expected \in 0 .. MaxMessage /\ p.current \in Nat
      /\ p.tag \in {"ReadingLength", "ReadingLengthHigh", "ReadingMessage", "AwaitingFin",
                    "Processing", "Done"}
  BY PhaseFields, Zenon
<1>2. CASE p.tag = "ReadingLengthHigh" /\ n >= 1
  <2>1. u32_from_be_u16_bytes(p.hi, first) \in 0 .. MaxMessage /\ n - 1 \in Nat
    BY <1>1, <1>2, PrefixRange
  <2>2. fragment_phase(p, n, first, second)
            = advance_message_checked(u32_from_be_u16_bytes(p.hi, first), 0, n - 1)
    BY <1>2, Zenon DEF fragment_phase
  <2> QED
    BY <2>1, <2>2, CheckedRepresentable, Zenon
<1>3. CASE p.tag = "ReadingLength" /\ n >= 2
  <2>1. u32_from_be_u16_bytes(first, second) \in 0 .. MaxMessage /\ n - 2 \in Nat
    BY <1>3, PrefixRange
  <2>2. fragment_phase(p, n, first, second)
            = advance_message_checked(u32_from_be_u16_bytes(first, second), 0, n - 2)
    BY <1>3, Zenon DEF fragment_phase
  <2> QED
    BY <2>1, <2>2, CheckedRepresentable, Zenon
<1>4. CASE p.tag = "ReadingLength" /\ n = 1
  <2>1. fragment_phase(p, n, first, second) = ReadingLengthHigh(first)
    BY <1>4 DEF fragment_phase
  <2> QED
    BY <2>1, PhaseConstructors, Zenon
<1>5. CASE p.tag = "ReadingMessage"
  <2>1. fragment_phase(p, n, first, second)
            = advance_message_checked(p.expected, p.current, n)
    BY <1>5, Zenon DEF fragment_phase, advance_body_phase
  <2> QED
    BY <1>1, <2>1, CheckedRepresentable, Zenon
<1>6. CASE \/ p.tag = "ReadingLengthHigh" /\ ~(n >= 1)
           \/ p.tag = "ReadingLength" /\ ~(n >= 2) /\ n # 1
           \/ p.tag \in {"AwaitingFin", "Processing", "Done"}
  <2>1. fragment_phase(p, n, first, second) \in {p, Done}
    BY <1>6, Zenon DEF fragment_phase, advance_body_phase
  <2> QED
    BY <2>1, PhaseConstructors, Zenon
<1> QED
  BY <1>1, <1>2, <1>3, <1>4, <1>5, <1>6, Zenon

LEMMA FinRepresentable ==
    ASSUME NEW p \in Representable, NEW hi, NEW lo
    PROVE  finish_doq_phase(p, hi, lo) \in Representable
<1>1. finish_doq_phase(p, hi, lo) \in {Processing(p.expected), p, Done}
  BY Zenon DEF finish_doq_phase, finish_stream_phase
<1>2. Processing(p.expected) \in Representable
  BY PhaseFields, PhaseConstructors, Zenon
<1> QED
  BY <1>1, <1>2, PhaseConstructors, Zenon

(* The copied range lies in the fragment, also in a phase whose lengths do *)
(* not go together.                                                        *)
LEMMA RepresentablePlan ==
    ASSUME NEW p \in Representable, NEW n \in Nat, NEW first \in Byte, NEW second \in Byte
    PROVE  LET plan == fragment_copy_plan(p, n, first, second)
           IN  /\ plan.source \in Nat /\ plan.destination \in Nat /\ plan.count \in Nat
               /\ plan.source + plan.count <= n
<1>1. p.hi \in Byte /\ p.expected \in Nat /\ p.current \in Nat
  BY PhaseFields, MaxMessageType
<1>2. CASE p.tag = "ReadingLengthHigh" /\ n >= 1
  <2>1. u32_from_be_u16_bytes(p.hi, first) \in Nat
    BY <1>1, PrefixRange, MaxMessageType
  <2> QED
    BY <1>2, <2>1 DEF fragment_copy_plan, CopyPlan, bounded_copy_len
<1>3. CASE p.tag = "ReadingLength" /\ n >= 2
  <2>1. u32_from_be_u16_bytes(first, second) \in Nat
    BY PrefixRange, MaxMessageType
  <2> QED
    BY <1>3, <2>1 DEF fragment_copy_plan, CopyPlan, bounded_copy_len
<1>4. CASE p.tag = "ReadingMessage" /\ p.current < p.expected
  BY <1>1, <1>4 DEF fragment_copy_plan, CopyPlan, bounded_copy_len, remaining_message
<1>5. CASE /\ ~(p.tag = "ReadingLengthHigh" /\ n >= 1)
           /\ ~(p.tag = "ReadingLength" /\ n >= 2)
           /\ ~(p.tag = "ReadingMessage" /\ p.current < p.expected)
  BY <1>5 DEF fragment_copy_plan, CopyPlan
<1> QED
  BY <1>2, <1>3, <1>4, <1>5, Zenon

----------------------------------------------------------------------------
(* Stream ingress: on a representable context the adapter returns what the *)
(* stable handler does.                                                    *)

LEMMA DataHandled ==
    ASSUME NEW cx \in StreamContext, NEW d \in Seq(Byte),
           NEW r, r = handle_stream_data(cx, d)
    PROVE  /\ r \in StreamContext /\ r.id = cx.id
           /\ r = [cx EXCEPT !.phase = r.phase, !.buf = r.buf]
<1> DEFINE phase == fragment_phase(cx.phase, Len(d), ByteAt(d, 1), ByteAt(d, 2))
           plan == fragment_copy_plan(cx.phase, Len(d), ByteAt(d, 1), ByteAt(d, 2))
           buf == copied_bytes(cx.buf, d, plan)
<1>1. Len(d) \in Nat /\ ByteAt(d, 1) \in Byte /\ ByteAt(d, 2) \in Byte
  <2>1. 0 \in Byte
    BY FramingConstants DEF Byte
  <2> QED
    BY <2>1 DEF ByteAt
<1>2. cx.phase \in Representable /\ cx.buf \in Buffer /\ cx.id \in Nat
  BY Zenon DEF StreamContext
<1>3. phase \in Representable
  BY <1>1, <1>2, FragmentRepresentable, Zenon
<1>4. buf \in Buffer
  <2>1. /\ plan.source \in Nat /\ plan.destination \in Nat /\ plan.count \in Nat
        /\ plan.source + plan.count <= Len(d)
    BY <1>1, <1>2, RepresentablePlan, Zenon
  <2> HIDE DEF plan
  <2> QED
    BY <1>2, <2>1, CopyType, Zenon
<1>5. r = [cx EXCEPT !.phase = phase, !.buf = buf]
  BY Zenon DEF handle_stream_data
<1> HIDE DEF phase, buf
<1> QED
  BY <1>2, <1>3, <1>4, <1>5, Zenon DEF StreamContext

LEMMA FinHandled ==
    ASSUME NEW cx \in StreamContext, NEW r, r = handle_stream_fin(cx)
    PROVE  /\ r \in StreamContext /\ r.id = cx.id
           /\ r = [cx EXCEPT !.phase = r.phase, !.buf = cx.buf]
<1> DEFINE phase == finish_doq_phase(cx.phase, cx.buf[0], cx.buf[1])
<1>1. phase \in Representable
  BY FinRepresentable, Zenon DEF StreamContext
<1>2. r = [cx EXCEPT !.phase = phase]
  BY Zenon DEF handle_stream_fin
<1> HIDE DEF phase
<1> QED
  BY <1>1, <1>2, Zenon DEF StreamContext

LEMMA DataAgrees ==
    ASSUME NEW cx \in StreamContext, NEW d \in Seq(Byte)
    PROVE  ism_pulse_ingress_data(cx, cx.id, d) = LegacyResult(handle_stream_data(cx, d))
<1> DEFINE r == handle_stream_data(cx, d)
           view == [phase |-> cx.phase, buf |-> cx.buf]
           v == handle_stream_data(view, d)
<1>1. cx.phase \in Representable
  BY Zenon DEF StreamContext
<1>2. /\ decodable(phase_to_wire(cx.phase))
      /\ decode_phase(phase_to_wire(cx.phase)).phase = cx.phase
  BY <1>1, RoundTrip, Zenon
<1>3. v.phase = r.phase /\ v.buf = r.buf
  <2> DEFINE phase == fragment_phase(cx.phase, Len(d), ByteAt(d, 1), ByteAt(d, 2))
             buf == copied_bytes(cx.buf, d, fragment_copy_plan(cx.phase, Len(d), ByteAt(d, 1),
                                                                ByteAt(d, 2)))
  <2>1. view.phase = cx.phase /\ view.buf = cx.buf
    OBVIOUS
  <2> HIDE DEF view
  <2>2. /\ r = [cx EXCEPT !.phase = phase, !.buf = buf]
        /\ v = [view EXCEPT !.phase = phase, !.buf = buf]
    BY <2>1, Zenon DEF handle_stream_data
  <2> HIDE DEF phase, buf, r, v
  <2> QED
    BY <2>2, Zenon DEF StreamContext, view
<1>4. r.phase \in Representable /\ r = [cx EXCEPT !.phase = r.phase, !.buf = r.buf]
  <2>1. r \in StreamContext /\ r = [cx EXCEPT !.phase = r.phase, !.buf = r.buf]
    BY DataHandled, Zenon
  <2> HIDE DEF r
  <2> QED
    BY <2>1, Zenon DEF StreamContext
<1> HIDE DEF r, v
<1>5. ism_pulse_stream_data(phase_to_wire(cx.phase), cx.buf, d, TRUE)
          = [result |-> encode(r.phase), buf |-> r.buf]
  BY <1>2, <1>3, Zenon DEF ism_pulse_stream_data, v
<1>6. phase_from_wire(phase_to_wire(r.phase)) = r.phase
  BY <1>4, RoundTrip, Zenon
<1>7. ism_pulse_ingress_data(cx, cx.id, d)
          = [ctx |-> [cx EXCEPT !.phase = r.phase, !.buf = r.buf],
             code |-> shell_phase_code(r.phase)]
  <2>1. ism_pulse_ingress_data(cx, cx.id, d)
            = Ingested(cx, [result |-> encode(r.phase), buf |-> r.buf])
    BY <1>5, Zenon DEF ism_pulse_ingress_data
  <2>2. Ingested(cx, [result |-> encode(r.phase), buf |-> r.buf])
            = IngressResult(cx, encode(r.phase), r.buf)
    BY Zenon DEF Ingested
  <2>3. /\ encode(r.phase).phase = phase_to_wire(r.phase)
        /\ encode(r.phase).code = shell_phase_code(r.phase)
    BY <1>4, RoundTrip, Zenon
  <2> QED
    BY <1>6, <2>1, <2>2, <2>3, Zenon DEF IngressResult
<1> QED
  BY <1>4, <1>7, Zenon DEF LegacyResult, r

LEMMA FinAgrees ==
    ASSUME NEW cx \in StreamContext
    PROVE  ism_pulse_ingress_fin(cx) = LegacyResult(handle_stream_fin(cx))
<1> DEFINE r == handle_stream_fin(cx)
           v == handle_stream_fin([phase |-> cx.phase, buf |-> cx.buf])
<1>1. cx.phase \in Representable
  BY Zenon DEF StreamContext
<1>2. /\ decodable(phase_to_wire(cx.phase))
      /\ decode_phase(phase_to_wire(cx.phase)).phase = cx.phase
  BY <1>1, RoundTrip, Zenon
<1>3. v.phase = r.phase
  BY Zenon DEF handle_stream_fin, StreamContext
<1>4. r.phase \in Representable /\ r = [cx EXCEPT !.phase = r.phase, !.buf = cx.buf]
  <2>1. r \in StreamContext /\ r = [cx EXCEPT !.phase = r.phase, !.buf = cx.buf]
    BY FinHandled, Zenon
  <2> HIDE DEF r
  <2> QED
    BY <2>1, Zenon DEF StreamContext
<1> HIDE DEF r
<1>5. ism_pulse_stream_fin(phase_to_wire(cx.phase), cx.buf) = encode(r.phase)
  BY <1>2, <1>3, Zenon DEF ism_pulse_stream_fin
<1>6. phase_from_wire(phase_to_wire(r.phase)) = r.phase
  BY <1>4, RoundTrip, Zenon
<1>7. ism_pulse_ingress_fin(cx)
          = [ctx |-> [cx EXCEPT !.phase = r.phase, !.buf = cx.buf],
             code |-> shell_phase_code(r.phase)]
  <2>1. ism_pulse_ingress_fin(cx) = IngressResult(cx, encode(r.phase), cx.buf)
    BY <1>5, Zenon DEF ism_pulse_ingress_fin
  <2>2. /\ encode(r.phase).phase = phase_to_wire(r.phase)
        /\ encode(r.phase).code = shell_phase_code(r.phase)
    BY <1>4, RoundTrip, Zenon
  <2> QED
    BY <1>6, <2>1, <2>2, Zenon DEF IngressResult
<1> QED
  BY <1>4, <1>7, Zenon DEF LegacyResult, r

----------------------------------------------------------------------------
(* Descriptors.                                                            *)

LEMMA IntactTypes ==
    ASSUME NEW t, Intact(t)
    PROVE  /\ t.active \in [Slot -> Slot] /\ t.num \in Nat /\ t.ctx \in [Slot -> StreamContext]
           /\ t.used \in [Slot -> BOOLEAN] /\ t.cap \in 0 .. Capacity /\ t.num <= t.cap
           /\ Capacity \in Nat \ {0} /\ Slot \subseteq Nat
           /\ Prefix(t) \subseteq Slot /\ ActiveSlots(t) \subseteq Slot
           /\ t.num < t.cap => t.num \in Slot
<1>1. /\ t.active \in [Slot -> Slot] /\ t.num \in Nat /\ t.ctx \in [Slot -> StreamContext]
      /\ t.used \in [Slot -> BOOLEAN] /\ t.cap \in 0 .. Capacity /\ t.num <= t.cap
  BY Zenon DEF Intact, ConnectionState
<1>2. Capacity \in Nat \ {0} /\ Slot \subseteq Nat
  BY CapacityAssumption DEF Slot
<1>3. Prefix(t) \subseteq Slot /\ (t.num < t.cap => t.num \in Slot)
  BY <1>1, <1>2 DEF Prefix, Slot
<1>4. ActiveSlots(t) \subseteq Slot
  BY <1>1, <1>3, Zenon DEF ActiveSlots
<1> QED
  BY <1>1, <1>2, <1>3, <1>4, Zenon

(* The first position that matches is one.                                 *)
LEMMA FirstMatches ==
    ASSUME NEW t, Intact(t), NEW id, Matches(t, id) # {}
    PROVE  /\ FirstMatch(t, id) \in Prefix(t) /\ FirstMatch(t, id) \in Slot
           /\ t.active[FirstMatch(t, id)] \in ActiveSlots(t)
           /\ t.active[FirstMatch(t, id)] \in Slot /\ t.active[FirstMatch(t, id)] # NULL
           /\ t.ctx[t.active[FirstMatch(t, id)]].id = id
<1>1. Matches(t, id) \in SUBSET Nat
  BY IntactTypes, Zenon DEF Matches
<1>2. \E i \in Matches(t, id) : \A j \in Matches(t, id) : i <= j
  BY <1>1, LeastNatural, Zenon
<1>3. FirstMatch(t, id) \in Matches(t, id)
  BY <1>2, Zenon DEF FirstMatch
<1>4. FirstMatch(t, id) \in Prefix(t) /\ t.ctx[t.active[FirstMatch(t, id)]].id = id
  BY <1>3, Zenon DEF Matches
<1>5. t.active[FirstMatch(t, id)] \in ActiveSlots(t)
  BY <1>4, Zenon DEF ActiveSlots
<1> QED
  BY <1>4, <1>5, IntactTypes DEF NULL

(* An intact connection passes both checks, and its descriptor says what   *)
(* the connection does.                                                    *)
LEMMA Snapshot ==
    ASSUME NEW t, Intact(t), NEW w, w = snapshot(t)
    PROVE  /\ snapshot_ok(t) /\ descriptor_ok(w)
           /\ w.order = t.active /\ w.count = t.num /\ w.capacity = t.cap
           /\ Active(w) = Prefix(t)
           /\ \A s \in Slot : w.slot[s].id = t.ctx[s].id
<1> DEFINE Entry(s) == [id |-> t.ctx[s].id, phase |-> phase_to_wire(t.ctx[s].phase),
                        message |-> s, message_capacity |-> MaxMessage]
<1>1. /\ w.order = t.active /\ w.count = t.num /\ w.capacity = t.cap
      /\ \A s \in Slot : w.slot[s] = Entry(s)
  BY Zenon DEF snapshot
<1>2. snapshot_ok(t)
  <2>1. t.cap <= Capacity /\ \A i \in Slot : t.active[i] \in Slot
    BY IntactTypes
  <2> QED
    BY <2>1, Zenon DEF snapshot_ok, Intact
<1>3. \A s \in Slot : /\ w.slot[s].id = t.ctx[s].id /\ w.slot[s].message = s
                      /\ w.slot[s].message_capacity = MaxMessage
                      /\ w.slot[s].phase = phase_to_wire(t.ctx[s].phase)
  <2>1. \A s : /\ Entry(s).id = t.ctx[s].id /\ Entry(s).message = s
               /\ Entry(s).message_capacity = MaxMessage
               /\ Entry(s).phase = phase_to_wire(t.ctx[s].phase)
    OBVIOUS
  <2> HIDE DEF Entry
  <2> QED
    BY <1>1, <2>1, Zenon
<1>4. \A s \in Slot : decodable(w.slot[s].phase)
  <2> TAKE s \in Slot
  <2>1. t.ctx[s].phase \in Representable
    BY IntactTypes, Zenon DEF StreamContext
  <2> QED
    BY <1>3, <2>1, RoundTrip, Zenon
<1>5. OrderDistinct(w)
  BY <1>1 DEF OrderDistinct, Intact, PointersDistinct
<1>6. \A s \in Slot : w.order[s] \in Slot /\ s # NULL
  BY <1>1, IntactTypes DEF NULL
<1>7. w.count <= w.capacity /\ w.capacity <= Capacity /\ MaxMessage >= MaxMessage
  BY <1>1, IntactTypes, MaxMessageType
<1>8. descriptor_ok(w)
  BY <1>3, <1>4, <1>5, <1>6, <1>7, Zenon DEF descriptor_ok
<1>9. Active(w) = Prefix(t)
  BY <1>1, Zenon DEF Active, Prefix
<1> QED
  BY <1>1, <1>2, <1>3, <1>8, <1>9, Zenon

(* Both tables look up an id the same way.                                 *)
LEMMA SameMatches ==
    ASSUME NEW t, Intact(t), NEW w, w = snapshot(t), NEW id
    PROVE  Hits(w, id) = Matches(t, id) /\ FirstHit(w, id) = FirstMatch(t, id)
<1>1. \A i \in Prefix(t) : w.slot[w.order[i]].id = t.ctx[t.active[i]].id
  BY Snapshot, IntactTypes
<1>2. Hits(w, id) = Matches(t, id)
  BY <1>1, Snapshot DEF Hits, Matches
<1> QED
  BY <1>2, Zenon DEF FirstHit, FirstMatch

----------------------------------------------------------------------------
(* The calls on an intact connection.                                      *)

LEMMA FindAgrees ==
    ASSUME NEW t, Intact(t), NEW id
    PROVE  ism_pulse_table_find(t, id) = find_stream(t, id)
<1> DEFINE w == snapshot(t)
<1>1. /\ snapshot_ok(t) /\ descriptor_ok(w) /\ w.order = t.active /\ w.count = t.num
      /\ Active(w) = Prefix(t)
  BY Snapshot, Zenon
<1>2. Hits(w, id) = Matches(t, id) /\ FirstHit(w, id) = FirstMatch(t, id)
  BY SameMatches, Zenon
<1> HIDE DEF w
<1>3. ism_pulse_table_find(t, id) = FoundAt(t, w, find_index(w, id))
  BY <1>1, Zenon DEF ism_pulse_table_find, table_find, w
<1>4. CASE Matches(t, id) = {}
  <2>1. t.num \notin Prefix(t)
    BY IntactTypes DEF Prefix
  <2> QED
    BY <1>1, <1>2, <1>3, <1>4, <2>1, Zenon DEF FoundAt, find_index, find_stream
<1>5. CASE Matches(t, id) # {}
  BY <1>1, <1>2, <1>3, <1>5, FirstMatches DEF FoundAt, find_index, find_stream
<1> QED
  BY <1>4, <1>5, Zenon

(* The new stream's table: the first free slot is put to use.              *)
Grown(t, id) ==
    [t EXCEPT !.ctx  = [t.ctx EXCEPT ![t.active[t.num]] =
                          [@ EXCEPT !.id = id, !.phase = ReadingLength]],
              !.used = [t.used EXCEPT ![t.active[t.num]] = TRUE],
              !.num  = t.num + 1]

(* The slot after the prefix is free.                                      *)
LEMMA FreeAfterPrefix ==
    ASSUME NEW t, Intact(t), t.num < t.cap
    PROVE  /\ t.active[t.num] \in Slot /\ t.active[t.num] \notin ActiveSlots(t)
           /\ ~t.used[t.active[t.num]] /\ t.active[t.num] # NULL
<1>1. t.num \in Slot /\ t.active[t.num] \in Slot
  BY IntactTypes
<1>2. t.num \notin Prefix(t) /\ Prefix(t) \subseteq Slot
  BY IntactTypes DEF Prefix
<1>3. t.active[t.num] \notin ActiveSlots(t)
  BY <1>1, <1>2, Zenon DEF Intact, PointersDistinct, ActiveSlots
<1>4. ~t.used[t.active[t.num]]
  BY <1>1, <1>3, Zenon DEF Intact, FlagsMatchPrefix
<1> QED
  BY <1>1, <1>3, <1>4, IntactTypes DEF NULL

LEMMA LegacyOpen ==
    ASSUME NEW t, Intact(t), NEW id, NEW r, r = legacy_open(t, id)
    PROVE  /\ Matches(t, id) # {} => r = [table |-> t, slot |-> t.active[FirstMatch(t, id)]]
           /\ Matches(t, id) = {} /\ t.num >= t.cap => r = NotOpened(t)
           /\ Matches(t, id) = {} /\ t.num < t.cap =>
                  r = [table |-> Grown(t, id), slot |-> t.active[t.num]]
<1>1. CASE Matches(t, id) # {}
  <2>1. find_stream(t, id) = t.active[FirstMatch(t, id)] /\ find_stream(t, id) # NULL
    BY <1>1, FirstMatches, Zenon DEF find_stream
  <2> QED
    BY <1>1, <2>1, Zenon DEF legacy_open, open_stream
<1>2. CASE Matches(t, id) = {} /\ t.num >= t.cap
  <2>1. find_stream(t, id) = NULL /\ ~(t.num < t.cap)
    BY <1>2, IntactTypes DEF find_stream
  <2> QED
    BY <1>2, <2>1, Zenon DEF legacy_open
<1>3. CASE Matches(t, id) = {} /\ t.num < t.cap
  <2>1. find_stream(t, id) = NULL /\ ~(t.num >= t.cap) /\ ~(t.num >= Capacity)
    BY <1>3, IntactTypes DEF find_stream
  <2>2. ~t.used[t.active[t.num]]
    BY <1>3, FreeAfterPrefix, Zenon
  <2>3. legacy_open(t, id) = open_free_slot(t, id, ReadingLength)
    BY <2>1, Zenon DEF legacy_open, open_stream
  <2>4. open_free_slot(t, id, ReadingLength)
            = [table |-> Grown(t, id), slot |-> t.active[t.num]]
    BY <2>1, <2>2, Zenon DEF open_free_slot, Grown
  <2> QED
    BY <1>3, <2>1, <2>3, <2>4, Zenon
<1> QED
  BY <1>1, <1>2, <1>3, Zenon

LEMMA OpenAgrees ==
    ASSUME NEW t, Intact(t), NEW id
    PROVE  ism_pulse_table_open(t, id) = legacy_open(t, id)
<1> DEFINE w == snapshot(t)
           index == table_find(w, id)
<1>1. /\ snapshot_ok(t) /\ descriptor_ok(w) /\ w.order = t.active /\ w.count = t.num
      /\ w.capacity = t.cap /\ Active(w) = Prefix(t)
  BY Snapshot, Zenon
<1>2. Hits(w, id) = Matches(t, id) /\ FirstHit(w, id) = FirstMatch(t, id)
  BY SameMatches, Zenon
<1>3. ism_pulse_table_open(t, id) = OpenedAt(t, w, id, index)
  BY <1>1, Zenon DEF ism_pulse_table_open
<1>4. index = find_index(w, id)
  BY <1>1, Zenon DEF table_find
<1>5. w = snapshot(t)
  OBVIOUS
<1> HIDE DEF w, index
<1>6. CASE Matches(t, id) # {}
  <2>1. index = FirstMatch(t, id) /\ index \in Prefix(t) /\ index # INVALID
    BY <1>2, <1>4, <1>6, FirstMatches, IntactTypes DEF find_index, INVALID
  <2>2. OpenedAt(t, w, id, index) = [table |-> t, slot |-> w.order[index]]
    BY <1>1, <2>1, Zenon DEF OpenedAt
  <2> QED
    BY <1>1, <1>3, <1>6, <2>1, <2>2, LegacyOpen, Zenon
<1>7. CASE Matches(t, id) = {}
  <2>1. index = t.num /\ index \notin Prefix(t) /\ index # INVALID
    BY <1>1, <1>2, <1>4, <1>7, IntactTypes DEF find_index, INVALID, Prefix
  <2>2. OpenedAt(t, w, id, index)
            = AllocatedIf(t, pulse_allocate(w, id, WirePhase(ISM_PULSE_LENGTH, 0, 0, 0)))
    BY <1>1, <2>1, Zenon DEF OpenedAt, table_allocate
  <2>3. CASE t.num >= t.cap
    <3>1. pulse_allocate(w, id, WirePhase(ISM_PULSE_LENGTH, 0, 0, 0)) = [w |-> w, result |-> t.cap]
      BY <1>1, <2>3, Zenon DEF pulse_allocate
    <3>2. AllocatedIf(t, [w |-> w, result |-> t.cap]) = NotOpened(t)
      BY <1>1, IntactTypes DEF AllocatedIf
    <3> QED
      BY <1>3, <1>7, <2>2, <2>3, <3>1, <3>2, LegacyOpen
  <2>4. CASE t.num < t.cap
    <3> DEFINE free == t.active[t.num]
               onwire == WirePhase(ISM_PULSE_LENGTH, 0, 0, 0)
               entry == [w.slot[free] EXCEPT !.id = id, !.phase = onwire]
               r == pulse_allocate(w, id, onwire)
    <3>1. free \in Slot /\ ~(t.num >= t.cap) /\ t.num \in 0 .. t.cap - 1
      BY <2>4, FreeAfterPrefix, IntactTypes
    <3>2. r = [w |-> [w EXCEPT !.slot = [w.slot EXCEPT ![free] = entry], !.count = t.num + 1],
               result |-> t.num]
      BY <1>1, <1>2, <1>7, <3>1, Zenon DEF pulse_allocate
    <3>3. DOMAIN w.slot = Slot
      BY <1>5, Zenon DEF snapshot
    <3>4. "id" \in DOMAIN w.slot[free] /\ "phase" \in DOMAIN w.slot[free]
      BY <1>5, <3>1, Zenon DEF snapshot
    <3>5. entry.id = id /\ entry.phase = onwire
      BY <3>4, Zenon
    <3>6. DOMAIN w = {"order", "slot", "count", "capacity"}
      BY <1>5, Zenon DEF snapshot
    <3> HIDE DEF free, onwire, entry, r
    <3>7. /\ r.result = t.num /\ r.w.count = t.num + 1 /\ r.w.order = t.active
          /\ r.w.capacity = t.cap /\ r.w.slot[free] = entry
      BY <1>1, <3>1, <3>2, <3>3, <3>6, Zenon
    <3>8. phase_from_wire(onwire) = ReadingLength
      BY DEF onwire, phase_from_wire, WirePhase, ISM_PULSE_LENGTH, ISM_PULSE_LENGTH_HIGH,
             ISM_PULSE_BODY, ISM_PULSE_AWAITING_FIN, ISM_PULSE_PROCESSING
    <3>9. AllocatedIf(t, r) = Allocated(t, r.w, free)
      BY <3>1, <3>7, Zenon DEF AllocatedIf, free
    <3>10. Allocated(t, r.w, free) = [table |-> Grown(t, id), slot |-> free]
      BY <3>5, <3>7, <3>8, Zenon DEF Allocated, Grown, free
    <3> QED
      BY <1>3, <1>7, <2>2, <2>4, <3>9, <3>10, LegacyOpen, Zenon DEF r, onwire, free
  <2> QED
    BY <2>3, <2>4, IntactTypes
<1> QED
  BY <1>6, <1>7, Zenon

LEMMA CloseAgrees ==
    ASSUME NEW t, Intact(t), NEW id
    PROVE  ism_pulse_table_close(t, id) = [table |-> close_stream(t, id), result |-> 1]
<1> DEFINE w == snapshot(t)
           i == FirstMatch(t, id)
<1>1. /\ snapshot_ok(t) /\ descriptor_ok(w) /\ w.order = t.active /\ w.count = t.num
  BY Snapshot, Zenon
<1>2. Hits(w, id) = Matches(t, id) /\ FirstHit(w, id) = FirstMatch(t, id)
  BY SameMatches, Zenon
<1>3. ism_pulse_table_close(t, id) = ClosedWith(t, table_close(w, id))
  BY <1>1, Zenon DEF ism_pulse_table_close
<1>4. DOMAIN w = {"order", "slot", "count", "capacity"}
  BY Zenon DEF snapshot
<1> HIDE DEF w
<1>5. CASE Matches(t, id) = {}
  <2>1. table_close(w, id) = [w |-> w, result |-> 0]
    BY <1>1, <1>2, <1>5, Zenon DEF table_close, pulse_close
  <2>2. ClosedWith(t, [w |-> w, result |-> 0]) = [table |-> t, result |-> 1]
    BY DEF ClosedWith, INVALID
  <2> QED
    BY <1>3, <1>5, <2>1, <2>2, Zenon DEF close_stream
<1>6. CASE Matches(t, id) # {}
  <2> DEFINE v == close_index(w, i)
             order == [t.active EXCEPT ![i] = t.active[t.num - 1],
                                       ![t.num - 1] = t.active[i]]
  <2>1. table_close(w, id) = [w |-> v, result |-> 1]
    BY <1>1, <1>2, <1>6, Zenon DEF table_close, pulse_close
  <2>2. v = [w EXCEPT !.order = order, !.count = t.num - 1]
    BY <1>1, Zenon DEF close_index
  <2> HIDE DEF v, order
  <2>3. v.order = order /\ v.count = t.num - 1
    BY <1>4, <2>2, Zenon
  <2>4. ClosedWith(t, [w |-> v, result |-> 1])
            = [table |-> [t EXCEPT !.active = order, !.num = t.num - 1], result |-> 1]
    <3> DEFINE r == [w |-> v, result |-> 1]
    <3>1. r.w = v /\ r.result = 1 /\ 1 # INVALID
      BY DEF INVALID
    <3> HIDE DEF r
    <3>2. ClosedWith(t, r) = [table |-> [t EXCEPT !.active = order, !.num = t.num - 1],
                              result |-> 1]
      BY <2>3, <3>1, Zenon DEF ClosedWith
    <3> QED
      BY <3>2, Zenon DEF r
  <2>5. close_stream(t, id) = [t EXCEPT !.active = order, !.num = t.num - 1]
    BY <1>6, Zenon DEF close_stream, order
  <2> QED
    BY <1>3, <2>1, <2>4, <2>5, Zenon
<1> QED
  BY <1>5, <1>6, Zenon

----------------------------------------------------------------------------
(* The stable calls keep a connection intact.                              *)

(* All but the flags, which a close leaves to the sync.                    *)
Shaped(t) ==
    /\ t \in ConnectionState
    /\ t.num <= t.cap /\ t.based
    /\ \A s \in Slot : t.own[s] = s
    /\ PointersDistinct(t)

LEMMA GrownIntact ==
    ASSUME NEW t, Intact(t), NEW id \in Nat, t.num < t.cap
    PROVE  /\ Intact(Grown(t, id)) /\ Grown(t, id).cap = t.cap
           /\ Grown(t, id).ctx[t.active[t.num]].id = id
<1> DEFINE free == t.active[t.num]
           u == Grown(t, id)
           entry == [t.ctx[free] EXCEPT !.id = id, !.phase = ReadingLength]
           cx == [t.ctx EXCEPT ![free] = entry]
           used == [t.used EXCEPT ![free] = TRUE]
<1>1. free \in Slot /\ free \notin ActiveSlots(t) /\ t.num \in Slot
  BY FreeAfterPrefix, IntactTypes, Zenon
<1>2. entry \in StreamContext /\ entry.id = id
  <2>1. t.ctx[free] \in StreamContext
    BY <1>1, IntactTypes, Zenon
  <2> QED
    BY <2>1, PhaseConstructors, Zenon DEF StreamContext
<1>3. u = [t EXCEPT !.ctx = cx, !.used = used, !.num = t.num + 1]
  BY Zenon DEF Grown
<1> HIDE DEF entry
<1>4. cx \in [Slot -> StreamContext] /\ used \in [Slot -> BOOLEAN] /\ cx[free] = entry
  BY <1>1, <1>2, IntactTypes, Zenon
<1>5. \A s \in Slot : used[s] <=> s = free \/ t.used[s]
  BY IntactTypes, Zenon
<1> HIDE DEF cx, used, u
<1>6. u \in ConnectionState
  <2>1. t.num + 1 \in Nat
    BY IntactTypes
  <2> QED
    BY <1>3, <1>4, <2>1, Zenon DEF Intact, ConnectionState
<1>7. /\ u.active = t.active /\ u.num = t.num + 1 /\ u.ctx = cx /\ u.used = used
      /\ u.own = t.own /\ u.cap = t.cap /\ u.based = t.based
  BY <1>3, Zenon DEF Intact, ConnectionState
<1>8. ActiveSlots(u) = ActiveSlots(t) \cup {free}
  <2>1. Prefix(u) = Prefix(t) \cup {t.num}
    BY <1>7, IntactTypes DEF Prefix
  <2> QED
    BY <1>7, <2>1, Zenon DEF ActiveSlots
<1> HIDE DEF free
<1>9. FlagsMatchPrefix(u)
  <2>1. \A s \in Slot : t.used[s] <=> s \in ActiveSlots(t)
    BY Zenon DEF Intact, FlagsMatchPrefix
  <2> QED
    BY <1>5, <1>7, <1>8, <2>1, Zenon DEF FlagsMatchPrefix
<1>10. u.num <= u.cap
  BY <1>7, IntactTypes
<1>11. PointersDistinct(u)
  BY <1>7 DEF Intact, PointersDistinct
<1>12. u.based /\ \A s \in Slot : u.own[s] = s
  BY <1>7, Zenon DEF Intact
<1>13. Intact(u)
  BY <1>6, <1>9, <1>10, <1>11, <1>12, Zenon DEF Intact
<1> QED
  BY <1>2, <1>4, <1>7, <1>13, Zenon DEF u, free

LEMMA StoredIntact ==
    ASSUME NEW t, Intact(t), NEW s \in Slot, NEW c \in StreamContext
    PROVE  Intact([t EXCEPT !.ctx[s] = c]) /\ [t EXCEPT !.ctx[s] = c].cap = t.cap
<1> DEFINE u == [t EXCEPT !.ctx[s] = c]
           cx == [t.ctx EXCEPT ![s] = c]
<1>1. cx \in [Slot -> StreamContext]
  BY IntactTypes, Zenon
<1>2. u = [t EXCEPT !.ctx = cx]
  OBVIOUS
<1> HIDE DEF cx, u
<1>3. u \in ConnectionState
  BY <1>1, <1>2, Zenon DEF Intact, ConnectionState
<1>4. /\ u.active = t.active /\ u.num = t.num /\ u.used = t.used
      /\ u.own = t.own /\ u.cap = t.cap /\ u.based = t.based
  BY <1>2, Zenon DEF Intact, ConnectionState
<1>5. ActiveSlots(u) = ActiveSlots(t)
  BY <1>4, Zenon DEF ActiveSlots, Prefix
<1>6. Intact(u)
  BY <1>3, <1>4, <1>5 DEF Intact, PointersDistinct, FlagsMatchPrefix
<1> QED
  BY <1>4, <1>6, Zenon DEF u

(* The sync makes the flags right, whatever they were.                     *)
LEMMA SyncIntact ==
    ASSUME NEW t, Shaped(t)
    PROVE  /\ Intact(sync_stream_slots(t, ReadingLength))
           /\ sync_stream_slots(t, ReadingLength).cap = t.cap
<1> DEFINE u == sync_stream_slots(t, ReadingLength)
           cx == [s \in Slot |-> IF s \in ActiveSlots(t) THEN t.ctx[s]
                                  ELSE reset_stream(t.ctx[s], ReadingLength)]
           used == [s \in Slot |-> s \in ActiveSlots(t)]
<1>1. cx \in [Slot -> StreamContext]
  <2> SUFFICES ASSUME NEW s \in Slot
               PROVE  /\ t.ctx[s] \in StreamContext
                      /\ reset_stream(t.ctx[s], ReadingLength) \in StreamContext
    OBVIOUS
  <2>1. t.ctx[s] \in StreamContext
    BY Zenon DEF Shaped, ConnectionState
  <2> QED
    BY <2>1, PhaseConstructors, Zenon DEF reset_stream, StreamContext
<1>2. used \in [Slot -> BOOLEAN] /\ \A s \in Slot : used[s] <=> s \in ActiveSlots(t)
  <2>1. \A s \in Slot : (s \in ActiveSlots(t)) \in BOOLEAN
    OBVIOUS
  <2>2. used \in [Slot -> BOOLEAN]
    BY <2>1, Zenon
  <2>3. \A s \in Slot : used[s] <=> s \in ActiveSlots(t)
    BY Zenon
  <2> QED
    BY <2>2, <2>3, Zenon
<1>3. u = [t EXCEPT !.ctx = cx, !.used = used]
  BY Zenon DEF sync_stream_slots
<1> HIDE DEF cx, used, u
<1>4. u \in ConnectionState
  BY <1>1, <1>2, <1>3, Zenon DEF Shaped, ConnectionState
<1>5. /\ u.active = t.active /\ u.num = t.num /\ u.used = used
      /\ u.own = t.own /\ u.cap = t.cap /\ u.based = t.based
  BY <1>3, Zenon DEF Shaped, ConnectionState
<1>6. ActiveSlots(u) = ActiveSlots(t)
  BY <1>5, Zenon DEF ActiveSlots, Prefix
<1>7. FlagsMatchPrefix(u)
  BY <1>2, <1>5, <1>6, Zenon DEF FlagsMatchPrefix
<1>8. Intact(u)
  BY <1>4, <1>5, <1>7 DEF Intact, Shaped, PointersDistinct
<1> QED
  BY <1>5, <1>8, Zenon DEF u

(* A close swaps two pointers and leaves contexts and flags alone.         *)
LEMMA CloseShaped ==
    ASSUME NEW t, Intact(t), NEW id, NEW u, u = close_stream(t, id)
    PROVE  /\ Shaped(u) /\ u.cap = t.cap /\ u.ctx = t.ctx /\ u.used = t.used
           /\ Matches(t, id) = {} => u = t
<1>1. CASE Matches(t, id) = {}
  BY <1>1, Zenon DEF close_stream, Intact, Shaped
<1>2. CASE Matches(t, id) # {}
  <2> DEFINE i == FirstMatch(t, id)
             last == t.num - 1
             order == [t.active EXCEPT ![i] = t.active[last], ![last] = t.active[i]]
  <2>1. u = [t EXCEPT !.active = order, !.num = last]
    BY <1>2, Zenon DEF close_stream
  <2>2. i \in Slot /\ last \in Slot /\ last \in Nat /\ last <= t.cap
    <3>1. i \in Prefix(t) /\ i \in Slot
      BY <1>2, FirstMatches, Zenon
    <3> HIDE DEF i
    <3> QED
      BY <3>1, IntactTypes DEF Prefix, Slot
  <2> HIDE DEF i, last
  <2>3. order \in [Slot -> Slot]
    BY <2>2, IntactTypes
  <2>4. \A a, b \in Slot : order[a] = order[b] => a = b
    BY <2>2, IntactTypes DEF Intact, PointersDistinct
  <2> HIDE DEF order
  <2>5. u \in ConnectionState
    BY <2>1, <2>2, <2>3, Zenon DEF Intact, ConnectionState
  <2>6. /\ u.active = order /\ u.num = last /\ u.used = t.used /\ u.ctx = t.ctx
        /\ u.own = t.own /\ u.cap = t.cap /\ u.based = t.based
    BY <2>1, Zenon DEF Intact, ConnectionState
  <2>7. Shaped(u)
    BY <2>2, <2>4, <2>5, <2>6 DEF Shaped, Intact, PointersDistinct
  <2> QED
    BY <1>2, <2>6, <2>7, Zenon
<1> QED
  BY <1>1, <1>2, Zenon

(* An opened stream has a slot that carries its id, or there is no room.   *)
LEMMA OpenKeeps ==
    ASSUME NEW t, Intact(t), NEW id \in Nat, NEW r, r = legacy_open(t, id)
    PROVE  /\ Intact(r.table) /\ r.table.cap = t.cap
           /\ r.slot # NULL => r.slot \in Slot /\ r.table.ctx[r.slot].id = id
<1>1. CASE Matches(t, id) # {}
  <2>1. r = [table |-> t, slot |-> t.active[FirstMatch(t, id)]]
    BY <1>1, LegacyOpen, Zenon
  <2> QED
    BY <1>1, <2>1, FirstMatches
<1>2. CASE Matches(t, id) = {} /\ t.num >= t.cap
  BY <1>2, LegacyOpen DEF NotOpened
<1>3. CASE Matches(t, id) = {} /\ t.num < t.cap
  <2>1. r = [table |-> Grown(t, id), slot |-> t.active[t.num]]
    BY <1>3, LegacyOpen, Zenon
  <2> QED
    BY <1>3, <2>1, GrownIntact, FreeAfterPrefix
<1> QED
  BY <1>1, <1>2, <1>3, IntactTypes

(* A fragment goes to the same context, with the same effect.              *)
LEMMA DataCallStep ==
    ASSUME NEW t, Intact(t), NEW id \in Nat, NEW d \in Seq(Byte),
           NEW r, r = legacy_data(legacy_open(t, id), d)
    PROVE  /\ pulse_data(ism_pulse_table_open(t, id), id, d) = r
           /\ Intact(r.table) /\ r.table.cap = t.cap
<1> DEFINE o == legacy_open(t, id)
<1>1. ism_pulse_table_open(t, id) = o
  BY OpenAgrees, Zenon
<1>2. /\ Intact(o.table) /\ o.table.cap = t.cap
      /\ o.slot # NULL => o.slot \in Slot /\ o.table.ctx[o.slot].id = id
  BY OpenKeeps
<1> HIDE DEF o
<1>3. CASE o.slot = NULL
  BY <1>1, <1>2, <1>3, Zenon DEF legacy_data, pulse_data, o
<1>4. CASE o.slot # NULL
  <2> DEFINE cx == o.table.ctx[o.slot]
             c == handle_stream_data(cx, d)
  <2>1. cx \in StreamContext /\ cx.id = id
    BY <1>2, <1>4, IntactTypes, Zenon
  <2>2. c \in StreamContext
    BY <2>1, DataHandled, Zenon
  <2>3. ism_pulse_ingress_data(cx, id, d) = LegacyResult(c)
    BY <2>1, DataAgrees, Zenon
  <2> HIDE DEF cx, c
  <2>4. r = StoredIn(o, LegacyResult(c)) /\ pulse_data(o, id, d) = r
    BY <1>4, <2>3, Zenon DEF legacy_data, pulse_data, o, c, cx
  <2>5. r.table = [o.table EXCEPT !.ctx[o.slot] = c]
    BY <2>4 DEF StoredIn, LegacyResult
  <2> QED
    BY <1>1, <1>2, <1>4, <2>2, <2>4, <2>5, StoredIntact
<1> QED
  BY <1>3, <1>4, Zenon

LEMMA FinCallStep ==
    ASSUME NEW t, Intact(t), NEW id \in Nat, NEW r, r = legacy_fin(legacy_open(t, id))
    PROVE  /\ pulse_fin(ism_pulse_table_open(t, id)) = r
           /\ Intact(r.table) /\ r.table.cap = t.cap
<1> DEFINE o == legacy_open(t, id)
<1>1. ism_pulse_table_open(t, id) = o
  BY OpenAgrees, Zenon
<1>2. /\ Intact(o.table) /\ o.table.cap = t.cap
      /\ o.slot # NULL => o.slot \in Slot
  BY OpenKeeps, Zenon
<1> HIDE DEF o
<1>3. CASE o.slot = NULL
  BY <1>1, <1>2, <1>3, Zenon DEF legacy_fin, pulse_fin, o
<1>4. CASE o.slot # NULL
  <2> DEFINE cx == o.table.ctx[o.slot]
             c == handle_stream_fin(cx)
  <2>1. cx \in StreamContext
    BY <1>2, <1>4, IntactTypes, Zenon
  <2>2. c \in StreamContext
    BY <2>1, FinHandled, Zenon
  <2>3. ism_pulse_ingress_fin(cx) = LegacyResult(c)
    BY <2>1, FinAgrees, Zenon
  <2> HIDE DEF cx, c
  <2>4. r = StoredIn(o, LegacyResult(c)) /\ pulse_fin(o) = r
    BY <1>4, <2>3, Zenon DEF legacy_fin, pulse_fin, o, c, cx
  <2>5. r.table = [o.table EXCEPT !.ctx[o.slot] = c]
    BY <2>4 DEF StoredIn, LegacyResult
  <2> QED
    BY <1>1, <1>2, <1>4, <2>2, <2>4, <2>5, StoredIntact
<1> QED
  BY <1>3, <1>4, Zenon

(* A reset closes and syncs on both sides.                                 *)
LEMMA ResetStep ==
    ASSUME NEW t, Intact(t), NEW id, NEW u, u = dispatch_stream_reset(t, id, ReadingLength)
    PROVE  /\ pulse_reset(ism_pulse_table_close(t, id)) = [table |-> u, result |-> 1]
           /\ Intact(u) /\ u.cap = t.cap
<1> DEFINE c == close_stream(t, id)
           r == [table |-> c, result |-> 1]
<1>1. ism_pulse_table_close(t, id) = r
  BY CloseAgrees, Zenon
<1>2. u = sync_stream_slots(c, ReadingLength)
  BY Zenon DEF dispatch_stream_reset
<1>3. Shaped(c) /\ c.cap = t.cap
  BY CloseShaped, Zenon
<1> HIDE DEF c
<1>4. pulse_reset(r) = [r EXCEPT !.table = sync_stream_slots(c, ReadingLength)]
  BY Zenon DEF pulse_reset
<1>5. [r EXCEPT !.table = u] = [table |-> u, result |-> 1]
  OBVIOUS
<1> QED
  BY <1>1, <1>2, <1>3, <1>4, <1>5, SyncIntact, Zenon

(* A finished send closes the stream; when it was open its slot is still   *)
(* flagged, so the sync follows.                                           *)
LEMMA FinishedStep ==
    ASSUME NEW t, Intact(t), NEW id,
           NEW u, u = dispatch_response_send_finished(t, id, ReadingLength)
    PROVE  /\ pulse_finished(ism_pulse_table_close(t, id), id) = [table |-> u, result |-> 1]
           /\ Intact(u) /\ u.cap = t.cap
<1> DEFINE c == close_stream(t, id)
           r == [table |-> c, result |-> 1]
           Flagged == \E s \in Slot : c.used[s] /\ c.ctx[s].id = id
<1>1. ism_pulse_table_close(t, id) = r
  BY CloseAgrees, Zenon
<1>2. /\ Flagged => u = sync_stream_slots(c, ReadingLength)
      /\ ~Flagged => u = c
  BY Zenon DEF dispatch_response_send_finished
<1>3. /\ Shaped(c) /\ c.cap = t.cap /\ c.ctx = t.ctx /\ c.used = t.used
      /\ Matches(t, id) = {} => c = t
  BY CloseShaped, Zenon
<1> HIDE DEF c
<1>4. r.table = c /\ r.result = 1
  OBVIOUS
<1>5. /\ Flagged => pulse_finished(r, id) = [r EXCEPT !.table = sync_stream_slots(c, ReadingLength)]
      /\ ~Flagged => pulse_finished(r, id) = r
  BY <1>4, Zenon DEF pulse_finished
<1>6. CASE Flagged
  <2>1. [r EXCEPT !.table = u] = [table |-> u, result |-> 1]
    OBVIOUS
  <2> QED
    BY <1>1, <1>2, <1>3, <1>5, <1>6, <2>1, SyncIntact
<1>7. CASE ~Flagged
  <2>1. Matches(t, id) = {}
    <3> SUFFICES ASSUME Matches(t, id) # {} PROVE FALSE
      OBVIOUS
    <3>1. /\ t.active[FirstMatch(t, id)] \in ActiveSlots(t)
          /\ t.active[FirstMatch(t, id)] \in Slot
          /\ t.ctx[t.active[FirstMatch(t, id)]].id = id
      BY FirstMatches, Zenon
    <3>2. t.used[t.active[FirstMatch(t, id)]]
      BY <3>1, Zenon DEF Intact, FlagsMatchPrefix
    <3> QED
      BY <1>3, <1>7, <3>1, <3>2, Zenon
  <2> QED
    BY <1>1, <1>2, <1>3, <1>5, <1>7, <2>1, Zenon
<1> QED
  BY <1>6, <1>7, Zenon

(* The framing contract is what the adapter tests.                         *)
LEMMA RespondAgrees ==
    ASSUME NEW message, message # NULL, NEW src, NEW dst
    PROVE  ism_pulse_prepare_doq_response(ContextRange, message, src, dst)
               = IF FrameContract(src, dst) THEN framed_length(src.size, dst.size) ELSE 0
<1>1. ism_response_disjoint(ContextRange, dst) => ism_response_range_ok(dst)
  BY Zenon DEF ism_response_disjoint
<1> QED
  BY <1>1, Zenon DEF ism_pulse_prepare_doq_response, ism_pulse_response_frame, FrameContract

----------------------------------------------------------------------------
(* A refused connection.                                                   *)

LEMMA Refused ==
    ASSUME NEW t, Refusing(t), NEW id, NEW d
    PROVE  /\ ism_pulse_table_find(t, id) = NULL
           /\ ism_pulse_table_open(t, id) = NotOpened(t)
           /\ pulse_reset(ism_pulse_table_close(t, id)) = [table |-> t, result |-> 0]
           /\ pulse_finished(ism_pulse_table_close(t, id), id) = [table |-> t, result |-> 0]
           /\ pulse_data(ism_pulse_table_open(t, id), id, d) = [table |-> t, code |-> 3]
           /\ pulse_fin(ism_pulse_table_open(t, id)) = [table |-> t, code |-> 3]
<1> DEFINE w == snapshot(t)
<1>1. INVALID \notin Active(w)
  <2>1. w.count = t.num
    BY Zenon DEF snapshot
  <2> HIDE DEF w
  <2> QED
    BY <2>1 DEF Refusing, Active, INVALID
<1> HIDE DEF w
<1>2. ism_pulse_table_find(t, id) = NULL
  BY <1>1, Zenon DEF Refusing, ism_pulse_table_find, table_find, FoundAt, w
<1>3. ism_pulse_table_open(t, id) = NotOpened(t)
  <2>1. OpenedAt(t, w, id, INVALID) = NotOpened(t)
    BY <1>1, Zenon DEF OpenedAt
  <2> QED
    BY <2>1, Zenon DEF Refusing, ism_pulse_table_open, table_find, w
<1>4. ism_pulse_table_close(t, id) = [table |-> t, result |-> 0]
  <2>1. ClosedWith(t, [w |-> w, result |-> INVALID]) = [table |-> t, result |-> 0]
    BY DEF ClosedWith, INVALID
  <2> QED
    BY <2>1, Zenon DEF Refusing, ism_pulse_table_close, table_close, w
<1>5. /\ pulse_reset([table |-> t, result |-> 0]) = [table |-> t, result |-> 0]
      /\ pulse_finished([table |-> t, result |-> 0], id) = [table |-> t, result |-> 0]
  BY DEF pulse_reset, pulse_finished
<1>6. /\ pulse_data(NotOpened(t), id, d) = [table |-> t, code |-> 3]
      /\ pulse_fin(NotOpened(t)) = [table |-> t, code |-> 3]
  BY Zenon DEF pulse_data, pulse_fin, NotOpened
<1> QED
  BY <1>2, <1>3, <1>4, <1>5, <1>6, Zenon

(* A slot whose phase cannot be decoded makes the descriptor invalid.      *)
LEMMA PhaseRefused ==
    ASSUME NEW t, t.num \in Nat, ~decodable(phase_to_wire(t.ctx[0].phase))
    PROVE  Refusing(t)
<1>1. 0 \in Slot
  BY CapacityAssumption DEF Slot
<1> DEFINE entry == [id |-> t.ctx[0].id, phase |-> phase_to_wire(t.ctx[0].phase),
                     message |-> 0, message_capacity |-> MaxMessage]
<1>2. snapshot(t).slot[0] = entry
  BY <1>1, Zenon DEF snapshot
<1>3. entry.phase = phase_to_wire(t.ctx[0].phase)
  OBVIOUS
<1> HIDE DEF entry
<1>4. ~decodable(snapshot(t).slot[0].phase)
  BY <1>2, <1>3, Zenon
<1>5. ~descriptor_ok(snapshot(t))
  BY <1>1, <1>4, Zenon DEF descriptor_ok
<1> QED
  BY <1>5, Zenon DEF Refusing

(* Each way of spoiling an intact connection is noticed.                   *)
LEMMA CorruptionRefused ==
    ASSUME NEW t, Intact(t), NEW u \in Corrupted(t)
    PROVE  Refusing(u)
<1>1. 0 \in Slot /\ Capacity - 1 \in Slot /\ Capacity \in Nat /\ NULL \notin Slot
  BY CapacityAssumption DEF Slot, NULL
<1>2. /\ t.num \in Nat /\ t.cap \in Nat /\ t.active \in [Slot -> Slot] /\ t \in ConnectionState
      /\ t.own \in [Slot -> Slot] /\ t.used \in [Slot -> BOOLEAN]
      /\ t.ctx \in [Slot -> StreamContext]
  BY IntactTypes DEF Intact, ConnectionState
<1>3. CASE u = [t EXCEPT !.num = t.cap + 1]
  <2>1. u.num = t.cap + 1 /\ u.cap = t.cap
    BY <1>2, <1>3, Zenon DEF ConnectionState
  <2>2. u.num \in Nat /\ ~(u.num <= u.cap)
    BY <1>2, <2>1
  <2> QED
    BY <2>2, Zenon DEF Refusing, snapshot_ok
<1>4. CASE u = [t EXCEPT !.cap = Capacity + 1]
  <2>1. u.num = t.num /\ u.cap = Capacity + 1
    BY <1>2, <1>4, Zenon DEF ConnectionState
  <2>2. u.num \in Nat /\ ~(u.cap <= Capacity)
    BY <1>1, <1>2, <2>1
  <2> QED
    BY <2>2, Zenon DEF Refusing, snapshot_ok
<1>5. CASE u = [t EXCEPT !.based = FALSE]
  <2>1. u.num = t.num /\ u.based = FALSE
    BY <1>2, <1>5, Zenon DEF ConnectionState
  <2> QED
    BY <1>2, <2>1, Zenon DEF Refusing, snapshot_ok
<1>6. CASE u = [t EXCEPT !.own[0] = NULL]
  <2>1. u.num = t.num /\ u.own[0] = NULL
    BY <1>1, <1>2, <1>6, Zenon DEF ConnectionState
  <2> QED
    BY <1>1, <1>2, <2>1, Zenon DEF Refusing, snapshot_ok
<1>7. CASE u = [t EXCEPT !.used[0] = ~t.used[0]]
  <2> DEFINE used == [t.used EXCEPT ![0] = ~t.used[0]]
  <2>1. used[0] = ~t.used[0]
    BY <1>1, <1>2, Zenon
  <2>2. u = [t EXCEPT !.used = used]
    BY <1>7, Zenon
  <2> HIDE DEF used
  <2>3. u.num = t.num /\ u.active = t.active /\ u.used = used
    BY <1>2, <2>2, Zenon DEF ConnectionState
  <2>4. ActiveSlots(u) = ActiveSlots(t)
    BY <2>3, Zenon DEF ActiveSlots, Prefix
  <2>5. t.used[0] <=> 0 \in ActiveSlots(t)
    BY <1>1, Zenon DEF Intact, FlagsMatchPrefix
  <2>6. ~FlagsMatchPrefix(u)
    BY <1>1, <2>1, <2>3, <2>4, <2>5, Zenon DEF FlagsMatchPrefix
  <2> QED
    BY <1>2, <2>3, <2>6, Zenon DEF Refusing, snapshot_ok
<1>8. CASE u = [t EXCEPT !.active[Capacity - 1] = NULL]
  <2>1. u.num = t.num /\ u.active[Capacity - 1] = NULL
    BY <1>1, <1>2, <1>8, Zenon DEF ConnectionState
  <2> QED
    BY <1>1, <1>2, <2>1, Zenon DEF Refusing, snapshot_ok
<1>9. CASE u = [t EXCEPT !.ctx[0].phase.tag = "99"]
  <2> DEFINE phase == [t.ctx[0].phase EXCEPT !.tag = "99"]
             entry == [t.ctx[0] EXCEPT !.phase = phase]
             cx == [t.ctx EXCEPT ![0] = entry]
  <2>1. t.ctx[0] \in StreamContext /\ t.ctx[0].phase \in Representable
    BY <1>1, <1>2, Zenon DEF StreamContext
  <2>2. phase.tag = "99"
    BY <2>1, Zenon DEF Representable
  <2>3. u = [t EXCEPT !.ctx = cx]
    BY <1>9, Zenon
  <2> HIDE DEF phase
  <2>4. entry.phase = phase
    BY <2>1, Zenon DEF StreamContext
  <2> HIDE DEF entry
  <2>5. cx[0] = entry
    BY <1>1, <1>2, Zenon
  <2> HIDE DEF cx
  <2>6. u.num = t.num /\ u.ctx[0] = entry
    BY <1>2, <2>3, <2>5, Zenon DEF ConnectionState
  <2>7. phase_to_wire(phase) = WirePhase(BadTag, 0, 0, 0)
    BY <2>2 DEF phase_to_wire
  <2>8. ~decodable(phase_to_wire(phase))
    BY <2>7 DEF WirePhase, BadTag, decodable, decode_phase, NotDecoded, ISM_PULSE_LENGTH,
                ISM_PULSE_LENGTH_HIGH, ISM_PULSE_BODY, ISM_PULSE_AWAITING_FIN,
                ISM_PULSE_PROCESSING, ISM_PULSE_DONE
  <2> QED
    BY <1>2, <2>4, <2>6, <2>8, PhaseRefused, Zenon
<1>10. CASE u = [t EXCEPT !.ctx[0].phase = AwaitingFin(MaxMessage + 1)]
  <2> DEFINE phase == AwaitingFin(MaxMessage + 1)
             entry == [t.ctx[0] EXCEPT !.phase = phase]
             cx == [t.ctx EXCEPT ![0] = entry]
  <2>1. t.ctx[0] \in StreamContext
    BY <1>1, <1>2, Zenon
  <2>2. phase.tag = "AwaitingFin" /\ phase.expected = MaxMessage + 1
    BY Zenon DEF AwaitingFin, PhaseRecord
  <2>3. u = [t EXCEPT !.ctx = cx]
    BY <1>10, Zenon
  <2> HIDE DEF phase
  <2>4. entry.phase = phase
    BY <2>1, Zenon DEF StreamContext
  <2> HIDE DEF entry
  <2>5. cx[0] = entry
    BY <1>1, <1>2, Zenon
  <2> HIDE DEF cx
  <2>6. u.num = t.num /\ u.ctx[0] = entry
    BY <1>2, <2>3, <2>5, Zenon DEF ConnectionState
  <2>7. phase_to_wire(phase) = WirePhase(ISM_PULSE_AWAITING_FIN, 0, MaxMessage + 1, 0)
    BY <2>2 DEF phase_to_wire
  <2>8. ~decodable(phase_to_wire(phase))
    BY <2>7, MaxMessageType DEF WirePhase, decodable, decode_phase, NotDecoded, ISM_PULSE_LENGTH,
                ISM_PULSE_LENGTH_HIGH, ISM_PULSE_BODY, ISM_PULSE_AWAITING_FIN,
                ISM_PULSE_PROCESSING, ISM_PULSE_DONE
  <2> QED
    BY <1>2, <2>4, <2>6, <2>8, PhaseRefused, Zenon
<1>11. CASE Capacity > 1 /\ u = [t EXCEPT !.active[Capacity - 1] = t.active[0]]
  <2>1. Capacity - 1 # 0
    BY <1>1, <1>11
  <2>2. /\ u.num = t.num
        /\ u.active[Capacity - 1] = t.active[0] /\ u.active[0] = t.active[0]
    BY <1>1, <1>2, <1>11, <2>1, Zenon DEF ConnectionState
  <2>3. ~PointersDistinct(u)
    BY <1>1, <2>1, <2>2, Zenon DEF PointersDistinct
  <2> QED
    BY <1>2, <2>2, <2>3, Zenon DEF Refusing, snapshot_ok
<1> QED
  BY <1>3, <1>4, <1>5, <1>6, <1>7, <1>8, <1>9, <1>10, <1>11, Zenon DEF Corrupted

----------------------------------------------------------------------------
(* The invariant.                                                          *)

LEMMA InitIntact == PairInit => DifferentialInv
<1> SUFFICES ASSUME PairInit PROVE DifferentialInv
  OBVIOUS
<1>1. PICK start \in Starts :
          \E count \in 0 .. start.cap : old = Connection(start.order, start.ctx, count, start.cap)
  BY Zenon DEF PairInit
<1>2. PICK count \in 0 .. start.cap :
          old = Connection(start.order, start.ctx, count, start.cap)
  BY <1>1, Zenon
<1>3. /\ start.order \in [Slot -> Slot] /\ start.cap \in 0 .. Capacity
      /\ start.ctx \in [Slot -> StreamContext]
  BY DifferentialConstants, Zenon DEF StreamContext
<1> DEFINE used == [s \in Slot |-> \E i \in 0 .. count - 1 : start.order[i] = s]
           own == [s \in Slot |-> s]
<1>4. old = [active |-> start.order, num |-> count, ctx |-> start.ctx, used |-> used,
             own |-> own, cap |-> start.cap, based |-> TRUE]
  BY <1>2, Zenon DEF Connection
<1>5. used \in [Slot -> BOOLEAN] /\ own \in [Slot -> Slot]
  <2>1. own \in [Slot -> Slot]
    OBVIOUS
  <2>2. \A s \in Slot : (\E i \in 0 .. count - 1 : start.order[i] = s) \in BOOLEAN
    OBVIOUS
  <2>3. used \in [Slot -> BOOLEAN]
    BY <2>2, Zenon
  <2> QED
    BY <2>1, <2>3, Zenon
<1>6. \A s \in Slot : own[s] = s /\ (used[s] <=> \E i \in 0 .. count - 1 : start.order[i] = s)
  OBVIOUS
<1>7. count \in Nat /\ count <= start.cap
  BY <1>3, CapacityAssumption
<1> HIDE DEF used, own
<1>8. /\ old.active = start.order /\ old.num = count /\ old.used = used /\ old.own = own
      /\ old.cap = start.cap /\ old.based = TRUE
  BY <1>4, Zenon
<1>9. old \in ConnectionState
  BY <1>3, <1>4, <1>5, <1>7, Zenon DEF ConnectionState
<1>10. FlagsMatchPrefix(old)
  <2>1. ActiveSlots(old) = {start.order[i] : i \in 0 .. count - 1}
    BY <1>8, Zenon DEF ActiveSlots, Prefix
  <2>2. \A s \in Slot : used[s] <=> s \in ActiveSlots(old)
    BY <1>6, <2>1, Zenon
  <2> QED
    BY <1>8, <2>2, Zenon DEF FlagsMatchPrefix
<1>11. Intact(old)
  BY <1>6, <1>7, <1>8, <1>9, <1>10, Zenon DEF PairInit, Intact
<1>12. answer.candidate = answer.old
  BY Zenon DEF PairInit, Both
<1> QED
  BY <1>3, <1>8, <1>11, <1>12, Zenon DEF PairInit, DifferentialInv

(* What a call leaves behind.                                              *)
LEMMA CalledAnswers ==
    ASSUME NEW t, NEW x, NEW c, NEW y, NEW refusal, Called(t, x, c, y, refusal)
    PROVE  /\ candidate' = c /\ corrupt' = corrupt /\ answer'.candidate = y
           /\ ~corrupt => old' = t /\ answer'.old = x
           /\ corrupt => old' = old /\ answer'.old = refusal
  BY Zenon DEF Called, Both

(* On intact connections a call keeps them equal; on a refused one it      *)
(* answers with the refusal.                                               *)
Served == ~corrupt => /\ Intact(old') /\ candidate' = old' /\ old'.cap = old.cap
                      /\ answer'.candidate = answer'.old

TurnedAway == corrupt => /\ candidate' = candidate /\ old' = old
                         /\ answer'.candidate = answer'.old

Harmless == corrupt' = corrupt /\ Served /\ TurnedAway

LEMMA CallHarmless ==
    ASSUME NEW t, NEW x, NEW c, NEW y, NEW refusal, Called(t, x, c, y, refusal),
           ~corrupt => Intact(t) /\ c = t /\ t.cap = old.cap /\ y = x,
           corrupt => c = candidate /\ y = refusal
    PROVE  Harmless
  BY CalledAnswers DEF Harmless, Served, TurnedAway

LEMMA StreamCalls ==
    ASSUME DifferentialInv, NEW id \in PairId,
           \/ FindCall(id) \/ OpenCall(id) \/ ResetCall(id) \/ SendFinishedCall(id) \/ FinCall(id)
    PROVE  Harmless
<1>1. /\ ~corrupt => Intact(old) /\ candidate = old
      /\ corrupt => Refusing(candidate)
      /\ id \in Nat
  BY DifferentialConstants, Zenon DEF DifferentialInv
<1>2. CASE FindCall(id)
  <2>1. ~corrupt => ism_pulse_table_find(candidate, id) = find_stream(old, id)
    BY <1>1, FindAgrees, Zenon
  <2>2. corrupt => ism_pulse_table_find(candidate, id) = NULL
    BY <1>1, Refused, Zenon
  <2> QED
    BY <1>1, <1>2, <2>1, <2>2, CallHarmless, Zenon DEF FindCall
<1>3. CASE OpenCall(id)
  <2> DEFINE l == legacy_open(old, id)
             p == ism_pulse_table_open(candidate, id)
  <2>1. ~corrupt => p = l /\ Intact(l.table) /\ l.table.cap = old.cap
    BY <1>1, OpenAgrees, OpenKeeps, Zenon
  <2>2. corrupt => p = NotOpened(candidate)
    BY <1>1, Refused, Zenon
  <2>3. Called(l.table, l.slot, p.table, p.slot, NULL)
    BY <1>3, Zenon DEF OpenCall, Opened
  <2> HIDE DEF l, p
  <2>4. corrupt => p.table = candidate /\ p.slot = NULL
    BY <2>2 DEF NotOpened
  <2> QED
    BY <2>1, <2>3, <2>4, CallHarmless, Zenon
<1>4. CASE ResetCall(id)
  <2> DEFINE u == dispatch_stream_reset(old, id, ReadingLength)
             p == pulse_reset(ism_pulse_table_close(candidate, id))
  <2>1. ~corrupt => p = [table |-> u, result |-> 1] /\ Intact(u) /\ u.cap = old.cap
    BY <1>1, ResetStep, Zenon
  <2>2. corrupt => p = [table |-> candidate, result |-> 0]
    BY <1>1, Refused, Zenon
  <2>3. Called(u, 1, p.table, p.result, 0)
    BY <1>4, Zenon DEF ResetCall
  <2> HIDE DEF u, p
  <2> QED
    BY <2>1, <2>2, <2>3, CallHarmless
<1>5. CASE SendFinishedCall(id)
  <2> DEFINE u == dispatch_response_send_finished(old, id, ReadingLength)
             p == pulse_finished(ism_pulse_table_close(candidate, id), id)
  <2>1. ~corrupt => p = [table |-> u, result |-> 1] /\ Intact(u) /\ u.cap = old.cap
    BY <1>1, FinishedStep, Zenon
  <2>2. corrupt => p = [table |-> candidate, result |-> 0]
    BY <1>1, Refused, Zenon
  <2>3. Called(u, 1, p.table, p.result, 0)
    BY <1>5, Zenon DEF SendFinishedCall
  <2> HIDE DEF u, p
  <2> QED
    BY <2>1, <2>2, <2>3, CallHarmless
<1>6. CASE FinCall(id)
  <2> DEFINE l == legacy_fin(legacy_open(old, id))
             p == pulse_fin(ism_pulse_table_open(candidate, id))
  <2>1. ~corrupt => p = l /\ Intact(l.table) /\ l.table.cap = old.cap
    BY <1>1, FinCallStep, Zenon
  <2>2. corrupt => p = [table |-> candidate, code |-> 3]
    BY <1>1, Refused, Zenon
  <2>3. Called(l.table, l.code, p.table, p.code, 3)
    BY <1>6, Zenon DEF FinCall, Ingress
  <2> HIDE DEF l, p
  <2> QED
    BY <2>1, <2>2, <2>3, CallHarmless
<1> QED
  BY <1>2, <1>3, <1>4, <1>5, <1>6, Zenon

LEMMA DataCalls ==
    ASSUME DifferentialInv, NEW id \in PairId, NEW data \in Inputs[old.cap], DataCall(id, data)
    PROVE  Harmless
<1>1. /\ ~corrupt => Intact(old) /\ candidate = old
      /\ corrupt => Refusing(candidate)
      /\ id \in Nat /\ data \in Seq(Byte)
  BY DifferentialConstants, Zenon DEF DifferentialInv
<1> DEFINE l == legacy_data(legacy_open(old, id), data)
           p == pulse_data(ism_pulse_table_open(candidate, id), id, data)
<1>2. ~corrupt => p = l /\ Intact(l.table) /\ l.table.cap = old.cap
  BY <1>1, DataCallStep
<1>3. corrupt => p = [table |-> candidate, code |-> 3]
  BY <1>1, Refused, Zenon
<1>4. Called(l.table, l.code, p.table, p.code, 3)
  BY Zenon DEF DataCall, Ingress
<1> HIDE DEF l, p
<1> QED
  BY <1>2, <1>3, <1>4, CallHarmless

LEMMA RespondCall ==
    ASSUME DifferentialInv, NEW id \in PairId, NEW src, NEW dst, Respond(id, src, dst)
    PROVE  Harmless
<1>1. /\ ~corrupt => Intact(old) /\ candidate = old
      /\ corrupt => Refusing(candidate)
  BY Zenon DEF DifferentialInv
<1> DEFINE x == IF corrupt \/ find_stream(old, id) = NULL \/ ~FrameContract(src, dst)
                THEN 0 ELSE framed_length(src.size, dst.size)
           slot == ism_pulse_table_find(candidate, id)
           y == pulse_respond(slot, src, dst)
<1>2. x = y
  <2>1. CASE corrupt
    BY <1>1, <2>1, Refused, Zenon DEF pulse_respond
  <2>2. CASE ~corrupt
    <3>1. slot = find_stream(old, id)
      BY <1>1, <2>2, FindAgrees, Zenon
    <3>2. slot # NULL => slot \in Slot /\ candidate.own[slot] = slot
      <4>1. slot # NULL => slot \in Slot
        BY <1>1, <2>2, <3>1, FirstMatches, Zenon DEF find_stream
      <4> QED
        BY <1>1, <2>2, <4>1, Zenon DEF Intact
    <3> HIDE DEF slot
    <3> QED
      BY <2>2, <3>1, <3>2, RespondAgrees, Zenon DEF pulse_respond
  <2> QED
    BY <2>1, <2>2, Zenon
<1>3. answer' = Both(x, y) /\ old' = old /\ candidate' = candidate /\ corrupt' = corrupt
  BY Zenon DEF Respond
<1> HIDE DEF x, y
<1>4. answer'.candidate = answer'.old
  BY <1>2, <1>3, Zenon DEF Both
<1> QED
  BY <1>1, <1>3, <1>4, Zenon DEF Harmless, Served, TurnedAway

LEMMA NextKeeps ==
    ASSUME DifferentialInv, PairNext
    PROVE  DifferentialInv' /\ (corrupt => TurnedAway)
<1>1. ASSUME Harmless PROVE DifferentialInv' /\ (corrupt => TurnedAway)
  <2>1. corrupt \in BOOLEAN /\ old.cap \in 0 .. Capacity
    BY Zenon DEF DifferentialInv
  <2>2. CASE corrupt
    BY <1>1, <2>1, <2>2, Zenon DEF Harmless, TurnedAway, DifferentialInv
  <2>3. CASE ~corrupt
    BY <1>1, <2>1, <2>3, Zenon DEF Harmless, Served, DifferentialInv
  <2> QED
    BY <2>2, <2>3, Zenon
<1>2. CASE Corrupt
  <2>1. Refusing(candidate')
    BY <1>2, CorruptionRefused, Zenon DEF Corrupt, DifferentialInv
  <2> QED
    BY <1>2, <2>1, Zenon DEF Corrupt, DifferentialInv
<1>3. ASSUME NEW id \in PairId,
             \/ FindCall(id) \/ OpenCall(id) \/ ResetCall(id) \/ SendFinishedCall(id) \/ FinCall(id)
      PROVE  Harmless
  BY <1>3, StreamCalls, Zenon
<1>4. ASSUME NEW id \in PairId, NEW data \in Inputs[old.cap], DataCall(id, data)
      PROVE  Harmless
  BY <1>4, DataCalls, Zenon
<1>5. ASSUME NEW id \in PairId, NEW src \in Places[old.cap], NEW dst \in Places[old.cap],
             Respond(id, src, dst)
      PROVE  Harmless
  BY <1>5, RespondCall, Zenon
<1> QED
  BY <1>1, <1>2, <1>3, <1>4, <1>5, Zenon DEF PairNext

(* The two shells stay equal and within the adapters' contract, until a    *)
(* corruption that one of the checks notices.                              *)
THEOREM DifferentialInvariant == PairSpec => []DifferentialInv
<1>1. DifferentialInv /\ UNCHANGED pairVars => DifferentialInv'
  BY DEF pairVars, DifferentialInv
<1>2. DifferentialInv /\ PairNext => DifferentialInv'
  BY NextKeeps, Zenon
<1> QED
  BY <1>1, <1>2, InitIntact, PTL DEF PairSpec

(* Whatever the table's capacity, the initial descriptor and the sequence  *)
(* of calls, the shell on the Pulse adapters answers and changes its       *)
(* connection exactly as the stable shell does.                            *)
THEOREM PortsAlwaysAgree == PairSpec => []PortsAgree
<1>1. DifferentialInv => PortsAgree
  BY Zenon DEF DifferentialInv, PortsAgree
<1> QED
  BY <1>1, DifferentialInvariant, PTL

(* A call on a corrupted connection is refused by snapshot or by           *)
(* ism_pulse_table_apply, and changes nothing.                             *)
THEOREM CorruptionIsRefused == PairSpec => CorruptRefused
<1>1. DifferentialInv /\ [PairNext]_pairVars =>
          [corrupt => candidate' = candidate /\ answer'.candidate = answer'.old]_pairVars
  <2> SUFFICES ASSUME DifferentialInv, PairNext, corrupt
               PROVE  candidate' = candidate /\ answer'.candidate = answer'.old
    OBVIOUS
  <2> QED
    BY NextKeeps, Zenon DEF TurnedAway
<1> QED
  BY <1>1, DifferentialInvariant, PTL DEF PairSpec, CorruptRefused

(* The adapters frame a response only into storage that holds it, is       *)
(* disjoint from the response and the context, and does not wrap around    *)
(* the address space.                                                      *)
THEOREM FramesAreSeparate == PairSpec => []FrameSeparate
<1>1. ASSUME NEW slot, NEW src, NEW dst, src.at \in Nat, src.size \in Nat, dst.at \in Nat,
             dst.size \in Nat, pulse_respond(slot, src, dst) > 0
      PROVE  /\ Addresses(dst) \cap (Addresses(src) \cup Addresses(ContextRange)) = {}
             /\ src.size + 2 <= dst.size
             /\ Addresses(dst) \subseteq 1 .. AddressLimit
  <2>1. FrameContract(src, dst) /\ framed_length(src.size, dst.size) > 0
    <3>1. /\ slot # NULL
          /\ ism_pulse_prepare_doq_response(ContextRange, candidate.own[slot], src, dst) > 0
      BY <1>1 DEF pulse_respond
    <3>2. candidate.own[slot] # NULL
      BY <3>1 DEF ism_pulse_prepare_doq_response
    <3> QED
      BY <3>1, <3>2, RespondAgrees
  <2>2. src.size + 2 <= dst.size
    BY <1>1, <2>1, MaxMessageType DEF framed_length
  <2>3. ism_response_range_ok(dst)
    BY <2>1, Zenon DEF FrameContract, ism_response_disjoint
  <2>4. Addresses(dst) \subseteq 1 .. AddressLimit
    BY <1>1, <2>3, AddressAssumption DEF ism_response_range_ok, Addresses
  <2>5. ContextRange.at = 1 /\ ContextRange.size = 2
    BY Zenon DEF ContextRange
  <2>6. Addresses(dst) \cap Addresses(ContextRange) = {}
    BY <1>1, <2>1, <2>2, <2>5 DEF FrameContract, ism_response_disjoint, Addresses
  <2>7. Addresses(dst) \cap Addresses(src) = {}
    <3>1. src.size = 0 => Addresses(src) = {}
      BY <1>1 DEF Addresses
    <3>2. src.size > 0 => Addresses(dst) \cap Addresses(src) = {}
      BY <1>1, <2>1, <2>2 DEF FrameContract, ism_response_disjoint, Addresses
    <3> QED
      BY <1>1, <3>1, <3>2
  <2> QED
    BY <2>2, <2>4, <2>6, <2>7, Zenon
<1>2. DifferentialInv => FrameSeparate
  <2> SUFFICES ASSUME DifferentialInv, NEW src \in Places[old.cap], NEW dst \in Places[old.cap],
                      NEW slot, pulse_respond(slot, src, dst) > 0
               PROVE  /\ Addresses(dst) \cap (Addresses(src) \cup Addresses(ContextRange)) = {}
                      /\ src.size + 2 <= dst.size
                      /\ Addresses(dst) \subseteq 1 .. AddressLimit
    BY Zenon DEF FrameSeparate
  <2>1. src.at \in Nat /\ src.size \in Nat /\ dst.at \in Nat /\ dst.size \in Nat
    BY DifferentialConstants, Zenon DEF DifferentialInv
  <2> QED
    BY <1>1, <2>1, Zenon
<1> QED
  BY <1>2, DifferentialInvariant, PTL
=============================================================================
