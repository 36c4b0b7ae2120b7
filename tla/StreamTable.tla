---------------------------- MODULE StreamTable ----------------------------
(***************************************************************************)
(* The stream table under any serialized sequence of shell calls.  The     *)
(* stream handlers are abstracted to what the table can tell: a call moves *)
(* the stream to some phase and leaves that stream's bytes in the buffer   *)
(* of the slot the table gave it (handle_stream_data in StreamPhase is one *)
(* such move).                                                             *)
(***************************************************************************)
EXTENDS Multiplexer, FiniteSets

CONSTANTS
    StreamId,       \* QUIC stream ids; 0 is a legal one
    PhaseName,      \* the phases a stream can be in
    NewPhase        \* the phase of a new stream

ASSUME TableConstants ==
    /\ StreamId \subseteq Nat
    /\ 0 \in StreamId
    /\ NewPhase \in PhaseName

VARIABLES
    table,
    call     \* history: the last call, which table operations never read

vars == <<table, call>>

Stale == -1   \* a buffer that no stream has written

Init ==
    /\ table = connection_init(NewPhase, Stale)
    /\ call = [op |-> "init", id |-> 0]

(* A stream handler's write to its context.                                *)
Advance(t, s, id, phase) ==
    [t EXCEPT !.ctx = [t.ctx EXCEPT ![s] = [@ EXCEPT !.phase = phase, !.buf = id]]]

(* on_authenticated_stream_data and on_authenticated_stream_fin: open the  *)
(* stream if need be and run the handler; a full table changes nothing.    *)
StreamInput(id, phase) ==
    LET opened == open_stream(table, id, NewPhase)
    IN  /\ table' = IF opened.slot = NULL THEN opened.table
                    ELSE Advance(opened.table, opened.slot, id, phase)
        /\ call' = [op |-> "input", id |-> id]

SendFinished(id) ==
    /\ table' = dispatch_response_send_finished(table, id, NewPhase)
    /\ call' = [op |-> "close", id |-> id]

StreamReset(id) ==
    /\ table' = dispatch_stream_reset(table, id, NewPhase)
    /\ call' = [op |-> "close", id |-> id]

Next ==
    \E id \in StreamId :
        \/ \E phase \in PhaseName : StreamInput(id, phase)
        \/ SendFinished(id)
        \/ StreamReset(id)

Spec == Init /\ [][Next]_vars

----------------------------------------------------------------------------
Table ==
    [active : [Slot -> Slot],
     num    : 0 .. Capacity,
     ctx    : [Slot -> [id : StreamId, phase : PhaseName, buf : StreamId \cup {Stale}]],
     used   : [Slot -> BOOLEAN]]

TypeOK ==
    /\ table \in Table
    /\ call \in [op : {"init", "input", "close"}, id : StreamId]

(* Compaction keeps the pointer array a permutation of the slots, so that  *)
(* no context is lost or shared (slots_owned, close_stream).               *)
SlotsOwned == PointersDistinct(table)

(* Between calls the shell's active flags and contexts agree with the      *)
(* verified prefix: a stream is refused only when the table is full        *)
(* (sync_stream_slots, open_stream).                                       *)
SlotsSynced == FlagsMatchPrefix(table) /\ FreeSlotsReset(table, NewPhase)

(* Every stream has at most one context, id 0 included, although reset     *)
(* slots also carry id 0 (find_stream, open_stream).                       *)
OneContextPerStream == IdsDistinct(table)

(* The bytes in an open stream's buffer are its own once it has left       *)
(* NewPhase: no other stream wrote to its slot.                            *)
BuffersIsolated ==
    \A s \in ActiveSlots(table) :
        table.ctx[s].phase # NewPhase => table.ctx[s].buf = table.ctx[s].id

TableInv == TypeOK /\ SlotsOwned /\ SlotsSynced /\ OneContextPerStream

(* Closing a stream compacts pointers, not contexts: a stream that stays   *)
(* open keeps its slot, so a pointer the shell holds stays good.           *)
StreamsKeepTheirSlot ==
    [][\A s \in ActiveSlots(table), r \in ActiveSlots(table') :
          table.ctx[s].id = table'.ctx[r].id => s = r]_vars

(* The table implements the map from open streams to phases.               *)
SlotOf(id) == CHOOSE s \in ActiveSlots(table) : table.ctx[s].id = id

Abstract == INSTANCE OpenStreams WITH
    State <- PhaseName, NewState <- NewPhase,
    open  <- [id \in ActiveIds(table) |-> table.ctx[SlotOf(id)].phase]

(* Every call on the table is one operation on that map: it moves the      *)
(* stream it names or closes it, loses or changes no other, and refuses a  *)
(* new stream only when Capacity streams are open.                         *)
ImplementsOpenStreams == Abstract!Spec
=============================================================================
