----------------------------- MODULE PulseSend ------------------------------
(***************************************************************************)
(* DNS.Migration.PulseSend: one response is in flight and its stream's     *)
(* table entry is reserved, while other streams are opened and closed.     *)
(* The reservation remembers a position of the table; every close swaps    *)
(* positions, so the code has to move it along.  This is the protocol that *)
(* is meant to replace the adapter's send flags.                           *)
(***************************************************************************)
EXTENDS PulseMultiplexer

CONSTANTS
    SendId,   \* ids of streams
    Empty,      \* ReadingLength
    Ready       \* the phases a stream may be in otherwise

ASSUME SendConstants == SendId # {} /\ Empty \notin Ready

VARIABLES
    table,       \* the connection's table
    slot,        \* the send slot: id and index of the reservation, if pending
    held         \* history: the context reserved by begin_send, NULL if none

sendVars == <<table, slot, held>>

None == [pending |-> FALSE, id |-> CHOOSE id \in SendId : TRUE, index |-> 0]

Context == [id : SendId, phase : Ready \cup {Empty}]

(* Any table_ok table, duplicate ids included.                             *)
SendInit ==
    /\ \E order \in [Slot -> Slot], contexts \in [Slot -> Context],
          capacity \in 0 .. Capacity :
          \E count \in 0 .. capacity :
             table = [order |-> order, slot |-> contexts,
                      count |-> count, capacity |-> capacity]
    /\ OrderDistinct(table)
    /\ slot = None
    /\ held = NULL

begin_send(id) ==
    /\ ~slot.pending
    /\ Hits(table, id) # {}
    /\ slot' = [pending |-> TRUE, id |-> id, index |-> find_index(table, id)]
    /\ held' = table.order[find_index(table, id)]
    /\ UNCHANGED table

allocate_while_pending(id) ==
    /\ slot.pending
    /\ table' = pulse_allocate(table, id, Empty).w
    /\ UNCHANGED <<slot, held>>

(* Faulty variant: leaves the cursor behind.                               *)
close_with_stale_cursor(id) ==
    /\ slot.pending
    /\ id # slot.id
    /\ Hits(table, id) # {}
    /\ table' = close_index(table, FirstHit(table, id))
    /\ UNCHANGED <<slot, held>>

(* The reserved id is refused; the last position moves to the gap, and so  *)
(* does a reservation that was there.                                      *)
close_other(id) ==
    /\ slot.pending
    /\ id # slot.id
    /\ Hits(table, id) # {}
    /\ table' = close_index(table, FirstHit(table, id))
    /\ slot' = [slot EXCEPT !.index = IF @ = table.count - 1 THEN FirstHit(table, id) ELSE @]
    /\ UNCHANGED held

(* Faulty variant: looks the stream up again instead of using the cursor.  *)
finish_by_id(id) ==
    /\ slot.pending
    /\ id = slot.id
    /\ table' = pulse_close(table, id).w
    /\ slot' = None
    /\ held' = NULL

(* A completion or drop of the reserved id; any other is refused.          *)
finish_send(id) ==
    /\ slot.pending
    /\ id = slot.id
    /\ table' = close_index(table, slot.index)
    /\ slot' = None
    /\ held' = NULL

(* The table's own operations, used while nothing is in flight.            *)
allocate_stream_idle(id) ==
    /\ ~slot.pending
    /\ table' = pulse_allocate(table, id, Empty).w
    /\ UNCHANGED <<slot, held>>

close_stream_idle(id) ==
    /\ ~slot.pending
    /\ table' = pulse_close(table, id).w
    /\ UNCHANGED <<slot, held>>

SendNext ==
    \E id \in SendId :
        \/ begin_send(id)
        \/ allocate_while_pending(id)
        \/ close_other(id)
        \/ finish_send(id)
        \/ allocate_stream_idle(id)
        \/ close_stream_idle(id)

SendSpec == SendInit /\ [][SendNext]_sendVars

----------------------------------------------------------------------------
SendTypeOK ==
    /\ table \in [order : [Slot -> Slot], slot : [Slot -> Context],
                  count : 0 .. Capacity, capacity : 0 .. Capacity]
    /\ table.count <= table.capacity
    /\ slot \in [pending : BOOLEAN, id : SendId, index : Slot]
    /\ held \in Slot \cup {NULL}

(* reserved_connection: through every swap of close_other, the cursor of a *)
(* pending send points at the context that begin_send reserved, which is   *)
(* still open under the descriptor's id.                                   *)
ReservationTracks ==
    slot.pending =>
        /\ slot.index < table.count
        /\ table.order[slot.index] = held
        /\ table.slot[held].id = slot.id

(* What finish_send takes out of the table is exactly the reserved         *)
(* context: every other open context stays open, also one with the same id *)
(* that an earlier swap moved in front of it.                              *)
FinishRemovesHeld ==
    [][slot.pending /\ ~slot'.pending =>
          OpenSlots(table') = OpenSlots(table) \ {held}]_sendVars

(* While a send is pending nothing recycles its context or changes it.     *)
HeldUndisturbed ==
    [][slot.pending /\ slot'.pending =>
          /\ held' = held
          /\ held \in OpenSlots(table')
          /\ table'.slot[held] = table.slot[held]]_sendVars
=============================================================================
