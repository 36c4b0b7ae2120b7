---------------------------- MODULE Multiplexer ----------------------------
(***************************************************************************)
(* The fixed-capacity stream table of a connection, as operators on a      *)
(* table value: the pointer permutation of DNS.QUIC.Multiplexer (an active *)
(* prefix, an available suffix) and the shell's slots of ism_shell.c.      *)
(*                                                                         *)
(* A table t has t.active (cc_active: position -> slot), t.num (cc_num),   *)
(* t.ctx (slot -> stream_context: id, phase, buf) and t.used (slot ->      *)
(* the shell's active flag).                                               *)
(***************************************************************************)
EXTENDS Integers

CONSTANT Capacity   \* ISM_SHELL_MAX_STREAMS (4 in the code)

ASSUME CapacityAssumption == Capacity \in Nat \ {0}

Slot == 0 .. Capacity - 1
NULL == -1

Prefix(t)      == 0 .. t.num - 1
ActiveSlots(t) == {t.active[i] : i \in Prefix(t)}
ActiveIds(t)   == {t.ctx[s].id : s \in ActiveSlots(t)}

(* Positions of the active prefix that hold the stream.                    *)
Matches(t, id) == {i \in Prefix(t) : t.ctx[t.active[i]].id = id}
FirstMatch(t, id) == CHOOSE i \in Matches(t, id) : \A j \in Matches(t, id) : i <= j

reset_stream(ctx, empty) == [ctx EXCEPT !.id = 0, !.phase = empty]

(* conn->active points every slot at itself; message buffers start as buf. *)
connection_init(empty, buf) ==
    [active |-> [i \in Slot |-> i],
     num    |-> 0,
     ctx    |-> [s \in Slot |-> [id |-> 0, phase |-> empty, buf |-> buf]],
     used   |-> [s \in Slot |-> FALSE]]

(* Faulty variant: takes the position in cc_active for the slot.           *)
find_position(t, id) ==
    IF Matches(t, id) = {} THEN NULL ELSE FirstMatch(t, id)

find_stream(t, id) ==
    IF Matches(t, id) = {} THEN NULL ELSE t.active[FirstMatch(t, id)]

(* ism_shell_open_stream for a stream that is not open: the slot of the    *)
(* first pointer of the available suffix is taken, if its flag is clear.   *)
(* Returns the table and the slot, NULL when there is none.                *)
open_free_slot(t, id, empty) ==
    LET free == t.active[t.num]
    IN  IF t.num >= Capacity \/ t.used[free] THEN [table |-> t, slot |-> NULL]
        ELSE [table |-> [t EXCEPT
                            !.ctx  = [t.ctx EXCEPT ![free] =
                                        [@ EXCEPT !.id = id, !.phase = empty]],
                            !.used = [t.used EXCEPT ![free] = TRUE],
                            !.num  = t.num + 1],
              slot  |-> free]

open_stream(t, id, empty) ==
    LET existing == find_stream(t, id)
    IN  IF existing # NULL THEN [table |-> t, slot |-> existing]
        ELSE open_free_slot(t, id, empty)

(* Faulty variants: shrinks the prefix without a match; overwrites the     *)
(* removed pointer; moves the last context instead of its pointer; drops   *)
(* the last stream whatever the id.                                        *)
close_unmatched(t, id) == [t EXCEPT !.num = t.num - 1]

close_overwriting(t, id) ==
    IF Matches(t, id) = {} THEN t
    ELSE [t EXCEPT !.active[FirstMatch(t, id)] = t.active[t.num - 1], !.num = t.num - 1]

close_moving_context(t, id) ==
    IF Matches(t, id) = {} THEN t
    ELSE [t EXCEPT !.ctx[t.active[FirstMatch(t, id)]] = t.ctx[t.active[t.num - 1]],
                   !.num = t.num - 1]

close_last(t, id) ==
    IF Matches(t, id) = {} THEN t ELSE [t EXCEPT !.num = t.num - 1]

(* Swap the removed pointer with the last active one and shrink the        *)
(* prefix; the removed slot keeps its id and flag until the shell syncs.   *)
close_stream(t, id) ==
    IF Matches(t, id) = {} THEN t
    ELSE LET i    == FirstMatch(t, id)
             last == t.num - 1
         IN  [t EXCEPT !.active = [t.active EXCEPT ![i] = t.active[last],
                                                   ![last] = t.active[i]],
                       !.num    = last]

(* Faulty variant: clears the flags and leaves the contexts.               *)
sync_flags_only(t, empty) ==
    [t EXCEPT !.used = [s \in Slot |-> s \in ActiveSlots(t)]]

sync_stream_slots(t, empty) ==
    [t EXCEPT
        !.ctx  = [s \in Slot |-> IF s \in ActiveSlots(t) THEN t.ctx[s]
                                 ELSE reset_stream(t.ctx[s], empty)],
        !.used = [s \in Slot |-> s \in ActiveSlots(t)]]

(* A completed or dropped response: both outcomes close the stream.        *)
dispatch_response_send_finished(t, id, empty) ==
    LET closed == close_stream(t, id)
    IN  IF \E s \in Slot : closed.used[s] /\ closed.ctx[s].id = id
        THEN sync_stream_slots(closed, empty)
        ELSE closed

dispatch_stream_reset(t, id, empty) ==
    sync_stream_slots(close_stream(t, id), empty)

----------------------------------------------------------------------------
(* The table's representation invariant, used by the modules that hold a   *)
(* table.                                                                  *)

(* The pointers are a permutation of the slots.                            *)
PointersDistinct(t) == \A i, j \in Slot : t.active[i] = t.active[j] => i = j

(* The shell's flags mark exactly the slots of the active prefix.          *)
FlagsMatchPrefix(t) == \A s \in Slot : t.used[s] <=> s \in ActiveSlots(t)

(* No stream has two contexts.                                             *)
IdsDistinct(t) ==
    \A i, j \in Prefix(t) : t.ctx[t.active[i]].id = t.ctx[t.active[j]].id => i = j

(* A slot outside the prefix is as reset_stream leaves it.                 *)
FreeSlotsReset(t, empty) ==
    \A s \in Slot \ ActiveSlots(t) : t.ctx[s].id = 0 /\ t.ctx[s].phase = empty
=============================================================================
