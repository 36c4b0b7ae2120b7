-------------------------- MODULE PulseMultiplexer --------------------------
(***************************************************************************)
(* The stream table of the Pulse candidate (DNS.Migration.PulseMultiplexer *)
(* and PulseSend.close_index), as operators on a table w: w.order          *)
(* (position -> slot, an active prefix and an available suffix), w.slot    *)
(* (slot -> id, phase), w.count and w.capacity.  Unlike Multiplexer it     *)
(* rejects a duplicate id itself, answers with positions, and has no       *)
(* active flags.                                                           *)
(***************************************************************************)
EXTENDS Multiplexer

Active(w)      == 0 .. w.count - 1
Hits(w, id)    == {i \in Active(w) : w.slot[w.order[i]].id = id}
FirstHit(w, id) == CHOOSE i \in Hits(w, id) : \A j \in Hits(w, id) : i <= j

(* Whose slots are in the active prefix.                                   *)
OpenSlots(w) == {w.order[i] : i \in Active(w)}

(* The first matching position, count on a miss.                           *)
find_index(w, id) == IF Hits(w, id) = {} THEN w.count ELSE FirstHit(w, id)

(* Faulty variant: an open id starts over.                                 *)
allocate_restarting(w, id, empty) ==
    IF Hits(w, id) = {} THEN [w |-> w, result |-> w.capacity]
    ELSE [w      |-> [w EXCEPT !.slot[w.order[FirstHit(w, id)]].phase = empty],
          result |-> FirstHit(w, id)]

(* Returns the old count, capacity when the id is taken or the table full. *)
pulse_allocate(w, id, empty) ==
    IF Hits(w, id) # {} \/ w.count >= w.capacity THEN [w |-> w, result |-> w.capacity]
    ELSE [w      |-> [w EXCEPT !.slot  = [w.slot EXCEPT ![w.order[w.count]] =
                                            [@ EXCEPT !.id = id, !.phase = empty]],
                               !.count = w.count + 1],
          result |-> w.count]

(* Swap position i with the last active one and shrink the prefix.         *)
close_index(w, i) ==
    [w EXCEPT !.order = [w.order EXCEPT ![i] = w.order[w.count - 1],
                                        ![w.count - 1] = w.order[i]],
              !.count = w.count - 1]

pulse_close(w, id) ==
    IF Hits(w, id) = {} THEN [w |-> w, closed |-> FALSE]
    ELSE [w |-> close_index(w, FirstHit(w, id)), closed |-> TRUE]

(* table_ok: the pointers are distinct and the prefix fits.                *)
OrderDistinct(w) == \A i, j \in Slot : w.order[i] = w.order[j] => i = j
=============================================================================
