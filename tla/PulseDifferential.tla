------------------------- MODULE PulseDifferential --------------------------
(***************************************************************************)
(* The stable shell (Multiplexer, StreamPhase) and the shell built on the  *)
(* Pulse adapters (PulseAdapter), given the same calls side by side, as    *)
(* migration/c/pulse_{table,stream,response}_differential.c do.  Any       *)
(* sequence of calls is allowed where the tests run a fixed one.  At any   *)
(* time the candidate's descriptor may be corrupted; from then on only the *)
(* candidate is called, since the stable code has preconditions.           *)
(***************************************************************************)
EXTENDS PulseAdapter

CONSTANTS
    PairId,         \* ids used in calls
    Starts,         \* descriptors before any call, duplicate ids and invalid phases included
    Inputs,         \* for each capacity, the fragments delivered
    Places          \* for each capacity, the ranges of a response's source and destination

(* A phase both sides can hold: any tag, and lengths that the framing may  *)
(* not allow together.  A field that the tag does not have is 0.           *)
Representable ==
    {p \in [tag : {"ReadingLength", "ReadingLengthHigh", "ReadingMessage", "AwaitingFin",
                   "Processing", "Done"},
            hi : Byte, expected : 0 .. MaxMessage, current : Nat] :
        /\ p.tag # "ReadingLengthHigh" => p.hi = 0
        /\ p.tag \notin {"ReadingMessage", "AwaitingFin", "Processing"} => p.expected = 0
        /\ p.tag # "ReadingMessage" => p.current = 0}

ASSUME DifferentialConstants ==
    /\ \A start \in Starts :
          /\ start.order \in [Slot -> Slot] /\ start.cap \in 0 .. Capacity
          /\ start.ctx \in [Slot -> [id : Nat, phase : Representable, buf : Buffer]]
    /\ PairId \subseteq Nat
    /\ \A cap \in 0 .. Capacity : \A data \in Inputs[cap] : data \in Seq(Byte)
    /\ \A cap \in 0 .. Capacity : \A r \in Places[cap] : r.at \in Nat /\ r.size \in Nat

VARIABLES
    old,        \* the stable connection
    candidate,  \* the Pulse connection
    answer,     \* what the last call returned on each side
    corrupt     \* whether the candidate's descriptor was corrupted

pairVars == <<old, candidate, answer, corrupt>>

Both(x, y) == [old |-> x, candidate |-> y]

(* Where the stream contexts live, apart from all other storage.           *)
ContextRange == [at |-> 1, size |-> 2]

Connection(order, ctx, count, cap) ==
    [active |-> order, num |-> count, ctx |-> ctx,
     used |-> [s \in Slot |-> \E i \in 0 .. count - 1 : order[i] = s],
     own |-> [s \in Slot |-> s], cap |-> cap, based |-> TRUE]

(* initialize: the permutation, capacity and prefix of a descriptor.       *)
PairInit ==
    /\ \E start \in Starts :
          \E count \in 0 .. start.cap : old = Connection(start.order, start.ctx, count, start.cap)
    /\ PointersDistinct(old)
    /\ candidate = old
    /\ answer = Both(0, 0)
    /\ corrupt = FALSE

----------------------------------------------------------------------------
(* The stable side.  Outside its contract it is left alone.                *)

legacy_open(t, id) ==
    IF find_stream(t, id) = NULL /\ t.num >= t.cap THEN NotOpened(t)
    ELSE open_stream(t, id, ReadingLength)

StoredIn(opened, r) ==
    [table |-> [opened.table EXCEPT !.ctx[opened.slot] = r.ctx], code |-> r.code]

LegacyResult(ctx) == [ctx |-> ctx, code |-> shell_phase_code(ctx.phase)]

legacy_data(opened, data) ==
    IF opened.slot = NULL THEN [table |-> opened.table, code |-> 3]
    ELSE StoredIn(opened, LegacyResult(handle_stream_data(opened.table.ctx[opened.slot], data)))

legacy_fin(opened) ==
    IF opened.slot = NULL THEN [table |-> opened.table, code |-> 3]
    ELSE StoredIn(opened, LegacyResult(handle_stream_fin(opened.table.ctx[opened.slot])))

(* The shell's functions on the Pulse side.                                *)

pulse_data(opened, id, data) ==
    IF opened.slot = NULL THEN [table |-> opened.table, code |-> 3]
    ELSE StoredIn(opened, ism_pulse_ingress_data(opened.table.ctx[opened.slot], id, data))

pulse_fin(opened) ==
    IF opened.slot = NULL THEN [table |-> opened.table, code |-> 3]
    ELSE StoredIn(opened, ism_pulse_ingress_fin(opened.table.ctx[opened.slot]))

(* ism_shell_dispatch_stream_reset syncs whenever the table was accepted.  *)
pulse_reset(r) ==
    IF r.result = 1 THEN [r EXCEPT !.table = sync_stream_slots(@, ReadingLength)] ELSE r

(* Completion syncs when a flagged slot still carries the id.              *)
pulse_finished(r, id) ==
    IF r.result = 1 /\ \E s \in Slot : r.table.used[s] /\ r.table.ctx[s].id = id
    THEN [r EXCEPT !.table = sync_stream_slots(@, ReadingLength)] ELSE r

----------------------------------------------------------------------------
(* One action per call.                                                    *)

Called(t, x, c, y, refusal) ==
    /\ old' = IF corrupt THEN old ELSE t
    /\ candidate' = c
    /\ answer' = Both(IF corrupt THEN refusal ELSE x, y)
    /\ UNCHANGED corrupt

FindCall(id) ==
    Called(old, find_stream(old, id), candidate, ism_pulse_table_find(candidate, id), NULL)

Opened(l, p) == Called(l.table, l.slot, p.table, p.slot, NULL)
OpenCall(id) == Opened(legacy_open(old, id), ism_pulse_table_open(candidate, id))

ResetCall(id) ==
    \E p \in {pulse_reset(ism_pulse_table_close(candidate, id))} :
       Called(dispatch_stream_reset(old, id, ReadingLength), 1, p.table, p.result, 0)

(* ism_shell_complete_response_send and                                    *)
(* ism_shell_dispatch_response_send_finished, completed or dropped.        *)
SendFinishedCall(id) ==
    \E p \in {pulse_finished(ism_pulse_table_close(candidate, id), id)} :
       Called(dispatch_response_send_finished(old, id, ReadingLength), 1, p.table, p.result, 0)

Ingress(l, p) == Called(l.table, l.code, p.table, p.code, 3)

DataCall(id, data) ==
    Ingress(legacy_data(legacy_open(old, id), data),
            pulse_data(ism_pulse_table_open(candidate, id), id, data))

FinCall(id) ==
    Ingress(legacy_fin(legacy_open(old, id)), pulse_fin(ism_pulse_table_open(candidate, id)))

(* The stable framing requires usable, separate ranges.                    *)
FrameContract(src, dst) ==
    ism_response_disjoint(ContextRange, dst) /\ (src.size > 0 => ism_response_disjoint(src, dst))

pulse_respond(slot, src, dst) ==
    IF slot = NULL THEN 0
    ELSE ism_pulse_prepare_doq_response(ContextRange, candidate.own[slot], src, dst)

(* ism_shell_prepare_doq_response_send.                                    *)
Respond(id, src, dst) ==
    /\ answer' = Both(IF corrupt \/ find_stream(old, id) = NULL \/ ~FrameContract(src, dst)
                      THEN 0 ELSE framed_length(src.size, dst.size),
                      pulse_respond(ism_pulse_table_find(candidate, id), src, dst))
    /\ UNCHANGED <<old, candidate, corrupt>>

(* One field of the descriptor is spoilt, as in the tests' corrupt cases.  *)
Corrupted(t) ==
    {[t EXCEPT !.num = t.cap + 1], [t EXCEPT !.cap = Capacity + 1], [t EXCEPT !.based = FALSE],
     [t EXCEPT !.own[0] = NULL], [t EXCEPT !.used[0] = ~t.used[0]],
     [t EXCEPT !.active[Capacity - 1] = NULL],
     [t EXCEPT !.ctx[0].phase.tag = "99"],
     [t EXCEPT !.ctx[0].phase = AwaitingFin(MaxMessage + 1)]}
    \cup (IF Capacity > 1 THEN {[t EXCEPT !.active[Capacity - 1] = t.active[0]]} ELSE {})

Corrupt ==
    /\ ~corrupt
    /\ corrupt' = TRUE
    /\ candidate' \in Corrupted(candidate)
    /\ UNCHANGED <<old, answer>>

PairNext ==
    \/ \E id \in PairId : \/ FindCall(id) \/ OpenCall(id) \/ ResetCall(id)
                          \/ SendFinishedCall(id) \/ FinCall(id)
                          \/ \E data \in Inputs[old.cap] : DataCall(id, data)
                          \/ \E src, dst \in Places[old.cap] : Respond(id, src, dst)
    \/ Corrupt

PairSpec == PairInit /\ [][PairNext]_pairVars

----------------------------------------------------------------------------
(* compare of the differential tests: whatever the sequence of calls, both *)
(* shells give the same answers and hold the same permutation, count,      *)
(* contexts, message bytes and flags (docs/PULSE_TABLE_C_ABI.md).          *)
PortsAgree == ~corrupt => candidate = old /\ answer.candidate = answer.old

(* Invalid descriptors are refused "without shell mutation"                *)
(* (docs/PULSE_TABLE_C_ABI.md): a call on a corrupted connection answers   *)
(* NULL, 0 or 3 and changes none of it.                                    *)
CorruptRefused ==
    [][corrupt => candidate' = candidate /\ answer'.candidate = answer'.old]_pairVars

Addresses(r) == r.at .. r.at + r.size - 1

(* Whichever streams are open, a response is framed only into storage that *)
(* holds the whole frame, shares no byte with the response or the context, *)
(* and does not wrap around the address space.                             *)
FrameSeparate ==
    \A slot \in {ism_pulse_table_find(candidate, id) : id \in PairId} :
        \A src, dst \in Places[old.cap] :
            pulse_respond(slot, src, dst) > 0 =>
                /\ Addresses(dst) \cap (Addresses(src) \cup Addresses(ContextRange)) = {}
                /\ src.size + 2 <= dst.size
                /\ Addresses(dst) \subseteq 1 .. AddressLimit
=============================================================================
