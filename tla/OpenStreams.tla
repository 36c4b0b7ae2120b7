---------------------------- MODULE OpenStreams ----------------------------
(***************************************************************************)
(* What the stream table promises its callers: a map from the ids of the   *)
(* open streams to their state, of bounded size, in which an operation     *)
(* on one stream never touches another.                                    *)
(***************************************************************************)
EXTENDS Integers, FiniteSets, Functions

CONSTANTS StreamId, State, NewState, Capacity

VARIABLES
    open,   \* open stream id -> its state
    call    \* the last call

vars == <<open, call>>

Init ==
    /\ open = [id \in {} |-> NewState]
    /\ call = [op |-> "init", id |-> 0]

(* Input for a stream: it is opened if there is room, and moves on.  Only  *)
(* a full table refuses a new stream, and then changes nothing.            *)
Touch(id) ==
    /\ call' = [op |-> "input", id |-> id]
    /\ IF id \in DOMAIN open \/ Cardinality(DOMAIN open) < Capacity
       THEN \E state \in State :
               open' = [i \in DOMAIN open \cup {id} |-> IF i = id THEN state ELSE open[i]]
       ELSE UNCHANGED open

(* A reset, or a completed or dropped response: that stream is gone.       *)
Drop(id) ==
    /\ call' = [op |-> "close", id |-> id]
    /\ open' = Restrict(open, DOMAIN open \ {id})

Next == \E id \in StreamId : Drop(id) \/ Touch(id)

Spec == Init /\ [][Next]_vars
=============================================================================
