------------------------------- MODULE Fifo --------------------------------
(***************************************************************************)
(* What the shell's event queue promises: a bounded first-in first-out     *)
(* queue.  A call that is refused changes nothing.                         *)
(***************************************************************************)
EXTENDS Integers, Sequences

CONSTANTS Event, NoEvent, QueueCapacity

VARIABLES
    queue,   \* the events held, oldest first
    ret      \* the last call, whether it was accepted, the event it handed out

vars == <<queue, ret>>

Init == queue = <<>> /\ ret = [call |-> "init", ok |-> TRUE, event |-> NoEvent]

Put(e) ==
    /\ Len(queue) < QueueCapacity
    /\ queue' = Append(queue, e)
    /\ ret' = [call |-> "enqueue", ok |-> TRUE, event |-> NoEvent]

Get ==
    /\ queue # <<>>
    /\ queue' = Tail(queue)
    /\ ret' = [call |-> "dequeue", ok |-> TRUE, event |-> Head(queue)]

(* Only a full queue refuses an event, only an empty one has none to give. *)
Refuse(call) ==
    /\ IF call = "enqueue" THEN Len(queue) = QueueCapacity ELSE queue = <<>>
    /\ ret' = [call |-> call, ok |-> FALSE, event |-> NoEvent]
    /\ UNCHANGED queue

Next ==
    \/ Get
    \/ \E e \in Event : Put(e)
    \/ \E call \in {"enqueue", "dequeue"} : Refuse(call)

Spec == Init /\ [][Next]_vars
=============================================================================
