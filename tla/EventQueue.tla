----------------------------- MODULE EventQueue -----------------------------
(***************************************************************************)
(* The fixed-capacity ring of ism_event_queue.c.  Indices are uint32_t:    *)
(* sums wrap at Word.                                                      *)
(***************************************************************************)
EXTENDS Integers, Sequences

CONSTANTS
    Event,           \* the events the shell may stage
    NoEvent,         \* the content of an entry never written
    QueueCapacity,   \* queue->capacity
    Word             \* 2^32 in the code

(* The ring has storage, and head + count fits the word: the code compares *)
(* the sum with the capacity only after adding.                            *)
ASSUME QueueConstants ==
    /\ QueueCapacity \in Nat \ {0}
    /\ Word \in Nat
    /\ 2 * QueueCapacity <= Word
    /\ NoEvent \notin Event

VARIABLES
    events, head, count,   \* queue->events, queue->head, queue->count
    ret                    \* the last call and what it returned

queueVars == <<events, head, count, ret>>

Index == 0 .. QueueCapacity - 1

QueueInit ==
    /\ events = [i \in Index |-> NoEvent]
    /\ head = 0
    /\ count = 0
    /\ ret = [call |-> "init", ok |-> TRUE, event |-> NoEvent]

Refused(call) ==
    /\ ret' = [call |-> call, ok |-> FALSE, event |-> NoEvent]
    /\ UNCHANGED <<events, head, count>>

(* Faulty variant: the tail does not follow the head.                      *)
TailFromZero == count

TailIndex ==
    LET sum == (head + count) % Word
    IN  IF sum >= QueueCapacity THEN sum - QueueCapacity ELSE sum

EnqueueAccepted(e) ==
    /\ count < QueueCapacity
    /\ events' = [events EXCEPT ![TailIndex] = e]
    /\ count' = count + 1
    /\ ret' = [call |-> "enqueue", ok |-> TRUE, event |-> NoEvent]
    /\ UNCHANGED head

Enqueue(e) == EnqueueAccepted(e) \/ (count >= QueueCapacity /\ Refused("enqueue"))

NextHead == IF (head + 1) % Word >= QueueCapacity THEN 0 ELSE head + 1

DequeueAccepted ==
    /\ count # 0
    /\ ret' = [call |-> "dequeue", ok |-> TRUE, event |-> events[head]]
    /\ head' = NextHead
    /\ count' = count - 1
    /\ UNCHANGED events

Dequeue == DequeueAccepted \/ (count = 0 /\ Refused("dequeue"))

QueueNext == Dequeue \/ \E e \in Event : Enqueue(e)

QueueSpec == QueueInit /\ [][QueueNext]_queueVars

----------------------------------------------------------------------------
QueueTypeOK ==
    /\ events \in [Index -> Event \cup {NoEvent}]
    /\ head \in Index
    /\ count \in 0 .. QueueCapacity
    /\ ret \in [call : {"init", "enqueue", "dequeue"}, ok : BOOLEAN, event : Event \cup {NoEvent}]

(* The i-th oldest event lives i - 1 places after head, around the ring.   *)
RingIndex(i) == IF head + i - 1 >= QueueCapacity THEN head + i - 1 - QueueCapacity
                ELSE head + i - 1

Held == [i \in 1 .. count |-> events[RingIndex(i)]]

AbstractQueue == INSTANCE Fifo WITH queue <- Held

(* Every accepted event is dispatched exactly once and in order, and only  *)
(* a full ring refuses one, across any number of wrap-arounds (enqueue,    *)
(* dequeue).                                                               *)
ImplementsFifo == AbstractQueue!Spec
=============================================================================
