-------------------------- MODULE MCMinimalWorker ---------------------------
(* Labels of up to two bytes, names of up to five.                         *)
EXTENDS MinimalWorker, Sequences

Good == <<0, 0, 135, 255, 0, 1, 0, 0, 0, 0, 0, 0>>
Headers == {[Good EXCEPT ![i] = @ + 1] : i \in {1, 2, 5, 6, 7, 8, 9, 10, 11, 12}}

\* The bytes after the header: a name area of every content, then the rest.
Names == [1 .. 6 -> 0 .. 3]
Rest == <<1, 0, 0, 1>>

Buffer(header, name) == [i \in 0 .. 21 |-> (header \o name \o Rest)[i + 1]]

MCRequests ==
    {[buf |-> Buffer(Good, name), len |-> n] : name \in Names, n \in 16 .. 22}
    \cup {[buf |-> Buffer(header, <<1, 1, 0, 0, 1, 0>>), len |-> n] :
            header \in Headers \cup {Good}, n \in {0, 11, 12, 19}}

MCStale == {[i \in 0 .. 21 |-> 9]}
MCCapacities == {11, 18, 22}
=============================================================================
