----------------------------- MODULE DoqServer ------------------------------
(***************************************************************************)
(* One DoQ connection, or several one after the other on the same runtime: *)
(* the shell's callbacks (DoqRuntime) driven by MsQuic and a peer.  Every  *)
(* action is one MsQuic callback, or one call of the shell's scheduler,    *)
(* run to its end; callbacks are serialized.                               *)
(*                                                                         *)
(* MsQuic is external.  What is assumed of it is what the shell relies on: *)
(* a stream's bytes arrive in order; FIN is reported at their end, by the  *)
(* RECEIVE flag, by PEER_SEND_SHUTDOWN or by both; every accepted send is  *)
(* completed exactly once, and before the stream's SHUTDOWN_COMPLETE, its  *)
(* last event; StreamSend may fail, and fails once the peer has stopped    *)
(* the stream or the connection is shutting down.                          *)
(***************************************************************************)
EXTENDS DoqRuntime, FiniteSets

CONSTANTS
    Wires,     \* per stream, the byte strings the peer may send on it
    Fragments, \* sizes of the pieces in which bytes arrive, besides all that is left
    StageLimit, \* events the scheduler leaves in the queue at most
    MaxConnections, \* connections the listener reports
    Cancels    \* whether the peer resets streams or stops the server's sends

ASSUME ServerConstants ==
    /\ DOMAIN Wires = StreamId
    /\ \A id \in StreamId : Wires[id] \subseteq Seq(Byte)
    /\ Fragments \subseteq Nat
    /\ StageLimit \in Nat /\ StageLimit <= QueueCapacity
    /\ MaxConnections \in Nat
    /\ Cancels \in BOOLEAN

VARIABLES
    table, adapter, sendbuf, queue, slots,   \* the shell (see DoqRuntime)
    sends,   \* MsQuic: per stream, the send it was given
    peer,    \* MsQuic and the peer: per stream, what happened so far
    conn,    \* the connection: "open", "shutting", "closed" when there is none
    connections, \* how many the listener has reported
    fault    \* whether the shell reported DOQ_PROTOCOL_ERROR

shell == <<table, adapter, sendbuf, queue, slots, sends>>
vars  == <<table, adapter, sendbuf, queue, slots, sends, peer, conn, connections, fault>>

Shell == [table |-> table, adapter |-> adapter, sendbuf |-> sendbuf,
          queue |-> queue, slots |-> slots, sends |-> sends]

(* The callback leaves the shell in state m.                               *)
Becomes(m) ==
    /\ table' = m.table
    /\ adapter' = m.adapter
    /\ sendbuf' = m.sendbuf
    /\ queue' = m.queue
    /\ slots' = m.slots
    /\ sends' = m.sends

(* life: "idle" before the stream starts, "live" while it has events to    *)
(* come, "shut" after SHUTDOWN_COMPLETE, "closed" after StreamClose.       *)
Unstarted ==
    [life |-> "idle", slot |-> NULL, wire |-> <<>>, pos |-> 0,
     eof |-> FALSE, fin |-> FALSE, reset |-> FALSE, stopped |-> FALSE]

Unsent == [id \in StreamId |-> [state |-> "none", frame |-> NoFrame]]

Init ==
    /\ table = connection_init(ReadingLength, [i \in 0 .. MaxMessage - 1 |-> 0])
    /\ adapter = Idle
    /\ sendbuf = NoFrame
    /\ queue = <<>>
    /\ slots = [c \in ConnSlot |-> FreeSlot]
    /\ sends = Unsent
    /\ peer = [id \in StreamId |-> Unstarted]
    /\ conn = "closed"
    /\ connections = 0
    /\ fault = FALSE

Live(id) == peer[id].life = "live"

(* StreamSend succeeds, or fails for a reason of its own, while the        *)
(* stream's send side is open; it fails after that.                        *)
SendSide == {id \in StreamId : Live(id) /\ ~peer[id].stopped /\ conn = "open"}
StreamSendOutcome == {SendSide, {}}

(* A failed RECEIVE or FIN closes the owning connection.                   *)
protocol_error(ok) ==
    /\ fault' = (fault \/ ~ok)
    /\ conn' = IF ~ok /\ conn = "open" THEN "shutting" ELSE conn
    /\ UNCHANGED connections

----------------------------------------------------------------------------
(* Connection events.                                                      *)

(* The listener's NEW_CONNECTION: the same runtime serves the connection   *)
(* and nothing of the shell is initialized again; its streams are new and  *)
(* their ids start over.  ConnectionSetConfiguration may refuse it.        *)
AcceptConnection ==
    /\ conn = "closed"
    /\ connections < MaxConnections
    /\ connections' = connections + 1
    /\ \/ /\ conn' = "open"
          /\ peer' = [id \in StreamId |-> Unstarted]
          /\ sends' = Unsent
          /\ fault' = FALSE
       \/ UNCHANGED <<conn, peer, sends, fault>>
    /\ UNCHANGED <<table, adapter, sendbuf, queue, slots>>

(* PEER_STREAM_STARTED: bind a slot, or close the stream when there is     *)
(* none or GetParam fails.                                                 *)
PeerStreamStarted(id) ==
    /\ conn = "open"
    /\ peer[id].life = "idle"
    /\ \E wire \in Wires[id], getParam \in BOOLEAN :
          IF getParam /\ FreeSlots(Shell) # {}
          THEN LET r == allocate_slot(Shell, id)
               IN  /\ Becomes(r.m)
                   /\ peer' = [peer EXCEPT ![id].life = "live", ![id].slot = r.slot,
                                           ![id].wire = wire]
          ELSE /\ peer' = [peer EXCEPT ![id].life = "closed"]
               /\ UNCHANGED shell
    /\ UNCHANGED <<conn, connections, fault>>

(* The peer or the transport ends the connection; the shell only watches.  *)
ConnectionShutdownInitiated ==
    /\ conn = "open"
    /\ conn' = "shutting"
    /\ UNCHANGED <<shell, peer, connections, fault>>

(* SHUTDOWN_COMPLETE of the connection follows that of its streams;        *)
(* the shell calls ConnectionClose.                                        *)
ConnectionShutdownComplete ==
    /\ conn = "shutting"
    /\ \A id \in StreamId : ~Live(id)
    /\ conn' = "closed"
    /\ UNCHANGED <<shell, peer, connections, fault>>

(* A closed connection has no more events.                                 *)
ConnectionClosed ==
    /\ conn = "closed"
    /\ UNCHANGED vars

----------------------------------------------------------------------------
(* Stream events.                                                          *)

PeerData(r) == Becomes(r.m) /\ protocol_error(r.ok)

(* RECEIVE: the next n bytes in two buffers cut anywhere, FIN possibly     *)
(* flagged at the end of the stream.                                       *)
Receive(id, n, cut, flag) ==
    LET p     == peer[id]
        bytes == SubSeq(p.wire, p.pos + 1, p.pos + n)
    IN  /\ Live(id)
        /\ ~p.eof /\ ~p.fin /\ ~p.reset
        /\ n <= Len(p.wire) - p.pos
        /\ n \in Fragments \cup {Len(p.wire) - p.pos}
        /\ cut <= n
        /\ n > 0 \/ flag
        /\ flag => p.pos + n = Len(p.wire)
        /\ \E up \in StreamSendOutcome :
              PeerData(on_msquic_receive(Shell, p.slot, SubSeq(bytes, 1, cut),
                                         SubSeq(bytes, cut + 1, n), flag, up))
        /\ peer' = [peer EXCEPT ![id].pos = @ + n, ![id].eof = flag]

PeerSendShutdown(id) ==
    /\ Live(id)
    /\ peer[id].pos = Len(peer[id].wire)
    /\ ~peer[id].fin /\ ~peer[id].reset
    /\ \E up \in StreamSendOutcome : PeerData(on_fin(Shell, peer[id].slot, up))
    /\ peer' = [peer EXCEPT ![id].fin = TRUE]

SendComplete(id, canceled) ==
    /\ sends[id].state = "pending"
    /\ \E up \in StreamSendOutcome :
          LET r == on_send_complete(Shell, peer[id].slot, canceled, up)
          IN  Becomes([r.m EXCEPT !.sends[id].state = "done"])
    /\ UNCHANGED <<peer, conn, connections, fault>>

Aborted(id) ==
    \E up \in StreamSendOutcome : Becomes(on_stream_reset(Shell, peer[id].slot, up).m)

PeerSendAborted(id) ==
    /\ Cancels
    /\ Live(id)
    /\ ~peer[id].eof /\ ~peer[id].fin /\ ~peer[id].reset
    /\ Aborted(id)
    /\ peer' = [peer EXCEPT ![id].reset = TRUE]
    /\ UNCHANGED <<conn, connections, fault>>

PeerReceiveAborted(id) ==
    /\ Cancels
    /\ Live(id)
    /\ ~peer[id].stopped
    /\ Aborted(id)
    /\ peer' = [peer EXCEPT ![id].stopped = TRUE]
    /\ UNCHANGED <<conn, connections, fault>>

(* Both directions are over, or the connection is.                         *)
StreamOver(id) ==
    /\ Live(id)
    /\ sends[id].state # "pending"
    /\ \/ conn = "shutting"
       \/ /\ peer[id].fin \/ peer[id].reset
          /\ sends[id].state = "done" \/ peer[id].stopped

ReleasedIf(ok, m, id) ==
    /\ Becomes(IF ok THEN release_slot(m, peer[id].slot) ELSE m)
    /\ peer' = [peer EXCEPT ![id].life = IF ok THEN "closed" ELSE "shut"]

ShutDown(r, id) == ReleasedIf(r.ok, r.m, id)

(* Faulty variant: releases the slot although the reset was refused.       *)
ShutdownAlwaysReleases(id) ==
    /\ StreamOver(id)
    /\ \E up \in StreamSendOutcome :
          ReleasedIf(TRUE, on_stream_reset(Shell, peer[id].slot, up).m, id)
    /\ UNCHANGED <<conn, connections, fault>>

(* SHUTDOWN_COMPLETE: a reset; the slot is released and the handle closed  *)
(* when the reset is accepted.                                             *)
StreamShutdownComplete(id) ==
    /\ StreamOver(id)
    /\ \E up \in StreamSendOutcome : ShutDown(on_stream_reset(Shell, peer[id].slot, up), id)
    /\ UNCHANGED <<conn, connections, fault>>

----------------------------------------------------------------------------
(* The shell's scheduler, which the documentation leaves to the embedder.  *)

Ready(id) ==
    LET s == find_stream(table, id) IN s # NULL /\ table.ctx[s].phase.tag = "Processing"

(* Serve a ready stream once the send slot is free.                        *)
ServeReady(id) ==
    /\ Ready(id)
    /\ ~adapter.send_in_flight
    /\ queue = <<>>
    /\ \E up \in StreamSendOutcome :
          Becomes(EnqueueAndDispatch(Shell, Event("READY", id, <<>>, 0, FALSE), up).m)
    /\ UNCHANGED <<peer, conn, connections, fault>>

(* Stage a ready event and leave it for a later dispatch.                  *)
StageReady(id) ==
    /\ Len(queue) < StageLimit
    /\ Ready(id)
    /\ Becomes(enqueue(Shell, Event("READY", id, <<>>, 0, FALSE)).m)
    /\ UNCHANGED <<peer, conn, connections, fault>>

DispatchStaged ==
    /\ queue # <<>>
    /\ \E up \in StreamSendOutcome, max \in 1 .. QueueCapacity :
          Becomes(dispatch_all(Shell, max, up))
    /\ UNCHANGED <<peer, conn, connections, fault>>

----------------------------------------------------------------------------
StreamEvent(id) ==
    \/ \E n, cut \in 0 .. Len(peer[id].wire), flag \in BOOLEAN : Receive(id, n, cut, flag)
    \/ PeerSendShutdown(id)
    \/ \E canceled \in BOOLEAN : SendComplete(id, canceled)
    \/ PeerSendAborted(id)
    \/ PeerReceiveAborted(id)
    \/ StreamShutdownComplete(id)

Next ==
    \/ \E id \in StreamId : \/ PeerStreamStarted(id)
                            \/ StreamEvent(id)
                            \/ ServeReady(id)
                            \/ StageReady(id)
    \/ AcceptConnection
    \/ ConnectionShutdownInitiated
    \/ ConnectionShutdownComplete
    \/ ConnectionClosed
    \/ DispatchStaged

Spec == Init /\ [][Next]_vars

----------------------------------------------------------------------------
Frames == {NoFrame} \cup
    [len : 0 .. MaxMessage + 2, rcode : {"none", "NOERROR", "FORMERR"},
     question : ValidQuestion \cup {<<>>}]

TypeOK ==
    /\ table.active \in [Slot -> Slot] /\ table.num \in 0 .. Capacity
    /\ table.ctx \in [Slot -> [id : StreamId, phase : Phase, buf : Buffer]]
    /\ table.used \in [Slot -> BOOLEAN]
    /\ adapter \in [send_in_flight : BOOLEAN, send_stream_id : StreamId,
                    send_len : 0 .. MaxMessage + 2]
    /\ sendbuf \in Frames
    /\ Len(queue) <= QueueCapacity
    /\ slots \in [ConnSlot -> [in_use : BOOLEAN, stream_id : StreamId,
                               received_fin : BOOLEAN, send_in_flight : BOOLEAN,
                               reset_pending : BOOLEAN, response_len : 0 .. MaxMessage + 2]]
    /\ sends \in [StreamId -> [state : {"none", "pending", "done"}, frame : Frames]]
    /\ conn \in {"open", "shutting", "closed"}
    /\ connections \in 0 .. MaxConnections
    /\ fault \in BOOLEAN

Pending == {id \in StreamId : sends[id].state = "pending"}

(* The bytes MsQuic was given stay in the send buffer, unchanged, until    *)
(* MsQuic completes that send: no second response is framed over them      *)
(* (prepare_ready_response; docs/UNVERIFIED_SHELL.md:348-350).             *)
SendBufferStable == \A id \in Pending : sendbuf = sends[id].frame

(* With staged events the bytes stay unless the peer stopped the stream: a *)
(* READY event dispatched by the callback that enqueues the stream's RESET *)
(* starts the send, and the RESET, still in the queue, then counts as its  *)
(* completion (dispatch_event, adapter_on_stream_reset) although MsQuic    *)
(* still owes one; the next response may be framed over those bytes.       *)
SendBufferHeld == \A id \in Pending : sendbuf = sends[id].frame \/ peer[id].stopped

(* The adapter's in-flight record, the slot's and MsQuic's agree between   *)
(* callbacks: the send slot is taken exactly while MsQuic owes a           *)
(* completion, and the completion will match its id and length.            *)
SendTracked ==
    /\ adapter.send_in_flight => Pending = {adapter.send_stream_id}
    /\ \A id \in Pending :
          /\ adapter = [send_in_flight |-> TRUE, send_stream_id |-> id,
                        send_len |-> sends[id].frame.len]
          /\ LET slot == slots[peer[id].slot]
             IN  slot.in_use /\ slot.stream_id = id /\ slot.send_in_flight
                    /\ slot.response_len = sends[id].frame.len

(* The stream of an in-flight response keeps its context, in Processing:   *)
(* neither resets, late data nor other streams recycle it before the       *)
(* matching completion (docs/THREAT_MODEL.md:58).                          *)
InFlightStreamHeld == adapter.send_in_flight => Ready(adapter.send_stream_id)

ExpectedFrame(w) ==
    LET q == SubSeq(w, 3, Len(w))
    IN  IF q \in ValidQuestion THEN Frame(Len(q) + 2, "NOERROR", q)
        ELSE Frame(MinMessage + 2, "FORMERR", <<>>)

(* What the shell sends on a stream answers the one query the peer framed  *)
(* on that stream, through every fragmentation, slot reuse, reset and      *)
(* delayed service.                                                        *)
ResponseAnswersQuery ==
    \A id \in StreamId :
        sends[id].state # "none" =>
            /\ WholeQuery(peer[id].wire)
            /\ sends[id].frame = ExpectedFrame(peer[id].wire)

(* Every open table entry belongs to a stream that still has a slot: a     *)
(* slot is released only after its table entry is closed, so with no more  *)
(* slots than table entries the table is never the one to overflow.        *)
NoOrphanEntry ==
    \A id \in ActiveIds(table) : \E c \in ConnSlot : slots[c].in_use /\ slots[c].stream_id = id

(* RECEIVE hands over a buffer that the slot's ingress buffer cannot hold. *)
Oversized(id) ==
    \E n, cut \in 0 .. Len(peer[id].wire), flag \in BOOLEAN :
        /\ Receive(id, n, cut, flag)
        /\ cut > IngressCapacity \/ n - cut > IngressCapacity

(* An event of the stream for which the connection may be closed.          *)
Blamed(id) ==
    /\ peer'[id] # peer[id]
    /\ ~WholeQuery(peer[id].wire) \/ peer[id].stopped \/ Oversized(id)

(* The shell closes the connection only by an event of a stream whose peer *)
(* broke the framing or ID rules on it, or cancelled it (STOP_SENDING)     *)
(* before it had finished sending, or in whose RECEIVE a buffer exceeds    *)
(* ingress_capacity (copy_enqueue_and_dispatch).  Neither the cutting of a *)
(* query into pieces that fit nor what happens on other streams is ever    *)
(* answered that way.                                                      *)
ProtocolErrorJustified ==
    [][~fault /\ fault' => \E id \in StreamId : Blamed(id)]_vars

(* A stream is given at most one response, and its record never changes    *)
(* after it completed, as long as its connection lasts.                    *)
OneResponsePerStream ==
    [][conn # "closed" => \A id \in StreamId :
          /\ sends[id].state = "pending" => sends'[id].frame = sends[id].frame
          /\ sends[id].state = "done" => sends'[id] = sends[id]]_vars

(* docs/UNVERIFIED_SHELL.md:289-290: the connection runtime "closes the    *)
(* MsQuic stream handle when the stream shutdown callback completes".      *)
HandleClosedAfterShutdown == \A id \in StreamId : peer[id].life # "shut"

(* The completion of the send in flight: MsQuic owes it, or it is queued.   *)
CompletionExpected ==
    \/ adapter.send_stream_id \in Pending
    \/ \E i \in 1 .. Len(queue) :
          /\ queue[i].kind = "SEND_COMPLETE"
          /\ queue[i].stream_id = adapter.send_stream_id
          /\ queue[i].len = adapter.send_len

(* With staged events a completion may wait in the queue behind them, but  *)
(* it is never lost: while the send slot stays taken its completion stays  *)
(* expected, unless MsQuic reports it to a full queue, which refuses it    *)
(* (on_send_complete, dispatch_all).                                       *)
CompletionNotLost ==
    [][/\ adapter.send_in_flight /\ adapter' = adapter
       /\ CompletionExpected
       /\ Len(queue) < QueueCapacity \/ sends' = sends
       => CompletionExpected']_vars

(* A full queue refuses completions and resets.  The send slot is          *)
(* nevertheless never taken on behalf of a stream nobody holds: either the *)
(* stream's runtime slot is still bound, so that its SHUTDOWN_COMPLETE can *)
(* give the send slot back, or its reset waits in the queue.               *)
SendSlotOwned ==
    adapter.send_in_flight =>
        \/ SlotOf(Shell, adapter.send_stream_id) # {}
        \/ \E i \in 1 .. Len(queue) :
              queue[i].kind = "RESET" /\ queue[i].stream_id = adapter.send_stream_id

(* accept_connection resets nothing, so every connection has to leave the  *)
(* shared runtime as it found it: no open table entry, no taken stream     *)
(* slot or send slot, no event in the queue.                               *)
FreshStart ==
    conn = "closed" =>
        /\ ActiveIds(table) = {}
        /\ adapter = Idle
        /\ queue = <<>>
        /\ FreeSlots(Shell) = ConnSlot

----------------------------------------------------------------------------
(* MsQuic completes every send it accepted (weak fairness).  The           *)
(* embedder's scheduler serves every stream it could serve again and again *)
(* (strong fairness: another stream may take the send slot in between).    *)
(* The peer owes nothing.  Both are written with the action's guard in     *)
(* place of ENABLED, which is what they are enabled by.                    *)
Servable(id) == Ready(id) /\ ~adapter.send_in_flight /\ queue = <<>>

Fairness ==
    \A id \in StreamId :
        /\ <>[](sends[id].state = "pending") =>
                []<><<\E canceled \in BOOLEAN : SendComplete(id, canceled)>>_vars
        /\ []<>Servable(id) => []<><<ServeReady(id)>>_vars

FairSpec == Spec /\ Fairness

(* The single send slot never stays taken.                                 *)
SendSlotFreed == adapter.send_in_flight ~> ~adapter.send_in_flight

(* Every stream whose query was accepted is eventually answered or closed, *)
(* although only one response is in flight at a time.                      *)
ReadyStreamServed == \A id \in StreamId : Ready(id) ~> ~Ready(id)
=============================================================================
