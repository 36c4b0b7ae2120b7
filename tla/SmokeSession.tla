---------------------------- MODULE SmokeSession ----------------------------
(***************************************************************************)
(* The programs that drive real MsQuic: msquic_lifecycle_smoke.c and       *)
(* msquic_listener_smoke.c (open handles, close them) and                  *)
(* msquic_stream_smoke.c (a client and the server exchange one query over  *)
(* loopback).  The main thread opens handles, polls flags that MsQuic's    *)
(* threads set under a mutex, and cleans up; each critical section of a    *)
(* callback is one step.  All state lives on main's stack.                 *)
(*                                                                         *)
(* MsQuic is external.  Assumed of it: a call may fail; a Close returns    *)
(* once the handle's callbacks have and no callback follows;               *)
(* RegistrationClose waits for the registration's connections to be        *)
(* closed; a connection whose other end is gone is shut down in the end;   *)
(* SEND_COMPLETE may precede the receiver's callbacks.                     *)
(***************************************************************************)
EXTENDS Integers, Sequences

CONSTANTS
    Programs,   \* which of the programs are run
    Polls,      \* polls of a wait (10000 in the code)
    Chunks      \* RECEIVE events in which the response arrives

ASSUME SessionConstants ==
    /\ Programs \subseteq {"lifecycle", "listener", "stream"}
    /\ Polls \in Nat \ {0} /\ Chunks \in Nat \ {0}

(* The handle each handle was opened under.                                *)
Parent ==
    [server_registration |-> "api", client_registration |-> "api",
     server_configuration |-> "server_registration",
     client_configuration |-> "client_registration",
     listener |-> "server_registration", server_connection |-> "server_registration",
     client_connection |-> "client_registration",
     client_stream |-> "client_connection", server_stream |-> "server_connection"]

Handle == DOMAIN Parent \cup {"api"}

----------------------------------------------------------------------------
(* What main does, in order: open a handle, make a call, wait for a flag.  *)

Open(h) == [kind |-> "open", what |-> h]
Call(c) == [kind |-> "call", what |-> c]
Wait(c) == [kind |-> "wait", what |-> c]

LifecycleSetup ==
    <<Open("api"), Open("server_registration"), Open("server_configuration"), Open("listener"),
      Call("pass")>>

ListenerSetup ==
    <<Open("api"), Open("server_registration"), Open("server_configuration"), Open("listener"),
      Call("listener_start"), Call("local_address"), Call("pass")>>

ServerSetup ==
    <<Open("api"), Open("server_registration"), Open("client_registration"),
      Open("server_configuration"), Open("client_configuration"), Call("credentials"),
      Open("listener"), Call("listener_start"), Call("local_address")>>

ClientSetup ==
    <<Open("client_connection"), Call("connection_start"), Wait("client_connected"),
      Open("client_stream"), Call("stream_start"), Wait("client_stream_started"),
      Call("stream_send"), Wait("server_response"), Call("verdict")>>

(* Faulty variant: the server's registration is closed first.              *)
CleanupServerFirst ==
    <<"client_stream", "server_registration", "client_connection", "listener",
      "client_configuration", "server_configuration", "client_registration", "api">>

StreamCleanup ==
    <<"client_stream", "client_connection", "listener", "client_configuration",
      "server_configuration", "client_registration", "server_registration", "api">>

SmallCleanup == <<"listener", "server_configuration", "server_registration", "api">>

Setup(p) ==
    CASE p = "lifecycle" -> LifecycleSetup
      [] p = "listener"  -> ListenerSetup
      [] p = "stream"    -> ServerSetup \o ClientSetup

Cleanup(p) == IF p = "stream" THEN StreamCleanup ELSE SmallCleanup

VARIABLES
    program,   \* the program that runs
    faulty,    \* whether calls fail, the transport breaks and waits time out
    pc,        \* main: stage "setup", "cleanup" or "exited", and step
    polls,     \* polls left in the current wait
    handle,    \* per handle "null", "open" or "closed"
    flags,     \* the state shared under the mutex
    net,       \* MsQuic
    checking,  \* a callback has read server_send_complete and will set failed
    result     \* main's exit code

chosen == <<program, faulty>>

vars == <<chosen, pc, polls, handle, flags, net, checking, result>>

(* ism_msquic_stream_smoke_state; received counts the response's chunks.   *)
NoFlags ==
    [failed |-> FALSE, client_connected |-> FALSE, client_stream_started |-> FALSE,
     server_send_complete |-> FALSE, client_response_finished |-> FALSE, received |-> 0]

(* link: the client's connection; stream: the client's stream; query and   *)
(* response: the sends; lost: the chunks the client could not keep.        *)
Quiet == [listening |-> FALSE, link |-> "idle", stream |-> "idle", query |-> "none",
          response |-> "none", lost |-> 0]

Init ==
    /\ program \in Programs
    /\ faulty \in BOOLEAN
    /\ pc = [stage |-> "setup", step |-> 1]
    /\ polls = Polls
    /\ handle = [h \in Handle |-> "null"]
    /\ flags = NoFlags
    /\ net = Quiet
    /\ checking = FALSE
    /\ result = 1

IsOpen(h) == handle[h] = "open"

----------------------------------------------------------------------------
(* Main.                                                                   *)

Step == Setup(program)[pc.step]
At(kind) == pc.stage = "setup" /\ Step.kind = kind

Advance == pc' = [pc EXCEPT !.step = @ + 1] /\ polls' = Polls

(* Faulty variant: the small programs return wherever a call fails.        *)
ReturnAtOnce ==
    /\ pc' = [stage |-> IF program # "stream" THEN "exited" ELSE "cleanup", step |-> 1]
    /\ polls' = Polls

(* goto cleanup.  The two small programs return at once when MsQuicOpen2   *)
(* fails.                                                                  *)
GoCleanup ==
    /\ pc' = IF Step.what = "api" /\ program # "stream"
             THEN [stage |-> "exited", step |-> 1] ELSE [stage |-> "cleanup", step |-> 1]
    /\ polls' = Polls

MainOpen ==
    /\ At("open")
    /\ \/ /\ handle' = [handle EXCEPT ![Step.what] = "open"]
          /\ Advance
       \/ /\ faulty
          /\ GoCleanup
          /\ UNCHANGED handle
    /\ UNCHANGED <<chosen, flags, net, checking, result>>

(* The effect of a successful call on MsQuic.                              *)
Started(c) ==
    CASE c = "listener_start"   -> [net EXCEPT !.listening = TRUE]
      [] c = "connection_start" -> [net EXCEPT !.link = "starting"]
      [] c = "stream_start"     -> [net EXCEPT !.stream = "starting"]
      [] c = "stream_send"      -> [net EXCEPT !.query = "pending"]
      [] OTHER                  -> net

MainCall ==
    /\ At("call")
    /\ Step.what \notin {"verdict", "pass"}
    /\ \/ net' = Started(Step.what) /\ Advance
       \/ faulty /\ GoCleanup /\ UNCHANGED net
    /\ UNCHANGED <<chosen, handle, flags, checking, result>>

(* Faulty variant: waits for either end.                                   *)
condition_either(c) ==
    CASE c = "client_connected"      -> flags.client_connected
      [] c = "client_stream_started" -> flags.client_stream_started
      [] c = "server_response"       -> flags.server_send_complete \/ flags.client_response_finished

condition_met(c) ==
    CASE c = "client_connected"      -> flags.client_connected
      [] c = "client_stream_started" -> flags.client_stream_started
      [] c = "server_response"       -> flags.server_send_complete /\ flags.client_response_finished

(* Faulty variant: one poll too many.                                      *)
MainPollOnceMore ==
    /\ At("wait")
    /\ \/ flags.failed /\ GoCleanup
       \/ ~flags.failed /\ condition_met(Step.what) /\ Advance
       \/ /\ ~flags.failed /\ ~condition_met(Step.what) /\ faulty
          /\ IF polls = 0 THEN GoCleanup ELSE polls' = polls - 1 /\ UNCHANGED pc
    /\ UNCHANGED <<chosen, handle, flags, net, checking, result>>

(* One poll: failed is tested before the condition; the last one gives up. *)
(* Without faults the wait is long enough.                                 *)
MainPoll ==
    /\ At("wait")
    /\ \/ flags.failed /\ GoCleanup
       \/ ~flags.failed /\ condition_met(Step.what) /\ Advance
       \/ /\ ~flags.failed /\ ~condition_met(Step.what) /\ faulty
          /\ IF polls = 1 THEN GoCleanup ELSE polls' = polls - 1 /\ UNCHANGED pc
    /\ UNCHANGED <<chosen, handle, flags, net, checking, result>>

(* The flags are read again under the lock.                                *)
Verdict ==
    /\ ~flags.failed
    /\ flags.server_send_complete /\ flags.client_response_finished
    /\ flags.received = Chunks

MainVerdict ==
    /\ At("call")
    /\ Step.what \in {"verdict", "pass"}
    /\ result' = IF Step.what = "pass" \/ Verdict THEN 0 ELSE 1
    /\ GoCleanup
    /\ UNCHANGED <<chosen, handle, flags, net, checking>>

Closing == Cleanup(program)[pc.step]

(* A handle that was not opened is skipped.  Closing waits for the running *)
(* callback; closing a registration waits for its connections.             *)
MayClose(h) ==
    /\ h = "client_connection" => ~checking
    /\ h = "server_registration" => ~IsOpen("server_connection")

(* The server is not told of the silent shutdown of the client's           *)
(* connection and may still find packets of it.                            *)
Silenced(h) ==
    CASE h = "listener" -> [net EXCEPT !.listening = FALSE]
      [] h = "client_connection" /\ net.link # "idle" -> [net EXCEPT !.link = "down"]
      [] OTHER -> net

MainClose ==
    /\ pc.stage = "cleanup"
    /\ IF IsOpen(Closing)
       THEN /\ MayClose(Closing)
            /\ handle' = [handle EXCEPT ![Closing] = "closed"]
            /\ net' = Silenced(Closing)
       ELSE UNCHANGED <<handle, net>>
    /\ pc' = IF pc.step = Len(Cleanup(program)) THEN [stage |-> "exited", step |-> 1]
             ELSE [pc EXCEPT !.step = @ + 1]
    /\ UNCHANGED <<chosen, polls, flags, checking, result>>

Exited == pc.stage = "exited" /\ UNCHANGED vars

Main == MainOpen \/ MainCall \/ MainPoll \/ MainVerdict \/ MainClose

----------------------------------------------------------------------------
(* MsQuic's threads.                                                       *)

main == <<chosen, pc, polls, result>>

(* The connection is lost, or main's cleanup aborts the client's stream.   *)
StreamGone == net.link = "down" \/ pc.stage = "cleanup"

(* NEW_CONNECTION; a connection that cannot be configured is refused, and  *)
(* MsQuic closes it.                                                       *)
ListenerCallback ==
    /\ net.listening /\ IsOpen("listener")
    /\ net.link \in {"starting", "down"} /\ handle["server_connection"] = "null"
    /\ \/ /\ handle' = [handle EXCEPT !["server_connection"] = "open"]
          /\ UNCHANGED net
       \/ /\ faulty
          /\ handle' = [handle EXCEPT !["server_connection"] = "closed"]
          /\ net' = [net EXCEPT !.link = IF @ = "down" THEN @ ELSE "refused"]
    /\ UNCHANGED <<main, flags, checking>>

ClientConnected ==
    /\ IsOpen("client_connection") /\ IsOpen("server_connection") /\ net.link = "starting"
    /\ net' = [net EXCEPT !.link = "up"]
    /\ flags' = [flags EXCEPT !.client_connected = TRUE]
    /\ UNCHANGED <<main, handle, checking>>

(* SHUTDOWN_INITIATED_BY_TRANSPORT: reads server_send_complete under the   *)
(* lock, and sets failed in a second critical section.                     *)
TransportShutdown ==
    /\ IsOpen("client_connection")
    /\ net.link = "refused" \/ (faulty /\ net.link \in {"starting", "up"})
    /\ net' = [net EXCEPT !.link = "down"]
    /\ checking' = ~flags.server_send_complete
    /\ UNCHANGED <<main, handle, flags>>

TransportShutdownFails ==
    /\ checking
    /\ checking' = FALSE
    /\ flags' = [flags EXCEPT !.failed = TRUE]
    /\ UNCHANGED <<main, handle, net>>

(* START_COMPLETE.                                                         *)
StreamStarted ==
    /\ IsOpen("client_stream") /\ net.stream = "starting" /\ net.link = "up"
    /\ \/ /\ net' = [net EXCEPT !.stream = "started"]
          /\ flags' = [flags EXCEPT !.client_stream_started = TRUE]
       \/ /\ faulty
          /\ net' = [net EXCEPT !.stream = "failed"]
          /\ flags' = [flags EXCEPT !.failed = TRUE]
    /\ UNCHANGED <<main, handle, checking>>

(* PEER_STREAM_STARTED: a stream whose id cannot be read is refused.       *)
PeerStreamStarted ==
    /\ IsOpen("server_connection") /\ handle["server_stream"] = "null"
    /\ net.stream = "started"
    /\ \/ handle' = [handle EXCEPT !["server_stream"] = "open"] /\ UNCHANGED flags
       \/ /\ faulty
          /\ handle' = [handle EXCEPT !["server_stream"] = "closed"]
          /\ flags' = [flags EXCEPT !.failed = TRUE]
    /\ UNCHANGED <<main, net, checking>>

(* The runtime gets the query with its FIN and sends, or StreamSend fails. *)
ServerReceive ==
    /\ IsOpen("server_stream")
    /\ net.query # "none" /\ net.response = "none"
    /\ \/ net' = [net EXCEPT !.response = "pending"]
       \/ faulty /\ net' = [net EXCEPT !.response = "failed"]
    /\ UNCHANGED <<main, handle, flags, checking>>

(* The client's send completes when it is acknowledged, be it before the   *)
(* server's callback has seen the query, or is canceled.                   *)
ClientSendComplete ==
    /\ IsOpen("client_stream") /\ net.query = "pending"
    /\ net' = [net EXCEPT !.query = "done"]
    /\ \/ UNCHANGED flags
       \/ StreamGone /\ flags' = [flags EXCEPT !.failed = TRUE]
    /\ UNCHANGED <<main, handle, checking>>

(* RECEIVE: an event without its buffers, or with more than the response   *)
(* buffer holds, sets failed and its chunk is lost.                        *)
ClientReceive ==
    /\ IsOpen("client_stream") /\ net.link = "up"
    /\ net.response \in {"pending", "done"} /\ flags.received + net.lost < Chunks
    /\ \/ flags' = [flags EXCEPT !.received = @ + 1] /\ UNCHANGED net
       \/ /\ faulty
          /\ flags' = [flags EXCEPT !.failed = TRUE]
          /\ net' = [net EXCEPT !.lost = @ + 1]
    /\ UNCHANGED <<main, handle, checking>>

ClientPeerSendShutdown ==
    /\ IsOpen("client_stream") /\ net.link = "up"
    /\ flags.received + net.lost = Chunks /\ ~flags.client_response_finished
    /\ flags' = [flags EXCEPT !.client_response_finished = TRUE]
    /\ UNCHANGED <<main, handle, net, checking>>

(* Faulty variant: a canceled send counts as complete.                     *)
SendCompleteUnchecked ==
    /\ IsOpen("server_stream") /\ net.response = "pending"
    /\ \/ net.link = "up" /\ net' = [net EXCEPT !.response = "done"]
       \/ StreamGone /\ net' = [net EXCEPT !.response = "canceled"]
    /\ flags' = [flags EXCEPT !.server_send_complete = TRUE]
    /\ UNCHANGED <<main, handle, checking>>

ServerSendComplete ==
    /\ IsOpen("server_stream") /\ net.response = "pending"
    /\ \/ /\ net.link = "up"
          /\ net' = [net EXCEPT !.response = "done"]
          /\ flags' = [flags EXCEPT !.server_send_complete = TRUE]
       \/ /\ StreamGone
          /\ net' = [net EXCEPT !.response = "canceled"]
          /\ flags' = [flags EXCEPT !.failed = TRUE]
    /\ UNCHANGED <<main, handle, checking>>

(* SHUTDOWN_COMPLETE of the server's stream: the runtime accepts the reset *)
(* and the handle is closed.                                               *)
ServerStreamShutdown ==
    /\ IsOpen("server_stream") /\ net.response # "pending"
    /\ StreamGone \/ (net.response = "done" /\ net.query = "done")
    /\ handle' = [handle EXCEPT !["server_stream"] = "closed"]
    /\ UNCHANGED <<main, flags, net, checking>>

(* Faulty variant: the connection is not closed.                           *)
ShutdownWithoutClose ==
    /\ IsOpen("server_connection") /\ ~IsOpen("server_stream") /\ net.link = "down"
    /\ UNCHANGED vars

(* SHUTDOWN_COMPLETE of the server's connection, after its streams'.       *)
ServerConnectionShutdown ==
    /\ IsOpen("server_connection") /\ ~IsOpen("server_stream") /\ net.link = "down"
    /\ handle' = [handle EXCEPT !["server_connection"] = "closed"]
    /\ UNCHANGED <<main, flags, net, checking>>

MsQuic ==
    \/ ListenerCallback \/ ClientConnected
    \/ TransportShutdown \/ TransportShutdownFails
    \/ StreamStarted \/ PeerStreamStarted
    \/ ServerReceive \/ ServerSendComplete
    \/ ClientSendComplete \/ ClientReceive \/ ClientPeerSendShutdown
    \/ ServerStreamShutdown \/ ServerConnectionShutdown

Next == Main \/ MsQuic \/ Exited

(* Main is a running thread, and MsQuic delivers the events it has.  Each  *)
(* event happens a bounded number of times, so fairness of their           *)
(* disjunction is enough.                                                  *)
Spec == Init /\ [][Next]_vars /\ WF_vars(Main) /\ WF_vars(MsQuic)

----------------------------------------------------------------------------
TypeOK ==
    /\ pc.stage \in {"setup", "cleanup", "exited"} /\ pc.step \in Nat \ {0}
    /\ polls \in 1 .. Polls
    /\ handle \in [Handle -> {"null", "open", "closed"}]
    /\ flags \in [failed : BOOLEAN, client_connected : BOOLEAN, client_stream_started : BOOLEAN,
                  server_send_complete : BOOLEAN, client_response_finished : BOOLEAN,
                  received : 0 .. Chunks]
    /\ checking \in BOOLEAN /\ result \in {0, 1}

(* Whichever call fails and whenever callbacks arrive, no handle is closed *)
(* while a handle opened under it is open: the order of the cleanup and    *)
(* the wait in RegistrationClose cover the server's connection, which main *)
(* never sees.                                                             *)
ChildrenClosedFirst ==
    \A h \in DOMAIN Parent : IsOpen(h) => IsOpen(Parent[h])

(* When main returns, every handle that was opened has been closed and no  *)
(* callback is between its critical sections, so none can touch the mutex  *)
(* and the flags on main's stack any more.                                 *)
NothingOutlivesMain ==
    pc.stage = "exited" => (\A h \in Handle : ~IsOpen(h)) /\ ~checking

(* The stream program exits with 0 only when the server's send completed   *)
(* uncanceled and the client has the whole response.                       *)
ExitZeroMeansAnswered ==
    program = "stream" /\ result = 0 => net.response = "done" /\ flags.received = Chunks

(* The program always ends, through every failing call, timeout and broken *)
(* transport: the blocking RegistrationClose does return.                  *)
Terminates == <>(pc.stage = "exited")

(* Without faults the exchange succeeds, whatever the order in which       *)
(* MsQuic's threads report it.                                             *)
ExchangeSucceeds == ~faulty => <>(pc.stage = "exited" /\ result = 0)
=============================================================================
