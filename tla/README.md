# TLA+ models of ism, a DNS-over-QUIC server

ism answers DNS queries over QUIC. Verified F* code (Low*, extracted to C) frames streams, owns
the stream table and builds responses. An unverified C shell connects that code to MsQuic. The F*
proofs are about single calls. What no proof in the repository covers is the order in which calls
happen: fragments, FINs, aborts, send completions and shutdowns of several streams that share one
table, one send buffer and one event queue. These models are about that.

## The parts and how they interact

A RECEIVE event reaches `ism_msquic_runtime_stream_callback` with the stream's slot as context.
The stream runtime copies the bytes, stages an event in the shared queue and dispatches it. The
dispatcher opens the stream in the table of the one `ism_shell_connection`, and the framing state
machine advances its context. FIN turns a whole message into `Processing`. The adapter then builds
a response, frames it into its only send buffer and calls StreamSend through the connection
runtime. SEND_COMPLETE, an abort or SHUTDOWN_COMPLETE closes the table entry; SHUTDOWN_COMPLETE
also releases the slot and the handle. docs/THREAT_MODEL.md requires callbacks to be serialized,
so one callback is one atomic action.

| Module | Code | State and actions |
|---|---|---|
| `StreamPhase` | DNS.QUIC.StreamModel, DNS.QUIC.StreamMapping | operators: phases, `fragment_phase`, copy plan, `handle_stream_data`, `handle_stream_fin`; last, what a whole byte string amounts to (`WholeStreamPhase`, `WholeQuery`), the reference |
| `StreamFraming` | the same, one context | the wire, the delivered prefix, the context; `Data(n)`, `Fin` |
| `Multiplexer` | DNS.QUIC.Multiplexer, the table half of ism_shell.c | operators: find, open, close with compaction, sync. The shell opens streams itself and does not call `allocate_stream` |
| `StreamTable` | the same, under any calls | the table; `StreamInput`, `SendFinished`, `StreamReset` |
| `OpenStreams` | abstract | a map from open streams to phases |
| `EventQueue` | ism_event_queue.c | the ring; `Enqueue`, `Dequeue` |
| `Fifo` | abstract | a bounded FIFO |
| `DoqRuntime` | DNS.Worker.Minimal, ism_shell.c, msquic_adapter.c, ism_event_queue.c, msquic_runtime.c, msquic_connection_runtime.c | operators: everything that runs inside a callback, as functions of the shell's state |
| `DoqServer` | the composition, with MsQuic and a peer | one action per MsQuic event and per scheduler call |
| `MinimalWorker` | DNS.Worker.Minimal, the question grammar of everparse/DNSProtocol.3d | one call of a responder; `ErrorOnly`, `EmptyNoerror` and the validated entry, with one step per label scanned and per byte copied |
| `PulseMultiplexer`, `PulseSend` | DNS.Migration.PulseMultiplexer, DNS.Migration.PulseSend | the candidate table and the reservation of the entry whose response is in flight |
| `PulseAdapter` | migration/c/ism_pulse_*.c, shell/pulse_*_adapter.c | operators: descriptors, their validation, phases on the wire |
| `PulseDifferential` | the Pulse and the stable shell side by side, as in migration/c/pulse_*_differential.c | two connections given the same calls; the candidate's descriptor may be corrupted |
| `ShellSmokes` | the five sequential smoke programs | the program, its next call, the shell; a call's bytes arrive in any pieces |
| `SmokeSession` | msquic_lifecycle_smoke.c, msquic_listener_smoke.c, msquic_stream_smoke.c | main's position, the handles, the flags under the mutex; main's calls and polls, one step per critical section of a callback |
| `StreamLemmas` | | lemmas about `StreamPhase` and `Multiplexer` that the proofs below share |
| `ShellProofs` | | theorems about `StreamFraming`, `StreamTable` and `PulseDifferential` |
| `ServerLemmas` | | lemmas about `DoqRuntime` and `DoqServer` that the proofs below share |
| `DoqRuntimeProofs`, `DoqServerProofs` | | theorems about `DoqServer` when nothing is staged: first what the handlers of `DoqRuntime` do to its invariant, then its actions and properties |
| `DoqStagedLemmas`, `DoqStagedProofs` | | theorems about `DoqServer` with staged events, in the same two parts |
| `SequentialProofs` | | theorems about `EventQueue`, `MinimalWorker`, `PulseSend` and `SmokeSession` |
| `MC*` | | instances for TLC |

Definitions keep the source's names where they translate a function; `PROJECT.json` maps each to
its lines. Definitions marked "faulty variant" are plausible bugs. No specification uses them;
they show which property would notice the bug. (`open_free_slot` stands in for `open_stream` in
the same way.)

## Abstractions

- A byte has two values and a message is at least two bytes long in the instances (256 and 12 in
  the code). Both are constants, and the proofs hold for all of them.
- In `DoqRuntime` a response is its framed length, its RCODE and the question it echoes, and which
  messages the question validator accepts is the constant `ValidQuestion`. `MinimalWorker` has the
  validator and the responses byte by byte.
- `DoqRuntime` uses the queue as a sequence; the `queue` run shows that the ring is one.
- `StreamTable` abstracts the handlers: an input moves the stream to any phase.
- NULL-pointer and zero-capacity guards are left out: the objects are those the runtime itself
  allocated, and capacities are positive. The Pulse adapters' checks of descriptors are the
  exception: they are what `CorruptRefused` is about.
- The phase conversions of the Pulse adapters are four switches of their own, as in the C
  (`phase_to_wire`, `decode_phase`, `encode`, `phase_from_wire`), so that `PortsAgree` sees a wrong
  case in any of them.
- uint32 sums in framing are over naturals, because `advance_message_checked` rejects before it
  adds. The ring's sums wrap at `Word`.

MsQuic is external. The model assumes what the shell relies on: a stream's bytes arrive in order;
FIN is reported at their end, by the RECEIVE flag, by PEER_SEND_SHUTDOWN, or by both; each accepted
send completes exactly once, before SHUTDOWN_COMPLETE, which is the stream's last event; StreamSend
may fail at any time and does fail once the peer stopped the stream or the connection is closing.

The smoke sessions assume more of MsQuic: a Close returns once the handle's callbacks have, with no
callback after it; RegistrationClose waits for the registration's connections to be closed; a
connection whose other end is gone is shut down in the end.

## Runs

| Run | What it shows |
|---|---|
| `framing` | Every string of up to six two-valued bytes, every fragmentation, every stale buffer: the phase is that of the prefix, the buffer holds the body, and FIN accepts exactly whole zero-ID queries |
| `table` | Four streams over three slots: pointers stay a permutation, flags and contexts agree with the prefix, no stream has two contexts or another's bytes, open streams keep their slot, and the table refines `OpenStreams` |
| `queue` | The ring refines `Fifo` through wrap-around |
| `worker` | Every short name, cut off anywhere: the scan accepts exactly the well-formed questions, and each call returns the response its request calls for, with nothing left of the buffer's old bytes |
| `server` | Two streams, aborts, failed sends, shutdown: the bytes in flight never change, three records of the send agree, the stream in flight keeps its context, responses answer their own stream's query and are sent once, no entry outlives its slot, and the connection is closed with a protocol error only for a peer's fault or a buffer larger than the ingress buffer. With fairness, the send slot is always given back and every ready stream is served |
| `server_staged` | Ready events are staged until the queue is full. A completion waits behind them and is lost only to a full queue; even then the send slot belongs to a stream that can give it back, and the buffer in flight is not touched unless the peer stopped its stream (see Findings) |
| `server_reconnect` | Three connections in a row through one runtime, one stream each: every connection leaves the runtime as it found it, and no response answers an earlier connection's query |
| `shutdown_refused` | Expected violation, see Findings |
| `pulse_send` | From every table the contracts allow: the reservation follows its context through every swap, finishing removes exactly that context, and nothing else changes it meanwhile |
| `pulse_ports` | The Pulse shell answers every call as the stable shell does, refuses corrupted descriptors without effect, and accepts a frame copy only between separate ranges |
| `smoke_session` | The programs on real MsQuic: children are closed before parents, nothing outlives main, success means an answered query, every session ends, and one without faults succeeds |
| `shell_smokes` | What the sequential smoke programs assert of results, table, send slot and buffer, queue, slots and closed handles, however the bytes are cut. Not replayed: the FIN flag and the call count of the fake send, addresses, the bytes of the ingress buffer, and the adapter with buffers of capacity zero |

Bounds.

- `table`: four ids over three slots make the table overflow, compact in the middle and reuse slots;
  id 0 is among them because reset slots also carry it.
- `framing`: wires of six bytes reach every phase and both sides of every length test.
- `worker`: with labels of at most two bytes and names of at most five, a six-byte name area over
  0..3 has labels and names below, at and above their limits, with the root missing, early or late,
  and requests end before, in and after it. Headers that break each rule come at four lengths, and
  the three capacities fit nothing, the header, or everything.
- `server`: two streams suffice for the contention on one send buffer. Stream 0 sends a valid
  question and stream 4 everything else as well, since the roles are otherwise symmetric.
  `Fragments` limits the sizes delivered to pieces of 1 and 3 bytes or the rest, in two buffers cut
  anywhere; the `framing` run has every size. The ingress buffer holds three bytes, fewer than a
  framed message, so that a RECEIVE buffer may or may not fit it: the shell then closes the
  connection of a peer that did nothing wrong (msquic_runtime.c:48), which `ProtocolErrorJustified`
  names (`Oversized`).
- `server_staged`: the queue has two entries and both may be staged, so it is empty, partly full
  and full when each event arrives. The properties of `server` are not checked here: some of them
  fail (see Findings).
- `server_reconnect`: the third connection follows one that itself followed another.
- `pulse_send`: three slots put the reserved context first, in the middle or last, and let another
  share its id.
- `pulse_ports`: a connection of one stream starts in every valid phase and in the invalid ones
  the C tests try; connections of capacity 0, 2 and 3 start with every pointer order and ids that
  may repeat. Ten addresses give ranges that are apart, touch, overlap, and reach the last address.
- `smoke_session`: a wait is two polls (10000 in the code), enough to succeed at once, later or
  never; the response comes in two RECEIVE events, either of which the client may fail to keep.
- `shell_smokes`: the ingress buffer holds six bytes, the longest message of
  `smoke_protocol_errors`, so that those are refused for what is wrong with them.

Fairness. In `server`, MsQuic completes the sends it accepted (weak fairness). The
embedder's scheduler serves a stream that is servable again and again (strong fairness, because
another stream may take the send slot in between). docs/UNVERIFIED_SHELL.md:50-54 says a second
ready stream "requires explicit scheduling after that slot becomes available" and that fairness is
not proved, so this is an obligation of the embedder, not a fact about the code in src/. The
formulas use each action's guard in place of ENABLED. Peers owe nothing. In `smoke_session`, main is
a running thread and MsQuic delivers the events it has (weak fairness of each); every event
happens a bounded number of times, so no event needs fairness of its own.

## Findings

`shutdown_refused`: docs/UNVERIFIED_SHELL.md:289-290 says the connection runtime "closes the MsQuic
stream handle when the stream shutdown callback completes". `ism_msquic_adapter_on_stream_reset`
refuses the reset of one stream while another stream's send is in flight (msquic_adapter.c:201), and
`ism_msquic_connection_runtime_stream_callback` releases the slot only on success. A stream that
shuts down in that window keeps its slot, entry and handle, and no later event frees them. The
adapter's refusal itself is intended (shell/link_msquic_adapter_smoke.c:201-208).

The entry left behind has a consequence. `server_reconnect` has one stream per connection, so no
reset is refused in it. With two streams per connection `FreshStart` fails, and so does
`ResponseAnswersQuery`: the next connection's stream of the same id finds the old entry. No
document promises otherwise, so there is no run for it.

A full queue (`server_staged`) refuses SEND_COMPLETE after the runtime's flags were cleared. The
completion is lost and the send slot stays taken at least until that stream's SHUTDOWN_COMPLETE.
This is why `SendSlotFreed` is checked only where nothing is staged.

Staged events can also end a send too early. Stream 4 is ready and its READY event is staged. The
peer stops the stream; the runtime sees no send of it in flight, enqueues RESET, and `dispatch_one`
takes the head of the queue, the READY, which hands the response to MsQuic. When the embedder
dispatches the RESET, the adapter takes it for the completion (msquic_adapter.c:206) and frees the
send slot, so a third stream's response may be framed over bytes that MsQuic has not completed.
docs/THREAT_MODEL.md:58 says the shell "must hold send storage unchanged until matching
completion". `SendBufferStable` therefore fails with three streams and a staged READY, and
`server_staged` checks `SendBufferHeld`, which excepts streams the peer stopped. Its two streams do
not reach the overwriting, but `SendBufferHeld` is proved for any number of streams and of staged
events (`BytesHeld`), so the peer's stop is the only way to it. With nothing staged
`SendBufferStable` itself is proved.

## Proofs

TLAPS checks every proof module without omitted steps.

`ShellProofs` on the table, for every `Capacity` > 0 and every set of ids that contains 0. The
inductive invariant is `TableInv /\ BuffersIsolated`: types, the pointer permutation, flags equal to
the prefix, reset free slots and distinct ids. None of these is inductive alone. That close removes
the right context needs the ids distinct; that open finds a free slot at the end of the prefix needs
the flags synced; both need the permutation. From it follow `TableTypeCorrect`, `PointersOwned`,
`FlagsSynced`, `OneContext`, `SlotStable` and `Refinement`.

`ShellProofs` on framing, for every radix > 0, every minimal length from 2 to the largest a prefix
can announce, every set of wires and every stale buffer. `FramingInv` adds two facts to the
properties: FIN comes last, and the buffer holds the body of every prefix not yet rejected, FIN or
not. `PhaseStep` and `BodyStep` (`StreamLemmas`) show that one fragment takes the phase and the
buffer of a prefix to those of the longer prefix. From it follow `FramingTypeCorrect`,
`Fragmentation`, `Body` and `WholeQueriesOnly`.

`DoqRuntimeProofs` and `DoqServerProofs`, for every table capacity, number of stream slots, buffer
and queue capacity, every set of streams, every set of byte strings and fragment sizes. `ServerInv`
says of each stream how five records of it agree: what MsQuic reported (`peer`), its stream slot,
its table entry and context, its send, and the adapter's send slot. Per stream it is `BoundOK` (the
slot is its own), `EntryOK` (an entry is never orphaned, and ready only after FIN), `PendingOK`
(while MsQuic owns the response, the adapter's record, the slot's, the buffer and the context all
name it), `SentOK` (a response answers the stream's query, and a completed one closed its entry);
and, until a protocol error, `FramedOK` (the entry stands where the peer's bytes put it). No run
property is inductive alone. `SendBufferStable` needs that the adapter's flag is set while a send is
pending, which needs that a reset of the stream is deferred, which needs the slot's own flag.
`ResponseAnswersQuery` needs the framing facts at the moment of serving; they hold of streams the
peer has not stopped, since an abort closes an entry that later bytes open afresh, and only on those
does StreamSend succeed. One callback runs several handlers, so the invariant
is an operator `Inv(m, p)` on a shell value and a peer value; each handler is shown to keep it for
its stream and to leave the others' records alone (`Touches`), and a RECEIVE composes two buffers
and a FIN, stopping at the first failure. From it follow `TypeCorrect`, `SendBufferIsStable`,
`SendIsTracked`, `InFlightIsHeld`, `ResponsesAnswer`, `NoEntryOrphaned`, `SendSlotIsOwned`,
`StartsFresh`, `AtMostOneResponse` and `ErrorsAreJustified`. They assume:

- `Scope`: nothing is staged by the embedder (`StageLimit = 0`), and either one connection is served
  or every connection has one stream. Otherwise `SendBufferStable` and `ResponseAnswersQuery` are
  false, as Findings shows; what holds with staged events is the subject of `DoqStagedProofs`.
- `StreamId = {0}` for `StartsFresh`, for the same reason.
- `EntryPerSlot` for `ErrorsAreJustified`: the table has an entry for every stream slot, as in every
  caller of `ism_msquic_connection_runtime_init`. With more slots the shell closes the connection of
  a peer that did nothing wrong. The ingress buffer may have any size: a RECEIVE buffer it cannot
  hold is one of the causes `ProtocolErrorJustified` allows, and the only one that is not the
  peer's.

`DoqStagedLemmas` and `DoqStagedProofs`, for the same constants and any `StageLimit`. Between
callbacks the queue now holds READY events, completions and resets, some of them stale, and a full
queue refuses new ones. `StagedInv` does not follow what each queued event will do; it says what
every event may be and what holds of the records whichever is dispatched next:

- Per stream, `SlotBound` and `OwedHeld`: its slot is its own, and as long as MsQuic owes a
  completion the slot waits for it, with the response's length; unless the peer stopped the stream,
  the adapter waits as well and the send buffer holds the frame. `SentOnce` and `ReadyEnded`: a
  response follows the stream's end, after which the slot refuses further bytes, so a stream with
  one is ready only while that send is in flight. `AdapterRecord`: the send slot's record is that
  of a response that was sent.
- `QueueOK`: a queued completion is one that MsQuic reported, and a queued reset is of a stream that
  the peer cancelled or that is over. So a reset can free the send slot of a live stream only if the
  peer stopped it.
- `SlotHeld`: the stream of the send in flight has its runtime slot, or its reset is queued.

SEND_COMPLETE's handler runs before MsQuic's own record of the send changes, so the invariant takes
the set of completed streams as a parameter and the handler's lemmas add the stream to it. Between
the handler of FIN and the runtime's flag for it a stream is ready whose slot does not say so;
another parameter exempts it. `dispatch_all` is a loop: `IsRun` unfolds it as a function of the
number of iterations, and `RunInv` is the loop's invariant. From `StagedInv` follow
`StagedTypeCorrect`, `BytesHeld` (`SendBufferHeld`) and `StagedSlotOwned`. `CompletionIsKept` and
`StagedOneResponse` are action properties, and each action is shown to keep them together with the
invariant (`Progress`). The assumption is `OneConnection`: a second connection reuses the ids and
finds what a refused reset of the first left behind, as Findings shows.

`SequentialProofs` on the queue, for every capacity whose double fits the index word. The type
invariant is inductive (`QueueTypeCorrect`) and is all that `QueueRefinement` needs: `Ring` reads
the array from head as a sequence, and `RingAppend` and its counterpart for dequeue show that a step
changes it as the FIFO changes.

`SequentialProofs` on `MinimalWorker`, for every limit, buffer size, request, stale buffer and
capacity. `IInv` says what holds at each point of a call. The scan is a loop, and a name is
well-formed when some cut of it into labels exists, so two facts about the loop are needed: the
positions behind the scan are label starts (an accepted name has a cut), and every cut of a
well-formed name passes through the scan's position (a well-formed name is not refused). The copy
loop needs only that the bytes below its index are the request's. From it follow `ScanCorrect` and
`ResponseCorrect`.

`SequentialProofs` on `PulseSend`, for every capacity, every set of ids and every starting table
with distinct pointers. The invariant is `SendTypeOK`, distinct pointers and `ReservationTracks`;
without distinct pointers a swap could move the reserved context to two positions. From it follow
`ReservationTracked`, `FinishExact` and `HeldStable`.

`ShellProofs` on `PulseDifferential`, for every capacity, starting connection, set of ids,
fragment and address space. `DifferentialInv` says that two uncorrupted connections are equal and
`Intact`, the contract under which the adapters accept a snapshot, and that a corrupted one is
`Refusing`. Its core is one lemma per call: on an intact connection the stable call and the one
through snapshot, neutral descriptor and write-back give the same answer and the same, again intact,
connection. The phases' conversion to the wire and back loses nothing (`RoundTrip`), the two lookups
find the same position and the two compactions swap the same pointers. `DifferentialConstants` says
that the starting contexts hold lengths a context can hold. From it follow `PortsAlwaysAgree`,
`CorruptionIsRefused` and `FramesAreSeparate`.

`SequentialProofs` on `SmokeSession`, for every set of the three programs, every number of polls in
a wait and of RECEIVE events. Main is a list of setup steps and a list of cleanup steps that any
setup step may jump to, so the invariant (`SessionInv`) is about the position in them: before a
setup step every handle of an earlier step is open, before a cleanup step every handle of an earlier
one is not (`SetupPosition`, `CleanupPosition`). With what the lists themselves say, that a handle's
parent is opened before it and closed after it, this gives `HandlesNest` (`ChildrenClosedFirst`) and
`MainLeavesNothing` (`NothingOutlivesMain`), for every exit at once. A callback between its two
critical sections needs its connection open (`CheckingHolds`), since Close waits for it. `Reported`
ties the flags to MsQuic's record of the response, for `ZeroMeansAnswered`
(`ExitZeroMeansAnswered`).

TLC checked the inductive invariants on the instances of the runs before they were proved.

Only model-checked:

- `ShellSmokes`: five fixed programs, whose state spaces TLC covers whole.
- All liveness, that of `server` and of `smoke_session`: fairness and ENABLED are out of the prover's
  reach.

## Not modelled

`PROJECT.json` lists every part with its status.

- Two connections alive at once. The runtime has one table keyed by stream id and one send slot, and
  ids repeat across connections, so the parts would share state by design of the prototype.
- The bytes of the framed response's prefix copy; a frame is its length, RCODE and question.
- Zone tree, zone-file parser, authoritative worker, message parser and serializer, names and
  options: pure functions over lists and bytes with F* proofs of their own. The shell calls none of
  them.
- The recursive cache and its suffix policy: one slot, sequential calls, effect stated in F*. The
  sharded cache sends every name to shard 0. No program calls them.
- Generated validators except the question's, cryptographic stubs, link and ABI smokes, build and
  CI: no state of their own.
