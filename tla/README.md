# Verification of juliet

juliet is a request/response protocol multiplexed over one stream: up to 256
channels, each with a limit on requests in flight and on payload sizes, frames
of a fixed maximum size, and messages that are cut into several frames if they
do not fit into one. The crate has three layers. The *protocol* layer is a pure
state machine, the *io* layer drives it over a transport and queues what cannot
be sent yet, and the *rpc* layer turns it into calls with timeouts.

This directory holds TLA+ models of all three layers, the TLC configurations
that check them, and TLAPS proofs about the protocol state, the cutting of
messages into frames, the encodings, the reading of frames from a stream of bytes,
the io layer and the rpc layer.

## 1. Inventory

| part | state | operations | interacts with |
|---|---|---|---|
| headers, varints (`header.rs`, `varint.rs`, `lib.rs`) | none | build, parse, measure | protocol |
| outgoing messages (`protocol/outgoing_message.rs`) | `FrameIter`: bytes processed | `frames`, `next_owned`, `truncate_to_single_frame` | protocol creates them, io sends them |
| multi-frame receiver (`protocol/multiframe.rs`) | `Ready`, or header, payload so far, total | `accept` | one per channel of the protocol |
| protocol (`protocol.rs`) | per channel: incoming and outgoing request IDs, receiver, cancellation allowance, last ID | `create_request`, `create_response`, `cancel_request`, `cancel_response`, `custom_error`, `process_incoming` | called by the io layer only |
| io core (`io.rs`) | wait queues, ready queue, frame being written, active multi-frame headers, request map, pending error, item receiver | `next_event`: parse, write, read, receive items | transport; handles, through an mpsc channel and semaphores |
| io handles (`io.rs`) | permits (shared with the queued items), next `IoId` | `reserve_request`, `enqueue_*`, drop | io core |
| rpc (`rpc.rs`) | pending guards, timeouts, channel of new requests | `next_request`, `process_timeouts`, `send_custom_error`, drop; guards; `IncomingRequest` | io core and handles |
| `util.rs`, `examples/` | none | indexing, formatting, a demonstration | |

What is hard here:

* Two peers act on the same request at the same time: the answer, a
  cancellation and a timeout can cross on the wire. Both sides count slots of
  the same limit and close the connection if the other one oversteps it.
* Frames of several messages are interleaved by the ready queue, and only one
  multi-frame message per channel may be under way.
* The wait queue is looked at only when something triggers it.
* An error must be the last thing sent, and must be sent, although queues are
  cleared, frames are half-written, the receiver is closed, handles are dropped
  and the peer may be slow.
* The peer is not trusted: any frame may arrive at any time, and its bytes arrive
  in pieces of any size.
* The rpc server drops the future of `next_event` whenever another branch of its
  `select!` is ready first, and is itself dropped at any await point, while
  callers go on making requests and waiting for permits.
* Timeouts race answers, and the sleep that drives them is computed before the
  requests it has to cover have arrived.

The properties that make each part correct: for the protocol, that limits bound
what a peer can make it hold, that tracked requests are exactly those that can
still be answered, and that a request has one answer; for the io layer, that two
peers running this code never make each other fail, that both sides' books agree
with what is in flight, that permits are conserved, that requests are answered in
the end, that errors reach the peer and end both sides, and that the reader stays in
step with the frames however their bytes are cut; for the rpc layer, that a guard
is resolved once and truthfully, that no guard and no caller waiting for a permit
is stranded when the server goes away, and that timeouts fire. The hazards
behind them, each with its line, are listed in `PROJECT.json`.

## 2. Modules

```
Wire -+-> Multiframe ---> Channel -+-> JulietProtocol -> MCJulietProtocol
      |                            +-> IoCore -> IoPeers -> MCIoPeers
      |                            +-> Framing -> MCFraming
      |                            |      ^
      +-> Codec -------------------|------+
                                   |
                                   +-> ChannelProofs -+-> JulietProtocolProofs
                                                      +-> FramingProofs
                                                      +-> IoCoreProofs -> IoPeersProofs -> IoExchangeProofs

LoopProofs -> FramingProofs, IoCoreProofs

RequestLifecycle <=(implemented by)= Rpc -+-> MCRpc
                                          +-> RpcProofs
```

**Wire**: headers, varint length and the cutting of messages into frames. A
payload is its length; no decision in the code depends on its bytes. The size
arithmetic is the code's, with the header of 4 bytes and a varint of up to 5.

**Multiframe**: `MultiframeReceiver::accept`. A receiver is a record of header,
bytes received and total; `Ready` has no header.

**Channel**: the `Channel` struct as a record and one operator per frame kind of
`process_incoming` (`OnRequest`, `OnRequestPl`, ...), which gives the channel
after the frame and the outcome. `process_incoming` changes no state until a
frame is complete, so a step is one complete frame. `generate_request_id` is
`IsNextRequestId`: the first ID after the last one used, cyclically, that is not
in flight.

**JulietProtocol**: one protocol state between its caller and a peer that sends
arbitrary frames. `create_request`, `create_response` and `cancel_response`,
`custom_error` and `process_incoming` (one action for error frames, one for
invalid headers and channels, one for the rest) are the actions. `reported` and
`awaited` record what the caller knows from return values alone: the requests it was
given, and for each ID how many answers it is waiting for, so that an ID given out
twice while in flight shows as two. Calls that
change nothing (a rejected request, `cancel_request`, which only makes a
message) are stuttering steps.

**IoCore**: the state of `IoCore` and `IoShared` as a record and an operator for
each method and for each branch of `next_event`. `ready_queue` holds `FrameIter`s
and is served round-robin, as in `ready_next_frame`. The two loops over queues,
`ProcessWaitQueue` and `HandleItems`, are recursive functions of the number of
turns taken; `WaitQueueTurn` is one turn. A queued request owns its permit
(`RequestsIn` counts them); the model adds it back to `buffered_requests` where the code drops the
item. `fell_through` marks the one passage through `select!` between a fatal
outcome and the start of the loop.

**IoPeers**: two cores of the same configuration, a FIFO of frames in each
direction with a limited capacity, and the users of the handles. Users do what
the rpc layer does: they answer each reported request once, by a response or a
cancellation, whether it was cancelled or not, and cancel a request of their own
at most once and only while no answer was reported (`process_timeouts`). When a
core ends, its side of the transport closes: the peer reads what is left, then
end of file; writes to it may succeed or fail. `ForeignFrame` lets the peer of a
requester send a frame that this crate would not have sent.

Each branch of `select!` is an action. The code polls them in a fixed order, but
which of them is ready depends on the transport and on other tasks. The model
does not use the bias (a write that could proceed may lose against a read), so
it allows every schedule the code has and some more. Items are received before or
after a frame is prepared as in the loop: `ReceiveItems` handles everything in
the channel, and `current_frame` is filled before waiting again.

A frame a reader would look for in the wrong place (`Readable`: a later frame of
a transfer the reader has dropped) ends the reader with the result `Misread`. In
the code the reader then takes payload bytes for a length; what follows depends
on those bytes, and the model stops there.

A frame is written at once except for one case, since the only thing that
depends on a frame being half-written is an error injected at that moment.
`SendPendingError` then writes the error right behind the part of the frame, all of
it or as much as the error timeout allows. Its reader finds neither of the two: it
takes what is there for frames of its own finding, `Torn` in the model, as many as
the bytes have room for headers (`TornFrames`, none if they never make a frame).
What each of them is depends on the bytes. `ReadTorn` lets it have any header out of
`StrayHeaders`, announce any length out of `StrayPayloads`, or go on with the transfer
in progress (`StrayFrame`), and processes it like every other frame, event and wait
queue included; or it has no valid header, and an error is injected
(`HeaderRejected`). The reader is not ended by it: it goes on to the next `Torn`, to
the end of the stream or to an error of its own. With an empty `StrayHeaders` only
the invalid header is left.

The guards of the core's actions have names (`CanWrite`, `CanRead`, ...), because
fairness needs them too (section 3).

**Codec**: the bytes of headers and varints, and the two ways of writing out a
message, `FrameIter` and `ByteIter`. The bytes of a payload are numbered, so that
one that is lost, doubled or out of place shows. In the run numbers stay below 2^31,
the largest TLC has; the proofs go up to 2^32. The loop of `Varint32::encode` is
written as its result, each byte a function of the value shifted as often; the fifth
byte of a varint is decoded as in the code, with its overflow.

**Framing**: the reading side of `IoCore` in bytes. The peer sends frames of all
kinds, valid or not, with length prefixes longer than they need to be; the
transport returns any number of bytes at a time. `Needs` is the number of bytes
`process_incoming` and `MultiframeReceiver` want before they go on; `ParseFrame`
is one turn of the loop in `process_incoming`, and `ParseIncomplete` the return
that sets `next_parse_at`. `FrameAt` gives the frame at the front of the buffer
to the same operators of `Channel` that the other models use, so this module is
also what justifies treating a frame as one step there. `unread` and `expected`
are history variables: the frames not consumed yet, and what a reader of whole
frames reports.

**Rpc**: clients, guards, the server and the requests it hands out. A request is
made in the steps of `queue_for_sending`: waiting for a permit (`Reserving`),
holding a ticket (`Reserved`), and enqueued or refused (`Made`). The server is
between two calls of `next_request` (`Idle`), at the start of its loop (`Loop`),
waiting in `select!` (`Select`), done (`Returned`), or at one of the three steps
of its `drop` (`Closing`, `Draining`, `Dropped`); each step in which another task
can interfere is an action of its own. Here the bias of `select!` matters and is
in the guards: the sleep comes before new requests, and these before the io core
(`CorePolled`). `CloseRequests` is possible at each await point, which is where
the owner can drop the future, or the server. The io core appears by what it
promises of a request, which `IoCore` models in full. What the holder does with
a guard (wait, try, cancel, forget, drop) changes nothing for anyone else, since
`do_cancel` does nothing, and so is no action. External to the crate, and assumed
as documented: sending into a tokio channel and closing it are atomic; the
semaphore is fair enough to serve each waiter and is never closed.

**RequestLifecycle**: the abstract specification of what a caller is promised:
one final outcome, and one that tells whether the request was handed to the io
layer. `Rpc` implements it with `made` the requests at stage `Made` and `sent`
those the core has seen (`io # "Absent"`).

Modules that end in `Proofs` hold theorems and what their proofs need, extend the
component they are about, and take no part in the runs; `LoopProofs` is about no
component but about loops, and used by `IoCoreProofs` and `FramingProofs`. Modules that start with `MC`
give constants their values.

## 3. Runs

All sizes are small, but every limit is reached: frames have the minimum size of
10 bytes, so that a payload of 8 bytes takes two frames (three if the peer pads
the varint); limits are 1 or 2 requests; the transport holds 1 or 2 frames.
Channels share nothing in the protocol state, and in the io layer only the ready
queue, so one channel is used, except in `framing`, where frames of two channels
follow each other in one buffer. Deadlock is not checked: a connection ends, and
the number of requests is bounded.

| run | checks | bounds |
|---|---|---|
| `protocol` | `TypeOK`, `ResourceBound`, `NoLeakedSlot`, `AnsweredOnce`, `ReportedTracked`, `TransferTracked` | 3 IDs, limit 2, prefixes {bad, 0, 8, 9} in 1 or 5 bytes, responses of one frame, unbounded length |
| `io_exchange` | `TypeOK`, `NoFault`, `SlotsAgree`, `RequestsMapped`, `OneMultiFrame` | both peers make 2 requests of one or two frames, limit 2, 1 permit, handles may be dropped |
| `io_cancel` | `NoFault`, `SlotsAgree` | 4 requests of one frame with timeouts and declined requests, limit 2, 2 permits |
| `io_liveness` | `PermitsConserved`, `ErrorIsLast`, `EveryRequestAnswered`, `ShutdownPropagates` (liveness) | 2 requests, limit 1, timeouts, responses of two frames, errors from both sides that just fit a frame or are one byte too large, unasked responses, torn frames taken for an error, for a response or for nothing |
| `framing` | `TypeOK`, `InStep`, `PiecewiseIsWhole`, `WaitsWithinFrame`, `VarintRoundTrip`, `HeaderRoundTrip`, `MessageBytesAgree` | 2 channels, 65536 IDs, up to 3 frames out of 18, every way to cut their bytes into reads |
| `rpc` | `TypeOK`, `WaitersTracked`, `NoWaiterStranded`, `DeadlineCovers`, `PermitsConserved`, `ImplementsLifecycle` (refinement), `TimedRequestsResolve`, `ShutdownReleasesCallers` (liveness) | 2 requests, 1 permit, 1 incoming request, timeouts of one tick, a clock of 2 instants, errors of 2 bytes |

`protocol` explores all reachable states with no bound on the number of steps.
In the io runs the number of requests is bounded. It exceeds the limit (4 requests
for a limit of 2, or 2 for a limit of 1), so that requests wait for a slot, are
promoted and use slots again; in `io_exchange`, where both peers send, 2 requests
each are enough for multi-frame messages to wait for each other. In `io_liveness`
the reader of a torn frame may take it for an error, which ends it, for a response,
which starts a transfer that nobody finishes or which answers the first request if the
transfer is the one in progress, or for nothing; other headers lead to the same kinds
of step. `BufferPermitsConserved` and `ErrorsComeLast` (section 4) hold for every set
of such headers and lengths.

In `framing` three frames are enough for a transfer of two frames with one of
another message between them, or for a transfer followed by a frame that ends the
connection; the reader's state between frames is that of its channels, which
`protocol` covers for any number. The encodings are checked for numbers around
every power of two, all 256 kind bytes, and payloads around each change in the
number of frames. In `rpc` the second request waits for the permit of the first,
so that every way of giving it back matters; with a clock of two instants a
request times out, is made too late for its timeout to be represented, or has
none. All invariants of `framing` and `rpc` are proved without such bounds (section 4);
only the two liveness properties of `rpc` rest on them.

Every passing property has a mutant in `PROJECT.json`: an operator beside the
original, marked `Mutant`, with a plausible mistake that the property detects.

**Fairness.** `next_event` is polled in a loop until it ends ("a continuous
polling of `IoCore::next_event` is expected", docs of `IoCore`), so a core goes on
as long as some branch of it can: weak fairness of all its steps together, none
of a particular branch. `Polled` is this weak fairness, with the condition under which
`Core` is enabled written out as the guards of its actions (`CoreCanStep`), since TLC
would try every action in every state to find that out. Users answer the requests they are given, as
`IncomingRequest` does at the latest when it is dropped. No fairness is assumed
of new requests, timeouts or errors.

In `Rpc`, the owner keeps calling `next_request` and drops the server after it
returned `None` or an error, as its docs demand; the server as a whole and
the steps of `drop` are weakly fair; so is each caller's wait for a permit, as
tokio's semaphore is FIFO, and what it does with it, but nobody has to make a
request; time passes. Nothing is assumed of the peer or of what the core reports: a
timeout must fire without them.

### Disagreements between code and documentation

Each of these runs checks what a comment or document says, and TLC finds a
behaviour of the code that contradicts it. `PROJECT.json` quotes the lines.

| run | property | what happens |
|---|---|---|
| `aborted_response` | `ReportedTracked` | `CancelReq` compares IDs only. If a *response* with that ID is being received, it is aborted, and the peer's reported request with that ID is forgotten. |
| `cancelled_transfer` | `NoFault` | A cancellation overtakes the rest of the multi-frame request it cancels, which the peer then misreads. |
| `stalled_request` | `EveryRequestAnswered` | A slot freed by a cancellation from the peer does not wake the wait queue. |
| `unsent_error` | `ErrorIsSent` | After a protocol violation `next_event` proceeds to `select!`, where its closed receiver makes it return before sending the error. |
| `reused_id` | `NoInternalError` | The wait queue is processed before the answered request is unmapped. If IDs have wrapped around to the one just freed, a waiting request gets it and replaces the mapping: the response is attributed to that request, and its own answer ends the core with `InternalError`, documented as an error "that should be impossible". |
| `truncated_error` | `LocalErrorIsWhole` | `next_event` takes the data it returns with an error from a buffer that writing consumes. If its future is dropped in between, the next call returns only the rest of the payload. |

`reused_id` takes a request that stays unanswered until all other IDs have been used,
2^16 - 1 of them in the code and 3 in the run. In the other io runs a peer makes no
more requests than there are IDs, and `MaxRequests < IdCount` is the hypothesis of the three theorems it concerns
(`NoRequestLost`, `InternalErrorImpossible`, `NoFaultHolds`).

More are in the models, or next to them, without a run of their own:

* An enqueued error is not sent if the last handle is gone when it is handled
  (`ItemsReceived`; io.rs:649), although `enqueue_error` promises an effort to
  finish sending it. It violates `ErrorIsSent` if handles may be dropped. A
  run of its own would say nothing new: `unsent_error`, where they may not, shows the
  same property violated by the same return from `select!`.
* An error injected while a frame is partly written is written behind that
  part, and the peer reads it as the rest of the frame (`SendPendingError`, `ReadTorn`;
  `inject_error` does not look at `current_frame`), although it is meant to be "the
  next frame sent" (io.rs:684).
* An error payload that does not fit into a frame is refused by `custom_error`
  and ends the core with a `LocalProtocolViolation`; the docs of `enqueue_error`
  and `send_custom_error` say that it is truncated (`SendError`).
* The cancellation of a request that is still in the wait queue is dropped as
  "already cancelled or answered by peer" (io.rs:788), and the request is sent
  later (`SendRequestCancellation`).
* `RequestError::Shutdown` is documented as "Request was sent", but the pending
  map that is drained with it also holds requests the core has only queued.
* The `must_use` note of `RequestGuard` says that dropping it "will immediately
  cancel" the request; `do_cancel` does nothing.
* A custom error sent by a client that is then dropped as the last one may be
  lost: the branch of `select!` for new requests comes before the core, and
  `next_request` returns `Ok(None)` (`LastClientDropped`).
* The error timeout starts again whenever `next_event` is called again, so that
  new requests or timeouts can extend it.

The passing runs show where the boundary is: without multi-frame responses
`ReportedTracked` holds (`protocol`), without cancelled multi-frame
requests and reused IDs two cores never fail each other (`io_exchange`,
`io_cancel`), without declined requests all are answered (`io_liveness`).

## 4. Proofs

### Protocol

`JulietProtocolProofs` proves, for every number of channels and IDs, frame size,
limits, payloads and length prefixes:

* `TypeCorrect`: `Spec => []TypeOK`
* `Bounded`: `Spec => []ResourceBound`
* `AnsweredAtMostOnce`: `Spec => []AnsweredOnce`
* `SlotsNotLeaked`: `Spec => []NoLeakedSlot`
* `ReportedRequestsTracked`: `Spec => []ReportedTracked`, and
  `TransfersTracked`: `Spec => []TransferTracked`, both for channels whose
  responses fit into a frame (`SingleFrameResponses`)

The assumptions are those of the modules: the frame size is at least
`MaxFrameSize::MIN`, and a limit is less than the number of IDs, as a `u16` is
less than 2^16. The latter means that the ID space is never exhausted.

The inductive invariant `Inv` is the conjunction of the four; that the ID sets
are finite, which the bounds on cardinalities need, follows from their types.
`ResourceBound` and `NoLeakedSlot` are not inductive alone. `ResourceBound` needs
types for its arithmetic.
`NoLeakedSlot` needs `ReceiverBounded`, part of `ResourceBound`, for the header
of a transfer: only if it is that of a transfer on the same channel can the
frame that completes it be the one that reports the request. `TypeOK` needs the
guard on the allowance to keep it a natural number.

`SingleFrameResponses` is where the boundary of the finding `aborted_response` is: with
longer responses both properties are false. For them the invariant `TrackedInv`
is added: no response is in transfer, what was reported has a slot, and the
request in transfer has one and was not reported. The first part makes the
abortion in `OnCancelReq` hit a request, the last one that it is not a reported
one.

`ChannelProofs` has what is true of one channel whoever uses it: a lemma for each
operator (lengths, segments, `Accept`), then one per frame kind that states what
the handler preserves (`HandledOK`) and what it did (`FrameEffect`). The io proofs
rest on the same lemmas. `JulietProtocolProofs` has one step per action, and
combines these by `PTL`.

### Messages and frames

The last part of `ChannelProofs` is about the operators of `Wire` and `Multiframe`, for
every frame size of at least `MaxFrameSize::MIN` and every payload:

* `TruncationFits`: a truncated error fits into one frame, though its length
  prefix may have become shorter (the assertion in `inject_error`).
* `FramesFit`: every frame is within the maximum size and makes progress.
* `ReceiverFollowsSender`: sender and receiver never exchange the size of a
  segment, both compute it. If a receiver has received what the sender has
  processed, the next frame keeps it so, and it is the last for one exactly if it
  is for the other.

### Io

`IoPeersProofs` proves, for every number of channels and IDs, frame size, limits,
buffer sizes, payloads and transport capacity, with users who do everything they
may (time out, decline, send errors, drop their handles) and also against a peer
that sends frames this crate would not have sent:

* `IoTypes`: `Spec => []TypeOK`
* `BufferPermitsConserved`: `Spec => []PermitsConserved`
* `ErrorsComeLast`: `Spec => []ErrorIsLast`
* `NoRequestLost`: `Spec => []RequestsMapped`, if `MaxRequests < IdCount`
* `InternalErrorImpossible`: `Spec => []NoInternalError`, if `MaxRequests < IdCount`

Besides that condition only the assumptions of the modules are used. It says
that a peer makes fewer requests than there are IDs, so that none is given out
twice; without it both statements are false, as the run `reused_id` shows. It holds
for the runs `io_exchange` and `io_cancel`.

The inductive invariant is `Types /\ AllServe /\ ErrorIsLast`. `AllServe` says
`Serves` of each core, together with what its users know, and `Serves` compares
the core with a *ledger* of the requests that are not in its queues (`num`,
`io_ids`), that are unanswered (`open`) and that were made at all (`limit`):

* `CoreOK`: types of all fields, the bounds of `ChannelProofs` for each channel, and
  that only requests and responses of a channel wait in its queue.
* `Permits`: free permits, requests in the channel and requests waiting add up to
  the buffer size.
* `Books`, as long as no error was injected and no ID was used again: each
  unanswered request is in one place (`OnePlace`, `Accounted`), the map is one to
  one (`OneToOne`), its IDs are the ones in flight (`InFlight`), and IDs were given
  out in order (`InOrder`). The last is what keeps `MapInsert` from overwriting an
  entry: the next ID is greater than all that are mapped.
* no `InternalError`, under the same condition on IDs.

`RequestsMapped` is not inductive by itself for two reasons. It does not say that the
IDs in the map are below the next one; and it is not even true within
`next_event`, where the wait queue is processed while the answered request is
still mapped but no longer in flight. The ledger has a `gap` for that request,
empty between two steps. In the same way `io_ids` holds the items the loop in
`HandleItems` has taken out of the channel and not dealt with.

`IoCoreProofs` shows for each operator of `IoCore` that it keeps a core
`Consistent` with its ledger. The loops over the wait queue and over the received
items are recursive functions; that every turn keeps what the turn before left is
proved without induction over data: if some turn did not, there would be a first one
(`LeastExists`, from the well-foundedness of `<`), and the turn before it was fine
(`EveryTurn`, `LoopStates`, all in `LoopProofs`). `IoPeersProofs` adds users and transport, with one
lemma per action. Torn frames need no more of the invariant: whatever bytes are taken
for is a frame that could have been sent (`StrayFrameType`), so reading it keeps what
reading any frame keeps (`FrameKeeps`). `ErrorIsLast` is inductive as it stands, given types: a core
that has written its error has ended with `RemoteProtocolViolation`, and one that has
ended writes nothing.

### Two cooperating peers

Three properties of `IoPeers` depend on what the other peer does. `IoExchangeProofs`
proves them for every number of channels and IDs, frame size, limits, buffer sizes,
payload sizes, number of requests and transport capacity, if the peers are `Cooperative`:

* `SlotsAgreeHolds`: `Spec => []SlotsAgree`
* `OneMultiFrameHolds`: `Spec => []OneMultiFrame`
* `NoFaultHolds`: `Spec => []NoFault`, if also `MaxRequests < IdCount`

`Cooperative` is a condition on constants that the run `io_exchange` satisfies: both
peers run this code (`ForeignKinds` is empty), no request is cancelled by a timeout, no
user sends an error, and no payload is larger than its channel allows. Requests may be
declined and handles dropped, and either core may end at any time. For `NoFault` each
part is needed. A cancellation that overtakes a transfer is the run
`cancelled_transfer`; an error that is injected while a frame is half written makes the
peer read frames that nobody sent; a payload that is too large, or an error that does not fit into a frame,
is a `LocalProtocolViolation`; and frames of other code may be anything. For the
condition on IDs see section 3. That single-frame requests may be cancelled, as in
`io_cancel`, is only model-checked.

The inductive invariant is `Exchange`, on top of the one of `IoPeersProofs`; TLC checked
it before it was proved. For each direction there are a *line* `T` of messages and a list
`R` of receiver states. The line has one message for each frame on the transport and for
`current_frame`, as it was before that frame was cut off, and then the ready queue. `R`
starts with the receivers of the peer as they are, and the next frame of `T[i]` takes
`R[i]` to `R[i + 1]`. So the reader is compared with the sender at every frame that is in
flight, not only once the transport is empty. The parts:

* `Ordered`: every frame finds the receivers where it needs them (`Links`), a transfer
  that has begun goes on further down the line (`GoesOn`), what is in the queue continues it
  (`Resumes`), the frames of a message are in turn (`InTurn`), and two messages in the
  queue are neither alike nor both transfers on a channel (`Apart`).
* `Carries`: the frames and the queue are those of `T`; `Flags`: `active_multi_frame`
  names each unfinished transfer. With `Ordered` this gives `OneMultiFrame`.
* `Slots`, for each channel and direction: an outgoing request is on its way, held by the
  peer, or its answer is on the way back; a request and its answer are never both
  in flight; and what a user still has to answer, or has put in a queue,
  is held and completely received. `Out` counts requests of which any frame is left,
  `Ask` those that have not begun: between the first and the last frame of a transfer a request is
  both on its way and held. With both cores running this is `SlotsAgree`.
* `Calm` and `Endings`: no error is pending, and a core has ended by a shutdown, a failed
  write or an internal error at most; the last is excluded by `InternalErrorImpossible`.

Neither property is inductive without the others: that a frame is no violation for its
reader needs the slots (`HeadAdmissible`: the request is new and within the limit, the
answer awaited) and the receivers (`FrameReadable`), and that the slots stay as they are needs
that every frame is accepted.

The lemmas follow the steps. `LastJoins`, `FrontMoves` and `CutTransit` are about the line when a
message joins it, sends a frame, or loses those at its head; `UnderwayAppend` to
`UnderwayRead` say what becomes of the IDs. `Tidy` is the invariant as one core sees it, with what it
has to know of its peer in a record (`View`); `SendTidy`, `ProcessWaitQueueTidy`,
`HandleItemsTidy`, `ReadyNextFrameTidy` and `FrameWrittenTidy` keep it. `FrameHandled` and
`PairReads` are about reading, the one step that moves both ends. `Met` joins the two
ends without naming the lines, and the last lemmas, one per action, lift it to `IoPeers`.

### Framing

`FramingProofs` proves, for every frame size, limits and number of channels, every
set of frames the peer may send and every way to cut the stream into reads:

* `TypeCorrect`: `Spec => []TypeOK`
* `KeepsInStep`: `Spec => []InStep`
* `NeverWaitsTooLong`: `Spec => []WaitsWithinFrame`
* `ReadsWhatWasSent`: `Spec => []PiecewiseIsWhole`
* `VarintsRoundTrip` and `HeadersRoundTrip`: `Spec => []VarintRoundTrip` and
  `Spec => []HeaderRoundTrip`, for every number of 32 bits
* `MessagesWrittenAlike`: `Spec => []MessageBytesAgree`, for every payload whose length
  has 32 bits

The assumptions (`FramingAssumption`) say that IDs have 16 bits, that an offered
frame has a header `Header::parse` can return, or is none, and carries a length
exactly if its kind does: a number of 32 bits in as many bytes as it takes or more, or bytes that
are no number; that our own requests stay within the limit of their channel; and
that a payload to be written has a length of 32 bits (`pl.len() as u32`).
The peer need not respect any limit.

None of the properties is inductive, because the stream is written before it is
read: the peer computes how long a segment is from the channels *it* has arrived
at, the reader from the channels it has *then*, perhaps many frames earlier. The
inductive invariant `ReaderInv` closes the gap. Its part `InTransit` says that
there is a chain of reader states from the present one to that of a reader who has
everything, one link for each unread frame: each frame was sent in the state in which it
will be read (`Links`). Sending adds a link at the end (`LinkMore`), parsing takes
off the first one (`LinkLess`), and `InStep` and `WaitsWithinFrame` follow for the
frame in between. The rest of it: types, what `ChannelProofs` knows of each channel, and that
the stored payload of a transfer is the first `received` bytes of what the peer
sends (`Stored`).

The lemmas come in layers:

1. Encodings: what `Parse` and `DecodeVarint32` make of the bytes of a header and of a
   prefix, whatever follows, and that an unfinished prefix is recognised as such.
2. The bytes of a sent frame: header, prefix, segment (`OfferedParts`).
3. The front of the buffer (`FrontFrame`): if the first bytes of the buffer are the
   first bytes of a frame sent in this state, `Needs` does not ask for more than the
   frame, it is satisfied only if the whole frame is there, and then `FrameAt` is
   that frame.
4. Handling it (`ReceiveFacts`, `SegmentsJoined`): the channels stay well-formed, and
   what is stored or delivered is a run of the payload without gaps.
5. One lemma per action (`ReaderSend`, `ReaderRead`, `ReaderHangUp`, `ReaderIncomplete`,
   `ReaderFrame`).

`Bytes`, the concatenation of frames, is a recursive function of the number of frames;
what it does with a first or a last frame is derived as for the loops of the io core
(`BytesLoop`, with `EveryTurn`).

`MessageBytesAgree` needs no state. What `FrameIter` has processed after k frames is
put in closed form (`CutOff`, shown turn by turn in `IterFacts`), from which the number
of turns is the quotient `NumFrames` computes (`FrameCount`, `FramesCut`). On the other
side `ChunkIs` says which byte `ByteIter` has at a place within frame k, so that the
k-th frame holds the bytes from `(k - 1) * MaxFrameSize` on (`CutFrameBytes`). All frames
but the last are full, so joining them puts each byte where it belongs
(`FullFramesJoined`).

### Rpc

`RpcProofs` proves, for every set of requests, buffer size, set of timeouts and
clock:

* `TypeCorrect`: `Spec => []TypeOK`
* `NoWaiterLost`: `Spec => []WaitersTracked`
* `DropStrandsNobody`: `Spec => []NoWaiterStranded`
* `WakesInTime`: `Spec => []DeadlineCovers`
* `PermitsKept`: `Spec => []PermitsConserved`
* `Refinement`: `Spec => ImplementsLifecycle`

from `RpcAssumption` (finitely many requests, a buffer of at least one, natural
numbers for times). The inductive invariant `IInv` was checked by TLC on the
`rpc` instance before it was proved. Its parts:

* `RequestInv(r)`: where one request can be. That a request in the channel is in
  neither the pending map nor the heap, and has no outcome, is what makes
  `set_and_notify` set it once; that a pending request with a timeout is in the
  heap is what `DeadlineCovers` needs when the sleep is computed; that a request
  not yet made is nowhere keeps making it from disturbing the rest.
* `ServerInv`: no request is twice in the channel, so that taking it out removes
  it; and from each step of `drop` on, what the steps before have emptied stays
  empty, because the channel is closed first. `NoWaiterStranded` is the last of
  these together with `RequestInv`.
* `PermitsConserved` itself, with `TypeOK` for the arithmetic. Its steps count
  with `FiniteSetTheorems` (`CountFacts`).

`NextDeadline` is a minimum by `CHOOSE`; that it exists follows
from the well-foundedness of `<` on the naturals (`WFMin`). For
the refinement each action is shown to be a step of `RequestLifecycle` or to
leave `made`, `sent` and `outcome` alone (`LifecycleStep`), using `IInv`.

### Model-checked only

* Liveness needs fairness, which is out of this prover's reach: `EveryRequestAnswered`,
  `ShutdownPropagates`, `TimedRequestsResolve`, `ShutdownReleasesCallers`.
* `NoFault` and `SlotsAgree` where requests of one frame time out and are cancelled
  (`io_cancel`): a cancellation is a message that no slot stands for, and may reach a
  peer that has answered already. The theorems are about peers that do not cancel.

## 5. Not modelled

* Writing byte by byte, except that a write can be interrupted in the middle of a
  frame when an error is injected, and in the middle of an error.
* Transport failures in the middle of a frame other than closing, and read
  errors: both end the core at once.
* Time in `IoPeers`, where a timeout may fire at any moment. `Rpc` has a clock.
* Dropping the future of `queue_for_sending` while it waits for a permit, which
  leaves the queue of the semaphore and nothing else.
* Varints of 2^31 and above in the runs; the proofs cover 32 bits.
* `util.rs` (index arithmetic and display without state), display and tracing
  code, the example program.

## 6. Plan

Done: the protocol state with proofs, including what holds only for responses of
one frame; the io layer as two peers, with proofs of what each side can ensure
alone and of what two cooperating peers ensure together; framing and codecs in bytes,
with proofs; the rpc layer with proofs and its refinement.

Left, all of it proofs:

1. Io: the parts of `SlotsAgree` and `NoFault` that hold for cancellations and
   single-frame messages.
2. Protocol: action properties (a connection that has ended stays ended, an answered
   request is not reported again).
