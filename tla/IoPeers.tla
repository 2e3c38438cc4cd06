------------------------------- MODULE IoPeers ------------------------------
(***************************************************************************)
(* Two IoCores of the same configuration talking to each other over a      *)
(* reliable, ordered transport of limited capacity, and the users of their *)
(* handles.  The users behave as the rpc layer does: they answer a request *)
(* once, by a response or by a cancellation, whether or not they learnt    *)
(* that it was cancelled, and cancel a request of their own at most once   *)
(* and only while no answer to it has been reported (process_timeouts).    *)
(***************************************************************************)
EXTENDS IoCore

CONSTANTS
    Requesters,         \* the peers that make requests
    MaxRequests,        \* bound on the requests made by each of them
    NetCapacity,        \* frames that fit into one direction of the transport
    RequestPayloads,    \* payloads of requests, NoPayload among them
    ResponsePayloads,   \* payloads of responses
    ErrorPayloads,      \* payloads of errors; no errors are sent if empty
    ErrorIds,           \* the IDs such errors are sent with
    MayTimeOut,         \* whether requests time out and are cancelled
    MayDecline,         \* whether requests are answered by a cancellation
    MayDropHandles,     \* whether all handles may be dropped
    StrayHeaders,       \* the headers that bytes read out of place may be taken for
    StrayPayloads,      \* payload lengths that they may announce
    ForeignKinds,       \* kinds of frames a peer may send on its own, breaking
                        \* the protocol; empty if both run this code
    ForeignIds          \* the IDs such frames have

Peers == {1, 2}
Other(p) == 3 - p

ASSUME PeersAssumption ==
    /\ NumChannels # 0
    /\ Requesters \subseteq Peers
    /\ MaxRequests \in Nat
    /\ NetCapacity \in Nat \ {0}
    /\ RequestPayloads \subseteq Nat \cup {NoPayload}
    /\ ResponsePayloads \subseteq Nat \cup {NoPayload}
    /\ ErrorPayloads \subseteq Nat /\ ErrorIds \subseteq Ids
    /\ {MayTimeOut, MayDecline, MayDropHandles} \subseteq BOOLEAN
    /\ ForeignKinds \subseteq Kind \ {"RequestPl", "ResponsePl"} /\ ForeignIds \subseteq Ids
    /\ StrayHeaders \subseteq [kind : Kind \cup ErrorKind, channel : Channels, id : Ids]
    /\ StrayPayloads \subseteq Nat

VARIABLES
    core,           \* per peer: its IoCore
    net,            \* per peer: the frames on their way to it
    next_io_id,     \* per peer: RequestHandle::next_io_id
    handles,        \* per peer: whether a handle to its core exists
    todo,           \* per peer and channel: requests reported and not answered
    open,           \* per peer: IoIds of requests for which no event was produced
    pending         \* per peer: the same, unless cancelled by a timeout

vars == <<core, net, next_io_id, handles, todo, open, pending>>

IoIds == 0 .. MaxRequests - 1

Running(p) == core[p].result = "Running"

\* next_event is about to wait in select!.
Selecting(p) ==
    /\ Running(p)
    /\ core[p].pending_error = NoFrame \/ core[p].fell_through

\* Bytes that the reader takes for a frame, out of the part of a frame that was
\* written before an error and the error behind it.
Torn == [NoFrame.frame EXCEPT !.header.kind = "Torn"]

FrameSize(f) == HeaderSize + f.off + f.seg

\* The frames for which such bytes of the core k may be taken, each of which has a
\* header: at least one byte of the frame that was begun is missing.
TornFrames(k) ==
    LET bytes == FrameSize(k.current_frame.frame) - 1 + FrameSize(k.pending_error.frame)
    IN  {[i \in 1 .. n |-> Torn] : n \in 0 .. bytes \div HeaderSize}

Init ==
    /\ core = [p \in Peers |-> NewCore]
    /\ net = [p \in Peers |-> <<>>]
    /\ next_io_id = [p \in Peers |-> 0]
    /\ handles = [p \in Peers |-> TRUE]
    /\ todo = [p \in Peers |-> [c \in Channels |-> {}]]
    /\ open = [p \in Peers |-> {}]
    /\ pending = [p \in Peers |-> {}]

-----------------------------------------------------------------------------
(* The handles.                                                             *)

\* UnboundedSender::send succeeds as long as the receiver is open.
Send(p, item) ==
    /\ Running(p) /\ ~core[p].closed /\ handles[p]
    /\ core' = [core EXCEPT ![p].receiver = Append(@, item)]

\* Mutant: enqueue_request without a ticket.
EnqueueRequestUnreserved(p, c, payload) ==
    /\ Running(p) /\ ~core[p].closed /\ handles[p]
    /\ next_io_id[p] < MaxRequests
    /\ core' = [core EXCEPT
            ![p].receiver = Append(@, Item("Request", c, next_io_id[p], 0, payload)),
            ![p].buffered_requests[c] = @ - 1]
    /\ next_io_id' = [next_io_id EXCEPT ![p] = @ + 1]
    /\ open' = [open EXCEPT ![p] = @ \cup {next_io_id[p]}]
    /\ pending' = [pending EXCEPT ![p] = @ \cup {next_io_id[p]}]
    /\ UNCHANGED <<net, handles, todo>>

\* try_reserve_request (or the end of the wait in reserve_request), then
\* enqueue_request with the ticket.
EnqueueRequest(p, c, payload) ==
    /\ Running(p) /\ ~core[p].closed /\ handles[p]
    /\ core[p].buffered_requests[c] > 0
    /\ next_io_id[p] < MaxRequests
    /\ core' = [core EXCEPT
            ![p].receiver = Append(@, Item("Request", c, next_io_id[p], 0, payload)),
            ![p].buffered_requests[c] = @ - 1]
    /\ next_io_id' = [next_io_id EXCEPT ![p] = @ + 1]
    /\ open' = [open EXCEPT ![p] = @ \cup {next_io_id[p]}]
    /\ pending' = [pending EXCEPT ![p] = @ \cup {next_io_id[p]}]
    /\ UNCHANGED <<net, handles, todo>>

EnqueueRequestCancellation(p, io_id) ==
    /\ MayTimeOut
    /\ io_id \in pending[p]
    /\ Send(p, Item("RequestCancellation", 0, io_id, 0, NoPayload))
    /\ pending' = [pending EXCEPT ![p] = @ \ {io_id}]
    /\ UNCHANGED <<net, next_io_id, handles, todo, open>>

EnqueueResponse(p, c, id, payload) ==
    /\ id \in todo[p][c]
    /\ Send(p, Item("Response", c, 0, id, payload))
    /\ todo' = [todo EXCEPT ![p][c] = @ \ {id}]
    /\ UNCHANGED <<net, next_io_id, handles, open, pending>>

EnqueueResponseCancellation(p, c, id) ==
    /\ MayDecline
    /\ id \in todo[p][c]
    /\ Send(p, Item("ResponseCancellation", c, 0, id, NoPayload))
    /\ todo' = [todo EXCEPT ![p][c] = @ \ {id}]
    /\ UNCHANGED <<net, next_io_id, handles, open, pending>>

\* A user sends one error: more would find the core shutting down.
EnqueueError(p, c, id, payload) ==
    /\ \A i \in DOMAIN core[p].receiver : core[p].receiver[i].kind # "Error"
    /\ Send(p, Item("Error", c, 0, id, payload))
    /\ UNCHANGED <<net, next_io_id, handles, todo, open, pending>>

DropHandles(p) ==
    /\ MayDropHandles
    /\ handles[p]
    /\ handles' = [handles EXCEPT ![p] = FALSE]
    /\ UNCHANGED <<core, net, next_io_id, todo, open, pending>>

-----------------------------------------------------------------------------
(* The core.  Each action of it begins with the condition under which       *)
(* next_event can take it.                                                  *)

CanWrite(p) ==
    /\ Selecting(p)
    /\ core[p].current_frame # NoFrame
    /\ Running(Other(p)) => Len(net[Other(p)]) < NetCapacity

\* Writing succeeds while the transport has room.  The peer of an ended core
\* still reads what was written before; what is written to an ended one is lost,
\* whether or not writing fails.
WriteFrame(p) ==
    /\ CanWrite(p)
    /\ \/ /\ Running(Other(p))
          /\ \E next \in {FrameWritten(core[p])} : core' = [core EXCEPT ![p] = next]
          /\ net' = [net EXCEPT ![Other(p)] = Append(@, core[p].current_frame.frame)]
       \/ /\ ~Running(Other(p))
          /\ \E lost \in {FrameWritten(core[p]), Ended(core[p], "WriteFailed")} :
                core' = [core EXCEPT ![p] = lost]
          /\ UNCHANGED net
    /\ UNCHANGED <<next_io_id, handles, todo, open, pending>>

CanPrepare(p) ==
    /\ Selecting(p)
    /\ core[p].current_frame = NoFrame
    /\ core[p].ready_queue # <<>>

\* The loop of next_event comes around to select! without writing or receiving
\* in between only after it has parsed all frames it read.
PrepareFrame(p) ==
    /\ CanPrepare(p)
    /\ \E next \in {ReadyNextFrame(core[p])} : core' = [core EXCEPT ![p] = next]
    /\ UNCHANGED <<net, next_io_id, handles, todo, open, pending>>

\* The event returned by next_event is taken by the user, who forgets a request
\* once it is answered.
Deliver(p, event) ==
    /\ todo' = [todo EXCEPT ![p] = [c \in Channels |->
            IF event.kind = "NewRequest" /\ event.channel = c THEN @[c] \cup {event.id}
            ELSE @[c]]]
    /\ IF event.kind \in {"ReceivedResponse", "ReceivedCancellationResponse"}
       THEN /\ open' = [open EXCEPT ![p] = @ \ {event.io_id}]
            /\ pending' = [pending EXCEPT ![p] = @ \ {event.io_id}]
       ELSE UNCHANGED <<open, pending>>

\* Nothing is parsed any more once an error is pending.
CanRead(p) ==
    /\ Running(p)
    /\ core[p].pending_error = NoFrame
    /\ net[p] # <<>>

ReadFrame(p) ==
    /\ CanRead(p)
    /\ Head(net[p]) # Torn
    /\ net' = [net EXCEPT ![p] = Tail(@)]
    /\ \E read \in {FrameRead(core[p], Head(net[p]))} :
         /\ core' = [core EXCEPT ![p] = read.core]
         /\ Deliver(p, read.event)
    /\ UNCHANGED <<next_io_id, handles>>

\* What is parsed where no frame was put: a frame with any header, which goes on
\* with the transfer in progress or announces a payload of its own.
StrayFrame(k, h, payload) ==
    LET rcv == k.juliet[h.channel].current_multiframe_receiver
    IN  NextFrame(IF rcv.header = h
                  THEN [header |-> h, payload |-> rcv.total, processed |-> rcv.received]
                  ELSE Frames(h, payload))

\* No frame is parsed; other errors than this one are injected the same way.
HeaderRejected(k) ==
    [InjectError(k, Header("InvalidHeader", 0, 0), NoPayload) EXCEPT !.fell_through = TRUE]

\* The peer's error was written behind a part of another frame.  The bytes make a
\* frame, which is processed like any other, or none.
ReadTorn(p) ==
    /\ CanRead(p)
    /\ Head(net[p]) = Torn
    /\ net' = [net EXCEPT ![p] = Tail(@)]
    /\ \/ \E h \in StrayHeaders :
           \E payload \in IF h.kind \in {"RequestPl", "ResponsePl"} THEN StrayPayloads
                         ELSE {NoPayload} :
           \E read \in {FrameRead(core[p], StrayFrame(core[p], h, payload))} :
             /\ core' = [core EXCEPT ![p] = read.core]
             /\ Deliver(p, read.event)
       \/ /\ core' = [core EXCEPT ![p] = HeaderRejected(@)]
          /\ UNCHANGED <<todo, open, pending>>
    /\ UNCHANGED <<next_io_id, handles>>

\* Mutant: a read of zero bytes is taken for a read, and waited for again.
CanReadEofIgnored(p) ==
    /\ Selecting(p)
    /\ ~Running(Other(p))
    /\ core[p].fell_through

CanReadEof(p) ==
    /\ Selecting(p)
    /\ ~Running(Other(p))
    /\ net[p] = <<>> \/ core[p].fell_through

\* The read branch, after the peer hung up.
ReadEof(p) ==
    /\ CanReadEof(p)
    /\ core' = [core EXCEPT ![p] = Ended(@, "Shutdown")]
    /\ UNCHANGED <<net, next_io_id, handles, todo, open, pending>>

CanReceive(p) ==
    /\ Selecting(p)
    /\ core[p].current_frame # NoFrame \/ core[p].ready_queue = <<>>
    /\ core[p].receiver # <<>> \/ core[p].closed \/ ~handles[p]

ReceiveItems(p) ==
    /\ CanReceive(p)
    /\ \E next \in {ItemsReceived(core[p], ~handles[p])} : core' = [core EXCEPT ![p] = next]
    /\ UNCHANGED <<net, next_io_id, handles, todo, open, pending>>

CanSendError(p) ==
    /\ Running(p)
    /\ core[p].pending_error # NoFrame
    /\ ~core[p].fell_through

\* Mutant: next_event goes on after the error was written.
SendPendingErrorOnly(p) ==
    /\ CanSendError(p)
    /\ Len(net[Other(p)]) < NetCapacity
    /\ net' = [net EXCEPT ![Other(p)] = Append(@, core[p].pending_error.frame)]
    /\ core' = [core EXCEPT ![p].pending_error = NoFrame]
    /\ UNCHANGED <<next_io_id, handles, todo, open, pending>>

\* The start of the loop of next_event.  A current frame may have been written
\* in part when the error was injected; the error is written right behind it, as
\* far as the timeout allows, and its reader finds other frames there, or none.
SendPendingError(p) ==
    /\ CanSendError(p)
    /\ \/ /\ Running(Other(p))
          /\ Len(net[Other(p)]) < NetCapacity
          /\ \/ net' = [net EXCEPT ![Other(p)] = Append(@, core[p].pending_error.frame)]
             \/ /\ core[p].current_frame # NoFrame
                /\ \E torn \in TornFrames(core[p]) : net' = [net EXCEPT ![Other(p)] = @ \o torn]
          /\ core' = [core EXCEPT ![p] = Ended(@, "RemoteProtocolViolation")]
       \/ /\ Running(Other(p))
          /\ Len(net[Other(p)]) >= NetCapacity
          /\ \/ UNCHANGED net
             \/ /\ core[p].current_frame # NoFrame
                /\ \E torn \in TornFrames(core[p]) : net' = [net EXCEPT ![Other(p)] = @ \o torn]
          /\ core' = [core EXCEPT ![p] = Ended(@, "ErrorWriteTimeout")]
       \/ /\ ~Running(Other(p))
          /\ \E result \in {"RemoteProtocolViolation", "WriteFailed"} :
                core' = [core EXCEPT ![p] = Ended(@, result)]
          /\ UNCHANGED net
    /\ UNCHANGED <<next_io_id, handles, todo, open, pending>>

\* The peer of p, running other code, sends a frame of its own making.
ForeignFrame(p, kind, c, id) ==
    /\ Running(Other(p))
    /\ Len(net[p]) < NetCapacity
    /\ net' = [net EXCEPT ![p] =
            Append(@, NextFrame(Frames(Header(kind, c, id), NoPayload)))]
    /\ UNCHANGED <<core, next_io_id, handles, todo, open, pending>>

User(p) ==
    \/ p \in Requesters /\ \E c \in Channels, pl \in RequestPayloads : EnqueueRequest(p, c, pl)
    \/ \E io_id \in IoIds : EnqueueRequestCancellation(p, io_id)
    \/ \E c \in Channels, id \in ErrorIds, pl \in ErrorPayloads : EnqueueError(p, c, id, pl)
    \/ DropHandles(p)

Answer(p) ==
    \E c \in Channels, id \in Ids :
        \/ \E pl \in ResponsePayloads : EnqueueResponse(p, c, id, pl)
        \/ EnqueueResponseCancellation(p, c, id)

Core(p) ==
    \/ WriteFrame(p) \/ PrepareFrame(p) \/ ReadFrame(p) \/ ReadTorn(p) \/ ReadEof(p)
    \/ ReceiveItems(p) \/ SendPendingError(p)

Foreign(p) ==
    /\ p \in Requesters
    /\ \E kind \in ForeignKinds, c \in Channels, id \in ForeignIds : ForeignFrame(p, kind, c, id)

Next == \E p \in Peers : User(p) \/ Answer(p) \/ Core(p) \/ Foreign(p)

Spec == Init /\ [][Next]_vars

CoreCanStep(p) ==
    \/ CanWrite(p) \/ CanPrepare(p) \/ CanRead(p) \/ CanReadEof(p)
    \/ CanReceive(p) \/ CanSendError(p)

\* next_event is polled until it ends the core, so that the core goes on as long
\* as some branch of it can.  This is WF_vars(Core(p)): the conditions above are
\* the ones under which a step is enabled, and much quicker to evaluate.
Polled(p) == []<>~CoreCanStep(p) \/ []<><<Core(p)>>_vars

\* Users answer the requests they are given.
Fairness == \A p \in Peers : Polled(p) /\ WF_vars(Answer(p))

FairSpec == Spec /\ Fairness

-----------------------------------------------------------------------------
(* Properties.                                                              *)

ToSend(p) ==    \* the headers of messages that p has begun or is about to send
    {msg.header : msg \in ToSet(core[p].ready_queue)}
        \cup {core[p].current_frame.frame.header}

\* The headers of frames from p that its peer has not read, of messages of some
\* kinds on channel c.
Outstanding(p, c, kinds) ==
    {h \in ToSend(p) \cup {f.header : f \in ToSet(net[Other(p)])} :
        h.kind \in kinds /\ h.channel = c}

\* Frames with which a message begins, the same way.
Beginning(p, c, kinds) ==
    {h \in {msg.header : msg \in {m \in ToSet(core[p].ready_queue) : m.processed = 0}}
             \cup {f.header : f \in {g \in {core[p].current_frame.frame}
                                              \cup ToSet(net[Other(p)]) :
                                       ~(g.len = NoLen /\ g.seg > 0)}} :
        h.kind \in kinds /\ h.channel = c}

InFlightIds(headers) == {h.id : h \in headers}

Healthy == \A p \in Peers : Running(p) /\ core[p].pending_error = NoFrame

\* The cores, queues and the users' knowledge have their types.
TypeOK ==
    /\ \A p \in Peers :
         /\ core[p].juliet \in [Channels -> ChannelStates]
         /\ core[p].buffered_requests \in [Channels -> Nat]
         /\ core[p].request_map \subseteq [io_id : IoIds, channel : Channels, id : Ids]
         /\ core[p].closed \in BOOLEAN /\ core[p].fell_through \in BOOLEAN
    /\ next_io_id \in [Peers -> 0 .. MaxRequests]
    /\ handles \in [Peers -> BOOLEAN]
    /\ todo \in [Peers -> [Channels -> SUBSET Ids]]
    /\ open \in [Peers -> SUBSET IoIds]
    /\ pending \in [Peers -> SUBSET IoIds]

\* Two peers that both run this code never make each other fail: no frame is a
\* protocol violation for its reader or is read where it does not begin, and no
\* bookkeeping of the io layer turns out inconsistent ("an error that should be
\* impossible", CoreError::InternalError).
NoFault ==
    \A p \in Peers :
        /\ core[p].result \notin {"InternalError", "LocalProtocolViolation", "Misread"}
        /\ core[p].pending_error.frame.header.kind \in {"None", "Other"}

\* The bookkeeping of the io layer never turns out inconsistent: no core ends with
\* CoreError::InternalError, "an error [...] that should be impossible".
NoInternalError == \A p \in Peers : core[p].result # "InternalError"

\* The request a slot was taken for is in exactly one place: its beginning is
\* on the way, it is one of the peer's incoming requests, or the answer is on
\* the way back.  So every slot of the limit can be freed, and a peer never
\* holds a request as incoming that the other one does not await.
SlotsAgree ==
    Healthy => \A p \in Peers : \A c \in Channels :
        LET asking    == InFlightIds(Beginning(p, c, {"Request", "RequestPl"}))
            held      == core[Other(p)].juliet[c].incoming_requests
            answering == InFlightIds(Outstanding(Other(p), c,
                                         {"Response", "ResponsePl", "CancelResp"}))
        IN  /\ core[p].juliet[c].outgoing_requests = asking \cup held \cup answering
            /\ asking \cap held = {} /\ asking \cap answering = {}
            /\ held \cap answering = {}

\* Every request for which no event was produced waits to be sent or is mapped
\* to the ID it was sent with, not both, and the mapped IDs are the ones the
\* protocol has in flight (send_to_ready_queue, handle_completed_read): no
\* request is lost and no answer goes to another one.
RequestsMapped ==
    \A p \in Peers : Running(p) /\ core[p].pending_error = NoFrame =>
        LET waiting == QueuedIoIds(core[p].receiver)
                           \cup UNION {QueuedIoIds(core[p].wait_queue[c]) : c \in Channels}
            mapped  == {m.io_id : m \in core[p].request_map}
        IN  /\ open[p] = waiting \cup mapped
            /\ waiting \cap mapped = {}
            /\ {<<m.channel, m.id>> : m \in core[p].request_map} =
                 UNION {{<<c, id>> : id \in core[p].juliet[c].outgoing_requests} : c \in Channels}

\* Permits are neither lost nor invented: what is missing from the buffer is
\* held by requests still queued (IoShared::buffered_requests), so a channel
\* whose requests have all been sent accepts BufferSize more.
PermitsConserved ==
    \A p \in Peers : Running(p) => \A c \in Channels :
        core[p].buffered_requests[c]
            + Cardinality(RequestsIn(core[p].receiver, c))
            + Cardinality(RequestsIn(core[p].wait_queue[c], c)) = BufferSize[c]

\* On every channel at most one multi-frame message is being sent, and it is
\* the one active_multi_frame names (the rule behind the InProgress error).
OneMultiFrame ==
    \A p \in Peers : Running(p) /\ ~core[p].closed => \A c \in Channels :
        LET unfinished ==
              {m.header : m \in {n \in ToSet(core[p].ready_queue) :
                                   n.header.channel = c /\ PayloadIsMultiFrame(n.payload)}}
        IN  IF core[p].active_multi_frame[c] = NoHeader THEN unfinished = {}
            ELSE unfinished \subseteq {core[p].active_multi_frame[c]}

\* "For every IoId there will eventually be exactly either one ReceivedResponse
\* or ReceivedCancellationResponse, unless the connection is shutdown" (IoEvent).
EveryRequestAnswered ==
    \A p \in Requesters, io_id \in IoIds :
        io_id \in open[p] ~> io_id \notin open[p] \/ ~Healthy

\* When one core has ended, for whatever reason, so does the other one: the
\* transport is closed, and next_event notices when it reads or writes.
ShutdownPropagates == \A p \in Peers : ~Running(p) ~> ~Running(Other(p))

\* An error is the last frame that a core sends (custom_error, process_incoming:
\* "It must be the final message sent").
ErrorIsLast ==
    \A p \in Peers : \A i \in DOMAIN net[p] :
        net[p][i].header.kind \in ErrorKind =>
            i = Len(net[p]) /\ core[Other(p)].result = "RemoteProtocolViolation"

\* An error that was put in a queue, or that was raised by a frame of the peer,
\* is sent before the core ends by itself ("The closing of a connection will no
\* longer race ahead of the sending of an error", CHANGELOG.md).
ErrorIsSent ==
    \A p \in Peers :
        core[p].result = "Shutdown" /\ Running(Other(p)) => core[p].pending_error = NoFrame

=============================================================================
