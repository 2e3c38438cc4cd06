------------------------------- MODULE IoCore -------------------------------
(***************************************************************************)
(* IoCore (io.rs): the queues between the handles of the io layer, the     *)
(* protocol state and the transport, and what each step of next_event does *)
(* to them.  A core is a record; the fields keep the source's names.       *)
(*                                                                         *)
(*   juliet              the channels of the protocol state                *)
(*   receiver, closed    the items sent by handles, in order; the channel  *)
(*                       no longer accepts items once closed               *)
(*   wait_queue          per channel: items that cannot be sent yet        *)
(*   ready_queue         messages being sent, as FrameIter                 *)
(*   active_multi_frame  per channel: header of the multi-frame message    *)
(*                       being sent                                        *)
(*   current_frame       the frame being written, and whether it is final  *)
(*   request_map         BiMap<IoId, (ChannelId, Id)>                      *)
(*   buffered_requests   per channel: free permits (IoShared)              *)
(*   pending_error       the error frame to send before shutting down      *)
(*   result              "Running", or what next_event returned last       *)
(*                                                                         *)
(* next_event parses, prepares current_frame, and then waits in select! to *)
(* write, read or receive items.  A transport hands over whole frames:     *)
(* parsing does nothing before a frame is complete.                        *)
(***************************************************************************)
EXTENDS Channel, SequencesExt

CONSTANT BufferSize     \* IoCoreBuilder::buffer_size, per channel

ASSUME IoAssumption == BufferSize \in [Channels -> Nat \ {0}]

NoFrame == [frame |-> NextFrame(Frames(NoHeader, NoPayload)), final |-> TRUE]

\* QueuedItem; a field its variant does not have is 0.
Item(kind, c, io_id, id, payload) ==
    [kind |-> kind, channel |-> c, io_id |-> io_id, id |-> id, payload |-> payload]

\* IoEvent
Event(kind, c, id, io_id) == [kind |-> kind, channel |-> c, id |-> id, io_id |-> io_id]
NoEvent == Event("None", 0, 0, 0)

\* IoCoreBuilder::build
NewCore ==
    [juliet             |-> [c \in Channels |-> NewChannel],
     receiver           |-> <<>>,
     closed             |-> FALSE,
     wait_queue         |-> [c \in Channels |-> <<>>],
     ready_queue        |-> <<>>,
     active_multi_frame |-> [c \in Channels |-> NoHeader],
     current_frame      |-> NoFrame,
     request_map        |-> {},
     buffered_requests  |-> BufferSize,
     pending_error      |-> NoFrame,
     fell_through       |-> FALSE,
     result             |-> "Running"]

Ended(core, result) == [core EXCEPT !.result = result]

IsRequest(item) == item.kind = "Request"

\* The places of the requests for channel c in a queue.  Each owns a permit.
RequestsIn(queue, c) ==
    {i \in DOMAIN queue : IsRequest(queue[i]) /\ queue[i].channel = c}

\* The IoIds of the requests in a queue.
QueuedIoIds(queue) == {item.io_id : item \in {i \in ToSet(queue) : IsRequest(i)}}

-----------------------------------------------------------------------------
(* From items to frames.                                                    *)

\* Mutant: only the request limit makes items wait.
ItemShouldWaitForLimit(core, item) ==
    item.kind = "Request" /\ ~AllowedToSendRequest(item.channel, core.juliet[item.channel])

ItemShouldWait(core, item) ==
    LET c == item.channel
    IN  \/ /\ item.kind = "Request"
           /\ ~AllowedToSendRequest(c, core.juliet[c])
        \/ /\ item.kind \in {"Request", "Response"}
           /\ core.active_multi_frame[c] # NoHeader
           /\ PayloadIsMultiFrame(item.payload)

\* BiMap::insert: both the IoId and the (channel, id) pair are unique.
MapInsert(map, io_id, c, id) ==
    {m \in map : m.io_id # io_id /\ <<m.channel, m.id>> # <<c, id>>}
        \cup {[io_id |-> io_id, channel |-> c, id |-> id]}

Enqueue(core, msg) == [core EXCEPT !.ready_queue = Append(@, msg)]

\* Mutant: the multi-frame message is not noted.
EnqueuePayloadUnnoted(core, msg) == Enqueue(core, msg)

\* A message with a payload is noted if it is a multi-frame message.
EnqueuePayload(core, msg) ==
    [core EXCEPT
        !.ready_queue = Append(@, msg),
        !.active_multi_frame[msg.header.channel] =
            IF PayloadIsMultiFrame(msg.payload) THEN msg.header ELSE @]

\* Mutant: the permits of the requests that are dropped are not released.
InjectErrorKeepPermits(core, header, payload) ==
    [core EXCEPT
        !.closed = TRUE,
        !.ready_queue = <<>>,
        !.request_map = {},
        !.wait_queue = [c \in Channels |-> <<>>],
        !.pending_error = [frame |-> NextFrame(Frames(header, payload)), final |-> TRUE]]

\* inject_error, for an error message of a single frame.
InjectError(core, header, payload) ==
    [core EXCEPT
        !.closed = TRUE,
        !.ready_queue = <<>>,
        !.request_map = {},
        !.buffered_requests = [c \in Channels |->
            @[c] + Cardinality(RequestsIn(core.wait_queue[c], c))],
        !.wait_queue = [c \in Channels |-> <<>>],
        !.pending_error = [frame |-> NextFrame(Frames(header, payload)), final |-> TRUE]]

SendRequest(core, item) ==
    LET c  == item.channel
        ch == core.juliet[c]
        id == CHOOSE i \in Ids : IsNextRequestId(ch, i)
    IN  IF item.payload > MaxRequestPayload[c] \/ ~AllowedToSendRequest(c, ch)
        THEN Ended(core, "LocalProtocolViolation")
        ELSE [EnqueuePayload(core, RequestMsg(c, id, item.payload)) EXCEPT
                 !.juliet[c] = RecordRequest(ch, id),
                 !.request_map = MapInsert(@, item.io_id, c, id),
                 !.buffered_requests[c] = @ + 1]

\* A request that is not mapped, because it was answered or has not been sent
\* yet, is not cancelled.
SendRequestCancellation(core, item) ==
    LET known == {m \in core.request_map :
                    /\ m.io_id = item.io_id
                    /\ m.id \in core.juliet[m.channel].outgoing_requests}
    IN  IF known = {} THEN core
        ELSE LET m == CHOOSE m \in known : TRUE
             IN  Enqueue(core, Frames(Header("CancelReq", m.channel, m.id), NoPayload))

SendResponse(core, item) ==
    LET c    == item.channel
        core2 == [core EXCEPT !.juliet[c] = ForgetIncoming(@, item.id)]
    IN  IF item.id \notin core.juliet[c].incoming_requests THEN core
        ELSE IF item.payload > MaxResponsePayload[c]
        THEN Ended(core2, "LocalProtocolViolation")
        ELSE EnqueuePayload(core2, ResponseMsg(c, item.id, item.payload))

SendResponseCancellation(core, item) ==
    LET c == item.channel
    IN  IF item.id \notin core.juliet[c].incoming_requests THEN core
        ELSE Enqueue([core EXCEPT !.juliet[c] = ForgetIncoming(@, item.id)],
                     Frames(Header("CancelResp", c, item.id), NoPayload))

\* An error that does not fit into a frame is refused by custom_error.
SendError(core, item) ==
    IF PayloadIsMultiFrame(item.payload)
    THEN Ended(core, "LocalProtocolViolation")
    ELSE InjectError(core, Header("Other", item.channel, item.id), item.payload)

SendToReadyQueue(core, item) ==
    CASE item.kind = "Request"              -> SendRequest(core, item)
      [] item.kind = "RequestCancellation"  -> SendRequestCancellation(core, item)
      [] item.kind = "Response"             -> SendResponse(core, item)
      [] item.kind = "ResponseCancellation" -> SendResponseCancellation(core, item)
      [] item.kind = "Error"                -> SendError(core, item)

HandleIncomingItem(core, item) ==
    IF core.result # "Running" THEN core
    ELSE IF ItemShouldWait(core, item)
    THEN [core EXCEPT !.wait_queue[item.channel] = Append(@, item)]
    ELSE SendToReadyQueue(core, item)

\* Mutant: the wait queue is never processed.
ProcessWaitQueueNever(core, c) == core

\* One turn of the loop in process_wait_queue: the item at the front is sent, or
\* goes to the end of the queue if it has to wait longer.  The search ends early
\* if an item was sent and no further request may be.
WaitQueueTurn(turn, c) ==
    LET item   == Head(turn.core.wait_queue[c])
        popped == [turn.core EXCEPT !.wait_queue[c] = Tail(@)]
        sent   == SendToReadyQueue(popped, item)
    IN  IF turn.done \/ turn.core.wait_queue[c] = <<>> THEN turn
        ELSE IF ItemShouldWait(popped, item)
        THEN [turn EXCEPT !.core.wait_queue[c] = Append(Tail(@), item)]
        ELSE [core |-> sent,
              done |-> \/ sent.result # "Running"
                       \/ ~AllowedToSendRequest(c, sent.juliet[c])]

\* process_wait_queue: every item that was waiting is looked at once.
ProcessWaitQueue(core, c) ==
    LET remaining == Len(core.wait_queue[c])
        after[n \in 0 .. remaining] ==
            IF n = 0 THEN [core |-> core, done |-> FALSE] ELSE WaitQueueTurn(after[n - 1], c)
    IN  after[remaining].core

ReadyNextFrame(core) ==
    IF core.current_frame # NoFrame \/ core.ready_queue = <<>> THEN core
    ELSE LET iter == Head(core.ready_queue)
         IN  [core EXCEPT
                !.current_frame = [frame |-> NextFrame(iter), final |-> IsFinalFrame(iter)],
                !.ready_queue = IF IsFinalFrame(iter) THEN Tail(@)
                                ELSE Append(Tail(@), AfterFrame(iter))]

-----------------------------------------------------------------------------
(* The branches of next_event.                                              *)

\* The write branch of select!: current_frame has been written.
FrameWritten(core) ==
    LET h == core.current_frame.frame.header
        sent == [core EXCEPT
                    !.current_frame = NoFrame,
                    !.fell_through = FALSE,
                    !.active_multi_frame[h.channel] =
                        IF core.current_frame.final /\ @ = h THEN NoHeader ELSE @]
    IN  ReadyNextFrame(ProcessWaitQueue(sent, h.channel))

\* The items that are in the channel are handled, in their order.
HandleItems(core) ==
    LET items == core.receiver
        after[n \in 0 .. Len(items)] ==
            IF n = 0 THEN [core EXCEPT !.receiver = <<>>, !.fell_through = FALSE]
            ELSE HandleIncomingItem(after[n - 1], items[n])
    IN  after[Len(items)]

\* The receive branch.  It ends the core if there are no items and there will be
\* no more, or if the last handle is gone.
ItemsReceived(core, handles_dropped) ==
    LET handled == HandleItems(core)
    IN  IF handled.result = "Running"
           /\ (handles_dropped \/ (core.closed /\ core.receiver = <<>>))
        THEN Ended(handled, "Shutdown")
        ELSE IF handled.pending_error # NoFrame THEN handled
        ELSE ReadyNextFrame(handled)

\* Whether the parser finds the frame where the sender put it: it takes a
\* length prefix for one if the sender wrote one.
Readable(ch, f) ==
    f.header.kind \in {"RequestPl", "ResponsePl"} =>
        IF ch.current_multiframe_receiver.header = f.header
        THEN f.len = NoLen /\ f.seg = LaterSegment(ch.current_multiframe_receiver)
        ELSE f.len # NoLen

Mapped(core, c, id) == {m \in core.request_map : m.channel = c /\ m.id = id}

\* Mutant: an answered request stays in the map.
AnswerReadKeep(core, kind, c, id) ==
    [core |-> core,
     event |-> Event(kind, c, id, (CHOOSE m \in Mapped(core, c, id) : TRUE).io_id)]

\* handle_completed_read, for an answer to one of our requests.
AnswerRead(core, kind, c, id) ==
    IF Mapped(core, c, id) = {}
    THEN [core |-> Ended(core, "InternalError"), event |-> NoEvent]
    ELSE LET m == CHOOSE m \in Mapped(core, c, id) : TRUE
         IN  [core |-> [core EXCEPT !.request_map = @ \ {m}],
              event |-> Event(kind, c, id, m.io_id)]

\* process_incoming has completed a frame; the wait queue is processed after a
\* response, before the response is looked up.  A fatal outcome goes on to
\* select! before the error is sent.
FrameRead(core, f) ==
    LET c      == f.header.channel
        id     == f.header.id
        step   == ProcessFrame(c, core.juliet[c], f)
        parsed == [core EXCEPT !.juliet[c] = step.chan]
    IN  CASE f.header.kind \in ErrorKind ->
                [core |-> Ended(core, "RemoteReportedError"), event |-> NoEvent]
          [] f.header.kind \in Kind /\ ~Readable(core.juliet[c], f) ->
                [core |-> Ended(core, "Misread"), event |-> NoEvent]
          [] f.header.kind \in Kind /\ Readable(core.juliet[c], f) ->
                CASE step.outcome \in ErrorKind ->
                        [core |-> [InjectError(parsed, Header(step.outcome, c, id), NoPayload)
                                      EXCEPT !.fell_through = TRUE],
                         event |-> NoEvent]
                  [] step.outcome = "Continue" ->
                        [core |-> parsed, event |-> NoEvent]
                  [] step.outcome = "NewRequest" ->
                        [core |-> parsed, event |-> Event("NewRequest", c, id, 0)]
                  [] step.outcome = "RequestCancellation" ->
                        [core |-> parsed, event |-> Event("RequestCancelled", c, id, 0)]
                  [] step.outcome = "ReceivedResponse" ->
                        LET promoted == ProcessWaitQueue(parsed, c)
                        IN  IF promoted.result # "Running"
                            THEN [core |-> promoted, event |-> NoEvent]
                            ELSE AnswerRead(promoted, "ReceivedResponse", c, id)
                  [] step.outcome = "ResponseCancellation" ->
                        AnswerRead(parsed, "ReceivedCancellationResponse", c, id)

=============================================================================
