--------------------------- MODULE JulietProtocol ---------------------------
(***************************************************************************)
(* One JulietProtocol<N> (protocol.rs) between its caller and a peer that  *)
(* may send anything: every call that changes the protocol state is an     *)
(* action, and every frame the parser can read is a possible input.        *)
(*                                                                         *)
(* `reported` and `awaited` are what the caller knows from the return      *)
(* values alone: the requests it was handed and has not answered, and how  *)
(* many of its own requests with an ID it was told of no answer to.  The   *)
(* caller answers only what is reported, as the owner of an                *)
(* IncomingRequest does, and stops when a call ends the connection.  Calls *)
(* that return a LocalProtocolViolation or `None` without changing state,  *)
(* and cancel_request, which only creates a message, are stuttering steps. *)
(***************************************************************************)
EXTENDS Channel

CONSTANTS
    Payloads,   \* payloads the caller tries to send, NoPayload among them
    PeerLens,   \* length prefixes the peer may send, BadLen among them
    PeerOffs    \* in how many bytes it may encode them

ASSUME ProtocolAssumption ==
    /\ Payloads \subseteq Nat \cup {NoPayload}
    /\ PeerLens \subseteq Nat \cup {BadLen}
    /\ PeerOffs \subseteq 1 .. VarintMaxLen

VARIABLES
    channels,       \* JulietProtocol::channels
    connection,     \* "open", or what ended the connection
    reported,       \* per channel: requests handed to the caller, unanswered
    awaited         \* per channel and ID: own requests awaiting an answer

vars == <<channels, connection, reported, awaited>>

-----------------------------------------------------------------------------
(* What a peer may send.  A channel number is any byte, valid or not.       *)

PeerHeaders == [kind : Kind, channel : 0 .. NumChannels, id : Ids]

\* Frames as process_incoming reads them: `off` bytes of length prefix, which
\* need not be the shortest encoding of `len`.
HeaderFrames ==
    {[header |-> h, len |-> NoLen, off |-> 0] :
        h \in {g \in PeerHeaders : g.kind \notin {"RequestPl", "ResponsePl"}}}

PayloadFrames ==
    {f \in [header : {g \in PeerHeaders : g.kind \in {"RequestPl", "ResponsePl"}},
            len : PeerLens, off : PeerOffs] :
        f.len # BadLen => f.off >= LengthOf(f.len)}

-----------------------------------------------------------------------------

\* ProtocolBuilder::build
Init ==
    /\ channels = [c \in Channels |-> NewChannel]
    /\ connection = "open"
    /\ reported = [c \in Channels |-> {}]
    /\ awaited = [c \in Channels |-> [id \in Ids |-> 0]]

CreateRequest(c, payload) ==
    /\ connection = "open"
    /\ payload <= MaxRequestPayload[c]
    /\ AllowedToSendRequest(c, channels[c])
    /\ \E id \in Ids :
         /\ IsNextRequestId(channels[c], id)
         /\ channels' = [channels EXCEPT ![c] = RecordRequest(@, id)]
         /\ awaited' = [awaited EXCEPT ![c][id] = @ + 1]
    /\ UNCHANGED <<connection, reported>>

\* create_response gives up the ID before it checks the size of the payload, so
\* it does so for a payload it then rejects as well.  cancel_response does the
\* same and has no payload to check.
AnswerRequest(c, id) ==
    /\ connection = "open"
    /\ id \in reported[c]
    /\ channels' = [channels EXCEPT ![c] = ForgetIncoming(@, id)]
    /\ reported' = [reported EXCEPT ![c] = @ \ {id}]
    /\ UNCHANGED <<connection, awaited>>

\* custom_error: a payload of more than one frame is refused, otherwise the
\* message is the last one the caller may send.
CustomError(payload) ==
    /\ connection = "open"
    /\ ~PayloadIsMultiFrame(payload)
    /\ connection' = "Other"
    /\ UNCHANGED <<channels, reported, awaited>>

\* process_incoming on a frame that is no error frame.
ReceiveFrame(f) ==
    LET c    == f.header.channel
        id   == f.header.id
        step == ProcessFrame(c, channels[c], f)
    IN  /\ connection = "open"
        /\ c \in Channels
        /\ channels' = [channels EXCEPT ![c] = step.chan]
        /\ connection' = IF step.outcome \in ErrorKind THEN step.outcome ELSE "open"
        /\ reported' = IF step.outcome = "NewRequest"
                       THEN [reported EXCEPT ![c] = @ \cup {id}] ELSE reported
        /\ awaited' = IF step.outcome \in {"ReceivedResponse", "ResponseCancellation"}
                      THEN [awaited EXCEPT ![c][id] = @ - 1] ELSE awaited

\* process_incoming on a frame for a channel that is not configured, or on a
\* header whose kind byte names no kind.
ReceiveInvalid(kind) ==
    /\ connection = "open"
    /\ kind \in {"InvalidChannel", "InvalidHeader"}
    /\ connection' = kind
    /\ UNCHANGED <<channels, reported, awaited>>

\* process_incoming on an error frame.  Only `Other` has a payload, which has
\* to fit into its frame.
ReceiveError(kind, len, off) ==
    /\ connection = "open"
    /\ len # BadLen => off >= LengthOf(len)
    /\ connection' =
         CASE kind = "Other" /\ len = BadLen -> "BadVarInt"
           [] kind = "Other" /\ len # BadLen /\ HeaderSize + off + len > MaxFrameSize ->
                "SegmentViolation"
           [] kind # "Other" \/ (len # BadLen /\ HeaderSize + off + len <= MaxFrameSize) ->
                "ErrorReceived"
    /\ UNCHANGED <<channels, reported, awaited>>

Caller ==
    \/ \E c \in Channels, p \in Payloads : CreateRequest(c, p)
    \/ \E c \in Channels, id \in Ids : AnswerRequest(c, id)
    \/ \E p \in Payloads \ {NoPayload} : CustomError(p)

Peer ==
    \/ \E f \in HeaderFrames \cup PayloadFrames : ReceiveFrame(f)
    \/ \E kind \in ErrorKind : ReceiveInvalid(kind)
    \/ \E kind \in ErrorKind, len \in PeerLens, off \in PeerOffs :
           ReceiveError(kind, len, off)

Next == Caller \/ Peer

Spec == Init /\ [][Next]_vars

-----------------------------------------------------------------------------
(* Properties.                                                              *)

\* The channels, the connection status and the caller's knowledge have their types.
TypeOK ==
    /\ channels \in [Channels -> ChannelStates]
    /\ connection \in {"open", "ErrorReceived"} \cup ErrorKind
    /\ reported \in [Channels -> SUBSET Ids]
    /\ awaited \in [Channels -> [Ids -> Int]]

\* Whatever the peer sends, it cannot make the protocol layer track more
\* requests, credit more cancellations or buffer more payload than the channel
\* configuration allows (is_at_max_incoming_requests, the allowance's cap and
\* the size check of detect_starting_segment).
ResourceBound == \A c \in Channels : ChannelBounded(c, channels[c])

\* incoming_requests holds every request the caller was handed and has not
\* answered (the comment on Channel::incoming_requests): an answer to it is
\* never dropped as if the request had been cancelled.  A configuration with
\* multi-frame responses violates it, see AbortsTransfer.
ReportedTracked ==
    connection = "open" =>
        \A c \in Channels : reported[c] \subseteq channels[c].incoming_requests

\* A request whose first frames have arrived is counted as in flight and has
\* not been reported yet (the was_new branch of RequestPl), so no answer can
\* take its slot away before it is complete.
TransferTracked ==
    connection = "open" =>
        \A c \in Channels :
            LET h == channels[c].current_multiframe_receiver.header
            IN  h.kind = "RequestPl" =>
                    h.id \in channels[c].incoming_requests \ reported[c]

\* No slot of the incoming request limit leaks: each is held by a request the
\* caller was handed and can still answer, or by the transfer in progress, so
\* that the caller can always free all of them (create_response,
\* cancel_response, and the internal cancellation of CancelReq).
NoLeakedSlot ==
    connection = "open" =>
        \A c \in Channels : \A id \in channels[c].incoming_requests :
            \/ id \in reported[c]
            \/ channels[c].current_multiframe_receiver.header
                   = Header("RequestPl", c, id)

\* The requests in flight are the ones the caller awaits an answer to, and no ID
\* is in flight twice (generate_request_id): each request is answered at most
\* once, by a response or by a cancellation, no answer to anything else is
\* reported, and an answer is that of the request it names.
AnsweredOnce ==
    \A c \in Channels, id \in Ids :
        awaited[c][id] = IF id \in channels[c].outgoing_requests THEN 1 ELSE 0

=============================================================================
