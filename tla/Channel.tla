------------------------------ MODULE Channel -------------------------------
(***************************************************************************)
(* The per-channel state of JulietProtocol<N> and what every call of the   *)
(* protocol layer does to it (protocol.rs).                                *)
(*                                                                         *)
(* process_incoming handles one frame at a time and changes nothing while  *)
(* a frame is incomplete, so it is modelled per complete frame: ProcessFrame *)
(* gives the channel after the frame and the outcome, which is a           *)
(* CompletedRead, "Continue" when the loop moves on to the next frame      *)
(* without one, or the ErrorKind of a Fatal outcome.                       *)
(***************************************************************************)
EXTENDS Multiframe, FiniteSets

CONSTANTS
    RequestLimit,           \* ChannelConfiguration::request_limit, per channel
    MaxRequestPayload,      \* ... max_request_payload_size
    MaxResponsePayload      \* ... max_response_payload_size

\* A request limit is a u16: at least one ID is always spare.
ASSUME ChannelAssumption ==
    /\ RequestLimit \in [Channels -> 0 .. IdCount - 1]
    /\ MaxRequestPayload \in [Channels -> Nat]
    /\ MaxResponsePayload \in [Channels -> Nat]

\* Channel::new
NewChannel ==
    [incoming_requests           |-> {},
     outgoing_requests           |-> {},
     current_multiframe_receiver |-> Ready,
     cancellation_allowance      |-> 0,
     prev_request_id             |-> 0]

CompletedRead == {"NewRequest", "ReceivedResponse", "RequestCancellation",
                  "ResponseCancellation", "ErrorReceived"}

Outcome == CompletedRead \cup {"Continue"} \cup ErrorKind

\* The result of handling a frame; `payload` is the size of what is delivered.
Step(ch, outcome, payload) ==
    [chan |-> ch, outcome |-> outcome, payload |-> payload]

\* err_msg: the outcome is fatal for the connection.
ErrMsg(ch, kind) == Step(ch, kind, NoPayload)

-----------------------------------------------------------------------------
(* Creating requests.                                                       *)

\* Mutant: off by one.
IsBeyondMaxIncomingRequests(c, ch) ==
    Cardinality(ch.incoming_requests) > RequestLimit[c]

IsAtMaxIncomingRequests(c, ch) ==
    Cardinality(ch.incoming_requests) >= RequestLimit[c]

AllowedToSendRequest(c, ch) ==
    Cardinality(ch.outgoing_requests) < RequestLimit[c]

\* How often the candidate ID is incremented (wrapping) before it reaches id.
Probes(ch, id) == (id - ch.prev_request_id - 1) % IdCount

\* Mutant: IDs that are in flight are not skipped.
IsNextRequestIdTaken(ch, id) == Probes(ch, id) = 0

\* Channel::generate_request_id, with the `unwrap_or(Id(0))` of its caller:
\* the ID is the first unused one after prev_request_id.
IsNextRequestId(ch, id) ==
    IF Cardinality(ch.outgoing_requests) = IdCount - 1
    THEN id = 0
    ELSE /\ id \notin ch.outgoing_requests
         /\ \A used \in Ids :
                Probes(ch, used) < Probes(ch, id) => used \in ch.outgoing_requests

\* Channel::create_unchecked_request, for an ID from IsNextRequestId.  An
\* exhausted ID space leaves prev_request_id alone.
RecordRequest(ch, id) ==
    [ch EXCEPT !.outgoing_requests = @ \cup {id},
               !.prev_request_id =
                   IF Cardinality(ch.outgoing_requests) = IdCount - 1 THEN @ ELSE id]

RequestMsg(c, id, payload) ==
    Frames(Header(IF payload = NoPayload THEN "Request" ELSE "RequestPl", c, id),
           payload)

\* create_unchecked_response
ResponseMsg(c, id, payload) ==
    Frames(Header(IF payload = NoPayload THEN "Response" ELSE "ResponsePl", c, id),
           payload)

\* Mutant: the answered request stays tracked.
ForgetNothing(ch, id) == ch

\* The state change of create_response and cancel_response.
ForgetIncoming(ch, id) == [ch EXCEPT !.incoming_requests = @ \ {id}]

-----------------------------------------------------------------------------
(* Receiving frames.                                                        *)

\* Mutant: no cancellation is ever credited.
NoCancellationAllowance(c, ch) == ch

\* Channel::increment_cancellation_allowance
IncrementCancellationAllowance(c, ch) ==
    [ch EXCEPT !.cancellation_allowance =
        IF @ < RequestLimit[c] THEN @ + 1 ELSE @]

\* The checks both request kinds share; `outcome` is given if they succeed.
AdmitRequest(c, ch, id, outcome, payload) ==
    IF IsAtMaxIncomingRequests(c, ch) THEN ErrMsg(ch, "RequestLimitExceeded")
    ELSE IF id \in ch.incoming_requests THEN ErrMsg(ch, "DuplicateRequest")
    ELSE Step(IncrementCancellationAllowance(c,
                  [ch EXCEPT !.incoming_requests = @ \cup {id}]),
              outcome, payload)

OnRequest(c, ch, f) == AdmitRequest(c, ch, f.header.id, "NewRequest", NoPayload)

OnResponse(ch, f) ==
    IF f.header.id \in ch.outgoing_requests
    THEN Step([ch EXCEPT !.outgoing_requests = @ \ {f.header.id}],
              "ReceivedResponse", NoPayload)
    ELSE ErrMsg(ch, "FictitiousRequest")

\* The frame is consumed first and admitted after; only a frame that starts a
\* message is admitted.
OnRequestPl(c, ch, f) ==
    LET acc == Accept(ch.current_multiframe_receiver, f,
                      MaxRequestPayload[c], "RequestTooLarge")
        ch2 == [ch EXCEPT !.current_multiframe_receiver = acc.receiver]
    IN  CASE acc.frame = "NewMultiFrame" ->
                AdmitRequest(c, ch2, f.header.id, "Continue", NoPayload)
          [] acc.frame = "SingleFrame" ->
                AdmitRequest(c, ch2, f.header.id, "NewRequest", acc.payload)
          [] acc.frame = "IntermediateMultiFrame" ->
                Step(ch2, "Continue", NoPayload)
          [] acc.frame = "CompletedMultiFrame" ->
                Step(ch2, "NewRequest", acc.payload)
          [] acc.frame \in ErrorKind ->
                ErrMsg(ch2, acc.frame)

OnResponsePl(c, ch, f) ==
    LET acc == Accept(ch.current_multiframe_receiver, f,
                      MaxResponsePayload[c], "ResponseTooLarge")
        ch2 == [ch EXCEPT !.current_multiframe_receiver = acc.receiver]
    IN  IF f.header.id \notin ch.outgoing_requests
        THEN ErrMsg(ch, "FictitiousRequest")
        ELSE CASE acc.frame \in {"NewMultiFrame", "IntermediateMultiFrame"} ->
                     Step(ch2, "Continue", NoPayload)
               [] acc.frame \in {"SingleFrame", "CompletedMultiFrame"} ->
                     Step([ch2 EXCEPT !.outgoing_requests = @ \ {f.header.id}],
                          "ReceivedResponse", acc.payload)
               [] acc.frame \in ErrorKind ->
                     ErrMsg(ch2, acc.frame)

\* The transfer a request cancellation aborts: the code compares the ID of the
\* transfer in progress, whatever the kind of its header.
AbortsTransfer(ch, id) ==
    /\ ch.current_multiframe_receiver # Ready
    /\ ch.current_multiframe_receiver.header.id = id

\* Mutant: the allowance is not checked.
OnCancelReqUnchecked(ch, f) ==
    Step([ch EXCEPT !.cancellation_allowance = @ - 1], "Continue", NoPayload)

\* Mutant: the aborted transfer keeps its slot.
OnCancelReqLeak(ch, f) ==
    IF ch.cancellation_allowance = 0 THEN ErrMsg(ch, "CancellationLimitExceeded")
    ELSE Step([ch EXCEPT !.cancellation_allowance = @ - 1,
                         !.current_multiframe_receiver =
                             IF AbortsTransfer(ch, f.header.id) THEN Ready ELSE @],
              "Continue", NoPayload)

\* Mutant: a cancelled request is removed at once, and no transfer is aborted.
OnCancelReqRemove(ch, f) ==
    IF ch.cancellation_allowance = 0 THEN ErrMsg(ch, "CancellationLimitExceeded")
    ELSE Step([ch EXCEPT !.cancellation_allowance = @ - 1,
                         !.incoming_requests = @ \ {f.header.id}],
              "RequestCancellation", NoPayload)

OnCancelReq(ch, f) ==
    LET id  == f.header.id
        ch2 == [ch EXCEPT
                  !.cancellation_allowance = @ - 1,
                  !.current_multiframe_receiver =
                      IF AbortsTransfer(ch, id) THEN Ready ELSE @,
                  !.incoming_requests =
                      IF AbortsTransfer(ch, id) THEN @ \ {id} ELSE @]
    IN  IF ch.cancellation_allowance = 0
        THEN ErrMsg(ch, "CancellationLimitExceeded")
        ELSE IF id \in ch2.incoming_requests
        THEN Step(ch2, "RequestCancellation", NoPayload)
        ELSE Step(ch2, "Continue", NoPayload)

OnCancelResp(ch, f) ==
    IF f.header.id \in ch.outgoing_requests
    THEN Step([ch EXCEPT !.outgoing_requests = @ \ {f.header.id}],
              "ResponseCancellation", NoPayload)
    ELSE ErrMsg(ch, "FictitiousCancel")

\* process_incoming, from the match on the frame kind.
ProcessFrame(c, ch, f) ==
    CASE f.header.kind = "Request"    -> OnRequest(c, ch, f)
      [] f.header.kind = "Response"   -> OnResponse(ch, f)
      [] f.header.kind = "RequestPl"  -> OnRequestPl(c, ch, f)
      [] f.header.kind = "ResponsePl" -> OnResponsePl(c, ch, f)
      [] f.header.kind = "CancelReq"  -> OnCancelReq(ch, f)
      [] f.header.kind = "CancelResp" -> OnCancelResp(ch, f)

-----------------------------------------------------------------------------
(* The states a channel can be in, and the bounds its configuration puts on *)
(* them.                                                                    *)

Headers == [kind : Kind \cup {"None"}, channel : Nat, id : Nat]

Receivers == [header : Headers, received : Nat, total : Nat]

ChannelStates ==
    [incoming_requests           : SUBSET Ids,
     outgoing_requests           : SUBSET Ids,
     current_multiframe_receiver : Receivers,
     cancellation_allowance      : Nat,
     prev_request_id             : Ids]

\* The limit process_incoming hands to accept for a payload with this header.
MaxPayload(header) ==
    IF header.kind = "RequestPl" THEN MaxRequestPayload[header.channel]
                                 ELSE MaxResponsePayload[header.channel]

\* A transfer in progress on channel c is one of c, holds less than its total,
\* and its total is within the limit configured for its kind of payload.
ReceiverBounded(c, rcv) ==
    \/ rcv = Ready
    \/ /\ rcv.header.kind \in {"RequestPl", "ResponsePl"}
       /\ rcv.header.channel = c
       /\ rcv.received < rcv.total
       /\ rcv.total <= MaxPayload(rcv.header)

ChannelBounded(c, ch) ==
    /\ Cardinality(ch.incoming_requests) <= RequestLimit[c]
    /\ Cardinality(ch.outgoing_requests) <= RequestLimit[c]
    /\ ch.cancellation_allowance <= RequestLimit[c]
    /\ ReceiverBounded(c, ch.current_multiframe_receiver)

=============================================================================
