---------------------------- MODULE ChannelProofs ---------------------------
(***************************************************************************)
(* What the operators of Channel do to a channel, for every configuration  *)
(* and every frame a reader can be handed, and what becomes of a message   *)
(* that is cut into frames: the facts that the proofs about the protocol   *)
(* state, the parser and the io layer share.                               *)
(***************************************************************************)
EXTENDS Channel, FiniteSetTheorems, TLAPS

-----------------------------------------------------------------------------
(* Facts about the operators.                                               *)

\* The ID space is a finite set of numbers.
LEMMA IdsFinite == IsFiniteSet(Ids) /\ Ids \subseteq Nat
  BY FS_Interval, WireAssumption DEF Ids

\* A set of IDs with an element added or removed: what counting them gives.
LEMMA IdSetChange ==
  ASSUME NEW S \in SUBSET Ids, NEW x \in Ids
  PROVE  /\ Cardinality(S) \in Nat
         /\ x \notin S => Cardinality(S \cup {x}) = Cardinality(S) + 1
         /\ x \in S => S \cup {x} = S
         /\ Cardinality(S \ {x}) \in Nat
         /\ Cardinality(S \ {x}) <= Cardinality(S)
  <1>1. IsFiniteSet(S)
    BY IdsFinite, FS_Subset
  <1>2. Cardinality(S) \in Nat
    BY <1>1, FS_CardinalityType
  <1>3. x \notin S => Cardinality(S \cup {x}) = Cardinality(S) + 1
    BY <1>1, FS_AddElement
  <1>4. /\ Cardinality(S \ {x}) \in Nat
        /\ Cardinality(S \ {x}) <= Cardinality(S)
    BY <1>1, <1>2, FS_RemoveElement, FS_Subset, FS_CardinalityType
  <1> QED
    BY <1>2, <1>3, <1>4

\* A new channel has no requests in flight.
LEMMA EmptyCardinality == Cardinality({}) = 0
  BY FS_EmptySet

\* The configuration of a channel as numbers.
LEMMA LimitFacts ==
  ASSUME NEW c \in Channels
  PROVE  /\ RequestLimit[c] \in Nat /\ RequestLimit[c] <= IdCount - 1
         /\ MaxRequestPayload[c] \in Nat
         /\ MaxResponsePayload[c] \in Nat
  BY ChannelAssumption, WireAssumption

-----------------------------------------------------------------------------
(* Frames and the multi-frame receiver.                                     *)

FrameHeaders == [kind : Kind, channel : Nat, id : Ids]

\* A frame with a length prefix, as decode_varint32 reads it.
Prefixed(f) == f.len = BadLen \/ (f.len \in Nat /\ f.off \in 1 .. VarintMaxLen)

\* A frame the parser finds where it looks for it: a frame of a payload has a
\* length prefix unless it continues the transfer in progress.
Legible(ch, f) ==
    /\ f.header \in FrameHeaders
    /\ /\ f.header.kind \in {"RequestPl", "ResponsePl"}
       /\ ch.current_multiframe_receiver.header # f.header
       => Prefixed(f)

\* What is known of the header of a frame.
LEMMA HeaderFacts ==
  ASSUME NEW h \in FrameHeaders
  PROVE  /\ h \in Headers /\ h.kind \in Kind /\ h.id \in Ids
         /\ h = Header(h.kind, h.channel, h.id)
  <1>1. /\ h = [kind |-> h.kind, channel |-> h.channel, id |-> h.id]
        /\ h.kind \in Kind /\ h.channel \in Nat /\ h.id \in Ids
    BY DEF FrameHeaders
  <1>2. h.id \in Nat
    BY <1>1, IdsFinite
  <1> QED
    BY <1>1, <1>2 DEF Headers, Header

\* The results of MultiframeReceiver::accept on a frame of kind `kind`.
AcceptFacts(c, rcv, f, max, exceeded, acc) ==
    /\ acc.frame \in CompletedFrame \cup ErrorKind
    /\ acc.receiver \in Receivers
    /\ ReceiverBounded(c, acc.receiver)
    /\ acc.frame = "NewMultiFrame" =>
          /\ rcv = Ready /\ acc.receiver.header = f.header /\ acc.receiver # Ready
          /\ max > MaxFrameSize - HeaderSize - VarintMaxLen
    /\ acc.frame = "IntermediateMultiFrame" =>
          rcv # Ready /\ rcv.header = f.header
              /\ acc.receiver.header = f.header /\ acc.receiver # Ready
    /\ acc.frame = "CompletedMultiFrame" =>
          rcv # Ready /\ rcv.header = f.header /\ acc.receiver = Ready
    /\ acc.frame = "SingleFrame" => acc.receiver = rcv

\* MultiframeReceiver::accept keeps a transfer within the limit it was given,
\* and its CompletedFrame says what became of the transfer.
LEMMA AcceptResult ==
  ASSUME NEW c \in Channels, NEW rcv \in Receivers, ReceiverBounded(c, rcv),
         NEW f, f.header \in FrameHeaders, f.header.channel = c,
         f.header.kind \in {"RequestPl", "ResponsePl"},
         rcv.header # f.header => Prefixed(f),
         NEW max \in Nat, max = MaxPayload(f.header),
         NEW exceeded \in ErrorKind
  PROVE  AcceptFacts(c, rcv, f, max, exceeded, Accept(rcv, f, max, exceeded))
  <1> DEFINE acc == Accept(rcv, f, max, exceeded)
  <1>0. f.header \in Headers /\ f.header # NoHeader /\ Ready \in Receivers
    BY HeaderFacts DEF NoHeader, Header, Ready, Receivers, Headers
  <1>1. MaxFrameSize \in Nat /\ MaxFrameSize >= 10
    BY WireAssumption DEF MinFrameSize, HeaderSize, VarintMaxLen
  <1>2. CASE rcv.header = f.header
    <2>0. rcv # Ready /\ rcv.received < rcv.total /\ rcv.total <= MaxPayload(rcv.header)
      BY <1>0, <1>2 DEF ReceiverBounded, Ready
    <2> DEFINE received == rcv.received + LaterSegment(rcv)
    <2>1. /\ received \in Nat
          /\ received <= rcv.total
          /\ rcv.received \in Nat /\ rcv.total \in Nat
      BY <2>0, <1>1 DEF LaterSegment, Least, HeaderSize, Receivers
    <2>2. acc = AcceptLater(rcv)
      BY <1>2 DEF Accept
    <2>3. CASE received = rcv.total
      <3>1. acc = Accepted(Ready, "CompletedMultiFrame", received)
        BY <2>2, <2>3 DEF AcceptLater
      <3> QED
        BY <3>1, <2>0, <1>0, <1>2
        DEF AcceptFacts, Accepted, CompletedFrame, ReceiverBounded
    <2>4. CASE received # rcv.total
      <3> DEFINE rcv2 == [rcv EXCEPT !.received = received]
      <3>1. acc = Accepted(rcv2, "IntermediateMultiFrame", NoPayload)
        BY <2>2, <2>4 DEF AcceptLater
      <3>2. rcv2 \in Receivers /\ rcv2.header = f.header /\ rcv2.received = received
              /\ rcv2.total = rcv.total /\ received < rcv.total
        BY <2>1, <2>4, <1>2 DEF Receivers
      <3>3. ReceiverBounded(c, rcv2) /\ rcv2 # Ready
        BY <3>2, <2>0, <1>0, <1>2 DEF ReceiverBounded, Ready
      <3> HIDE DEF rcv2
      <3> QED
        BY <3>1, <3>2, <3>3, <2>0, <1>2
        DEF AcceptFacts, Accepted, CompletedFrame
    <2> QED
      BY <2>3, <2>4
  <1>3. CASE rcv.header # f.header
    <2>0. /\ acc = AcceptStart(rcv, f, max, exceeded)
          /\ f.len \in Nat \cup {BadLen}
          /\ f.len \in Nat => f.off \in 1 .. VarintMaxLen
      BY <1>3 DEF Accept, Prefixed, BadLen
    <2>1. CASE f.len = BadLen
      <3>1. acc = Accepted(rcv, "BadVarInt", NoPayload)
        BY <2>0, <2>1 DEF AcceptStart, BadLen
      <3> QED
        BY <3>1 DEF AcceptFacts, Accepted, CompletedFrame, ErrorKind
    <2>2. CASE f.len \in Nat /\ f.len > max
      <3>1. acc = Accepted(rcv, exceeded, NoPayload)
        BY <2>0, <2>2 DEF AcceptStart, BadLen
      <3> QED
        BY <3>1 DEF AcceptFacts, Accepted, CompletedFrame, ErrorKind
    <2>3. CASE f.len \in 0 .. max /\ StartingSegment(f) = f.len
      <3>1. acc = Accepted(rcv, "SingleFrame", f.len)
        BY <2>0, <2>3 DEF AcceptStart, BadLen
      <3> QED
        BY <3>1 DEF AcceptFacts, Accepted, CompletedFrame, ErrorKind
    <2>4. CASE f.len \in 0 .. max /\ StartingSegment(f) # f.len /\ rcv = Ready
      <3> DEFINE rcv2 == InProgress(f.header, StartingSegment(f), f.len)
      <3>1. acc = Accepted(rcv2, "NewMultiFrame", NoPayload)
        BY <2>0, <2>4 DEF AcceptStart, BadLen
      <3>2. /\ StartingSegment(f) \in Nat /\ StartingSegment(f) < f.len /\ f.len \in Nat
            /\ max > MaxFrameSize - HeaderSize - VarintMaxLen
        BY <2>0, <2>4, <1>1 DEF StartingSegment, Least, HeaderSize, VarintMaxLen
      <3>3. /\ rcv2.header = f.header /\ rcv2.received = StartingSegment(f)
            /\ rcv2.total = f.len /\ rcv2 \in Receivers /\ rcv2 # Ready
        BY <3>2, <1>0 DEF InProgress, Receivers, Ready
      <3>4. ReceiverBounded(c, rcv2)
        BY <3>2, <3>3, <2>4 DEF ReceiverBounded
      <3> HIDE DEF rcv2
      <3> QED
        BY <3>1, <3>2, <3>3, <3>4, <2>4 DEF AcceptFacts, Accepted, CompletedFrame
    <2>5. CASE f.len \in 0 .. max /\ StartingSegment(f) # f.len /\ rcv # Ready
      <3>1. acc = Accepted(rcv, "InProgress", NoPayload)
        BY <2>0, <2>5 DEF AcceptStart, BadLen
      <3> QED
        BY <3>1 DEF AcceptFacts, Accepted, CompletedFrame, ErrorKind
    <2> QED
      BY <2>0, <2>1, <2>2, <2>3, <2>4, <2>5
  <1> QED
    BY <1>2, <1>3

-----------------------------------------------------------------------------
(* The handlers of process_incoming.                                        *)

ChannelOK(c, ch) == ch \in ChannelStates /\ ChannelBounded(c, ch)

TransferOf(ch, h) == ch.current_multiframe_receiver.header = h

\* What a frame with this ID can do to the incoming requests and the receiver
\* of channel ch, which becomes ch2, unless it ends the connection.

\* A request is admitted, as a whole or with the first frame of its payload.
Admits(c, ch, id, ch2, outcome) ==
    /\ id \notin ch.incoming_requests
    /\ ch2.incoming_requests = ch.incoming_requests \cup {id}
    /\ \/ /\ outcome = "NewRequest"
          /\ ch2.current_multiframe_receiver = ch.current_multiframe_receiver
       \/ /\ outcome = "Continue"
          /\ ch.current_multiframe_receiver = Ready
          /\ TransferOf(ch2, Header("RequestPl", c, id))

\* A request is completed by the last frame of its payload.
Completes(c, ch, id, ch2, outcome) ==
    /\ outcome = "NewRequest"
    /\ ch2.incoming_requests = ch.incoming_requests
    /\ TransferOf(ch, Header("RequestPl", c, id))
    /\ ch2.current_multiframe_receiver = Ready

\* A transfer goes on, or that of a response starts, which takes a response
\* that does not fit into a frame.
Progresses(c, ch, id, ch2, outcome) ==
    /\ outcome = "Continue"
    /\ ch2.incoming_requests = ch.incoming_requests
    /\ \/ ch2.current_multiframe_receiver.header = ch.current_multiframe_receiver.header
       \/ /\ ch.current_multiframe_receiver = Ready
          /\ TransferOf(ch2, Header("ResponsePl", c, id))
          /\ MaxResponsePayload[c] > MaxFrameSize - HeaderSize - VarintMaxLen

\* An answer, or a cancellation that aborts no transfer.
Answers(c, ch, id, ch2, outcome) ==
    /\ outcome \in {"ReceivedResponse", "ResponseCancellation",
                    "RequestCancellation", "Continue"}
    /\ ch2.incoming_requests = ch.incoming_requests
    /\ \/ ch2.current_multiframe_receiver = ch.current_multiframe_receiver
       \/ /\ TransferOf(ch, Header("ResponsePl", c, id))
          /\ ch2.current_multiframe_receiver = Ready

\* A cancellation that aborts the transfer in progress.
Aborts(c, ch, id, ch2, outcome) ==
    /\ outcome = "Continue"
    /\ AbortsTransfer(ch, id)
    /\ ch2.incoming_requests = ch.incoming_requests \ {id}
    /\ ch2.current_multiframe_receiver = Ready

FrameEffect(c, ch, id, ch2, outcome) ==
    \/ Admits(c, ch, id, ch2, outcome)
    \/ Completes(c, ch, id, ch2, outcome)
    \/ Progresses(c, ch, id, ch2, outcome)
    \/ Answers(c, ch, id, ch2, outcome)
    \/ Aborts(c, ch, id, ch2, outcome)

IsAnswer(outcome) == outcome \in {"ReceivedResponse", "ResponseCancellation"}

\* What the theorems need to know about the handling of a frame: the channel
\* stays within its bounds, an answer and nothing else takes its request out of
\* outgoing_requests, and the incoming requests and the transfer change
\* together, in one of the ways above.
HandledOK(c, ch, f, step) ==
    /\ ChannelOK(c, step.chan)
    /\ step.outcome \in Outcome
    /\ step.chan.prev_request_id = ch.prev_request_id
    /\ step.chan.outgoing_requests =
         IF IsAnswer(step.outcome) THEN ch.outgoing_requests \ {f.header.id}
         ELSE ch.outgoing_requests
    /\ IsAnswer(step.outcome) => f.header.id \in ch.outgoing_requests
    /\ step.outcome \notin ErrorKind =>
         FrameEffect(c, ch, f.header.id, step.chan, step.outcome)

\* A fatal outcome is safe if the channel is left in bounds.
LEMMA ErrorHandledOK ==
  ASSUME NEW c, NEW ch, NEW ch2, NEW f, NEW kind \in ErrorKind,
         ChannelOK(c, ch2), ch2.outgoing_requests = ch.outgoing_requests,
         ch2.prev_request_id = ch.prev_request_id
  PROVE  HandledOK(c, ch, f, ErrMsg(ch2, kind))
  BY DEF HandledOK, ErrMsg, Step, Outcome, ErrorKind, IsAnswer

\* A frame that is handled without an error.
LEMMA StepHandledOK ==
  ASSUME NEW c, NEW ch, NEW ch2, NEW f, NEW payload,
         NEW outcome \in CompletedRead \cup {"Continue"},
         ChannelOK(c, ch2), ch2.prev_request_id = ch.prev_request_id,
         ch2.outgoing_requests =
             IF IsAnswer(outcome) THEN ch.outgoing_requests \ {f.header.id}
             ELSE ch.outgoing_requests,
         IsAnswer(outcome) => f.header.id \in ch.outgoing_requests,
         FrameEffect(c, ch, f.header.id, ch2, outcome)
  PROVE  HandledOK(c, ch, f, Step(ch2, outcome, payload))
  BY DEF HandledOK, Step, Outcome

\* Admitting a request (the checks of Request and RequestPl) either fails and
\* changes nothing or adds the ID, which is new, within the request limit.
LEMMA AdmitResult ==
  ASSUME NEW c \in Channels, NEW ch, ChannelOK(c, ch), NEW id \in Ids,
         NEW outcome, NEW payload
  PROVE  LET step == AdmitRequest(c, ch, id, outcome, payload)
         IN  \/ \E kind \in ErrorKind : step = ErrMsg(ch, kind)
             \/ /\ step = Step(step.chan, outcome, payload)
                /\ ChannelOK(c, step.chan)
                /\ id \notin ch.incoming_requests
                /\ step.chan.prev_request_id = ch.prev_request_id
                /\ step.chan.outgoing_requests = ch.outgoing_requests
                /\ step.chan.incoming_requests = ch.incoming_requests \cup {id}
                /\ step.chan.current_multiframe_receiver = ch.current_multiframe_receiver
  <1> DEFINE step == AdmitRequest(c, ch, id, outcome, payload)
  <1>1. CASE IsAtMaxIncomingRequests(c, ch)
    BY <1>1 DEF AdmitRequest, ErrorKind
  <1>2. CASE ~IsAtMaxIncomingRequests(c, ch) /\ id \in ch.incoming_requests
    BY <1>2 DEF AdmitRequest, ErrorKind
  <1>3. CASE ~IsAtMaxIncomingRequests(c, ch) /\ id \notin ch.incoming_requests
    <2> DEFINE ch1 == [ch EXCEPT !.incoming_requests = @ \cup {id}]
               ch2 == IncrementCancellationAllowance(c, ch1)
    <2>1. step = Step(ch2, outcome, payload)
      BY <1>3 DEF AdmitRequest
    <2>2. ch \in ChannelStates /\ ChannelBounded(c, ch)
      BY DEF ChannelOK
    <2>3. /\ ch1 \in ChannelStates
          /\ ch1.incoming_requests = ch.incoming_requests \cup {id}
          /\ ch1.outgoing_requests = ch.outgoing_requests
          /\ ch1.prev_request_id = ch.prev_request_id
          /\ ch1.cancellation_allowance = ch.cancellation_allowance
          /\ ch1.current_multiframe_receiver = ch.current_multiframe_receiver
      BY <2>2 DEF ChannelStates
    <2>4. /\ Cardinality(ch.incoming_requests) \in Nat
          /\ Cardinality(ch1.incoming_requests) = Cardinality(ch.incoming_requests) + 1
      BY <1>3, <2>2, <2>3, IdSetChange DEF ChannelStates
    <2>5. Cardinality(ch1.incoming_requests) <= RequestLimit[c]
      BY <1>3, <2>4, LimitFacts DEF IsAtMaxIncomingRequests
    <2> HIDE DEF ch1
    <2>6. /\ ch2 \in ChannelStates
          /\ ch2.incoming_requests = ch1.incoming_requests
          /\ ch2.outgoing_requests = ch1.outgoing_requests
          /\ ch2.prev_request_id = ch1.prev_request_id
          /\ ch2.current_multiframe_receiver = ch1.current_multiframe_receiver
          /\ ch2.cancellation_allowance =
                IF ch1.cancellation_allowance < RequestLimit[c]
                THEN ch1.cancellation_allowance + 1 ELSE ch1.cancellation_allowance
      BY <2>3 DEF IncrementCancellationAllowance, ChannelStates
    <2>7. ch2.cancellation_allowance <= RequestLimit[c]
      BY <2>2, <2>3, <2>6, LimitFacts DEF ChannelBounded, ChannelStates
    <2> HIDE DEF ch2
    <2>8. ChannelOK(c, ch2)
      BY <2>2, <2>3, <2>5, <2>6, <2>7 DEF ChannelOK, ChannelBounded
    <2> QED
      BY <1>3, <2>1, <2>3, <2>6, <2>8 DEF Step
  <1> QED
    BY <1>1, <1>2, <1>3

\* Admitting a request on a channel ch2 that is ch but for its receiver.
LEMMA AdmitHandledOK ==
  ASSUME NEW c \in Channels, NEW ch, NEW ch2, ChannelOK(c, ch2),
         NEW f, f.header.id \in Ids,
         ch2.incoming_requests = ch.incoming_requests,
         ch2.outgoing_requests = ch.outgoing_requests,
         ch2.prev_request_id = ch.prev_request_id,
         NEW outcome \in {"NewRequest", "Continue"}, NEW payload,
         \/ /\ outcome = "NewRequest"
            /\ ch2.current_multiframe_receiver = ch.current_multiframe_receiver
         \/ /\ outcome = "Continue"
            /\ ch.current_multiframe_receiver = Ready
            /\ TransferOf(ch2, Header("RequestPl", c, f.header.id))
  PROVE  HandledOK(c, ch, f, AdmitRequest(c, ch2, f.header.id, outcome, payload))
  <1> DEFINE step == AdmitRequest(c, ch2, f.header.id, outcome, payload)
  <1>1. CASE \E kind \in ErrorKind : step = ErrMsg(ch2, kind)
    BY <1>1, ErrorHandledOK
  <1>2. CASE /\ step = Step(step.chan, outcome, payload)
             /\ ChannelOK(c, step.chan)
             /\ f.header.id \notin ch2.incoming_requests
             /\ step.chan.prev_request_id = ch2.prev_request_id
             /\ step.chan.outgoing_requests = ch2.outgoing_requests
             /\ step.chan.incoming_requests = ch2.incoming_requests \cup {f.header.id}
             /\ step.chan.current_multiframe_receiver = ch2.current_multiframe_receiver
    <2> SUFFICES HandledOK(c, ch, f, step)
      OBVIOUS
    <2> HIDE DEF step
    <2>1. Admits(c, ch, f.header.id, step.chan, outcome)
      BY <1>2 DEF Admits, TransferOf
    <2>2. HandledOK(c, ch, f, Step(step.chan, outcome, payload))
      BY <1>2, <2>1, StepHandledOK DEF FrameEffect, CompletedRead, IsAnswer
    <2> QED
      BY <1>2, <2>2
  <1> QED
    BY <1>1, <1>2, AdmitResult

\* The handler of Request frames.
LEMMA OnRequestOK ==
  ASSUME NEW c \in Channels, NEW ch, ChannelOK(c, ch), NEW f, f.header \in FrameHeaders
  PROVE  HandledOK(c, ch, f, OnRequest(c, ch, f))
  BY HeaderFacts, AdmitHandledOK DEF OnRequest

\* Removing a request from outgoing_requests keeps a channel within its bounds.
LEMMA ForgetOutgoing ==
  ASSUME NEW c \in Channels, NEW ch, ChannelOK(c, ch), NEW id \in Ids
  PROVE  LET ch2 == [ch EXCEPT !.outgoing_requests = @ \ {id}]
         IN  /\ ChannelOK(c, ch2)
             /\ ch2.outgoing_requests = ch.outgoing_requests \ {id}
             /\ ch2.incoming_requests = ch.incoming_requests
             /\ ch2.prev_request_id = ch.prev_request_id
             /\ ch2.current_multiframe_receiver = ch.current_multiframe_receiver
  <1> DEFINE ch2 == [ch EXCEPT !.outgoing_requests = @ \ {id}]
  <1>1. ch \in ChannelStates /\ ChannelBounded(c, ch)
    BY DEF ChannelOK
  <1>2. /\ ch2 \in ChannelStates
        /\ ch2.outgoing_requests = ch.outgoing_requests \ {id}
        /\ ch2.incoming_requests = ch.incoming_requests
        /\ ch2.prev_request_id = ch.prev_request_id
        /\ ch2.cancellation_allowance = ch.cancellation_allowance
        /\ ch2.current_multiframe_receiver = ch.current_multiframe_receiver
    BY <1>1 DEF ChannelStates
  <1>3. /\ Cardinality(ch.outgoing_requests) \in Nat
        /\ Cardinality(ch2.outgoing_requests) \in Nat
        /\ Cardinality(ch2.outgoing_requests) <= Cardinality(ch.outgoing_requests)
    BY <1>1, <1>2, IdSetChange DEF ChannelStates
  <1> HIDE DEF ch2
  <1>4. Cardinality(ch2.outgoing_requests) <= RequestLimit[c]
    BY <1>1, <1>3, LimitFacts DEF ChannelBounded
  <1>5. ChannelOK(c, ch2)
    BY <1>1, <1>2, <1>4 DEF ChannelOK, ChannelBounded
  <1> QED
    BY <1>2, <1>5 DEF ch2

\* An answer that takes its request out of outgoing_requests and leaves the rest
\* of the channel alone.
LEMMA AnswerHandledOK ==
  ASSUME NEW c \in Channels, NEW ch, ChannelOK(c, ch), NEW f, f.header \in FrameHeaders,
         f.header.id \in ch.outgoing_requests,
         NEW outcome \in {"ReceivedResponse", "ResponseCancellation"}, NEW payload
  PROVE  HandledOK(c, ch, f,
             Step([ch EXCEPT !.outgoing_requests = @ \ {f.header.id}], outcome, payload))
  <1> DEFINE ch2 == [ch EXCEPT !.outgoing_requests = @ \ {f.header.id}]
  <1>1. /\ ChannelOK(c, ch2)
        /\ ch2.outgoing_requests = ch.outgoing_requests \ {f.header.id}
        /\ ch2.incoming_requests = ch.incoming_requests
        /\ ch2.prev_request_id = ch.prev_request_id
        /\ ch2.current_multiframe_receiver = ch.current_multiframe_receiver
    BY HeaderFacts, ForgetOutgoing
  <1> SUFFICES HandledOK(c, ch, f, Step(ch2, outcome, payload))
    OBVIOUS
  <1> HIDE DEF ch2
  <1>2. FrameEffect(c, ch, f.header.id, ch2, outcome)
    BY <1>1 DEF FrameEffect, Answers
  <1> QED
    BY <1>1, <1>2, StepHandledOK DEF CompletedRead, IsAnswer

\* The handler of Response frames.
LEMMA OnResponseOK ==
  ASSUME NEW c \in Channels, NEW ch, ChannelOK(c, ch), NEW f, f.header \in FrameHeaders
  PROVE  HandledOK(c, ch, f, OnResponse(ch, f))
  <1>1. CASE f.header.id \in ch.outgoing_requests
    BY <1>1, AnswerHandledOK DEF OnResponse
  <1>2. CASE f.header.id \notin ch.outgoing_requests
    BY <1>2, ErrorHandledOK DEF OnResponse, ErrorKind
  <1> QED
    BY <1>1, <1>2

\* The handler of CancelResp frames.
LEMMA OnCancelRespOK ==
  ASSUME NEW c \in Channels, NEW ch, ChannelOK(c, ch), NEW f, f.header \in FrameHeaders
  PROVE  HandledOK(c, ch, f, OnCancelResp(ch, f))
  <1>1. CASE f.header.id \in ch.outgoing_requests
    BY <1>1, AnswerHandledOK DEF OnCancelResp
  <1>2. CASE f.header.id \notin ch.outgoing_requests
    BY <1>2, ErrorHandledOK DEF OnCancelResp, ErrorKind
  <1> QED
    BY <1>1, <1>2

\* A new receiver within its bounds keeps the channel within its bounds.
LEMMA NewReceiver ==
  ASSUME NEW c \in Channels, NEW ch, ChannelOK(c, ch),
         NEW rcv \in Receivers, ReceiverBounded(c, rcv)
  PROVE  LET ch2 == [ch EXCEPT !.current_multiframe_receiver = rcv]
         IN  /\ ChannelOK(c, ch2)
             /\ ch2.outgoing_requests = ch.outgoing_requests
             /\ ch2.incoming_requests = ch.incoming_requests
             /\ ch2.prev_request_id = ch.prev_request_id
             /\ ch2.current_multiframe_receiver = rcv
  BY DEF ChannelOK, ChannelStates, ChannelBounded

\* What accept makes of a frame of a payload on its channel.
Received(ch, f) ==
    Accept(ch.current_multiframe_receiver, f, MaxPayload(f.header),
           IF f.header.kind = "RequestPl" THEN "RequestTooLarge" ELSE "ResponseTooLarge")

\* A frame of a payload is accepted: the channel with the new receiver, and what
\* accept reported.
ReceivedOK(c, ch, f, acc, ch2) ==
    LET rcv == ch.current_multiframe_receiver
    IN  /\ acc.frame \in CompletedFrame \cup ErrorKind
        /\ acc.frame = "NewMultiFrame" =>
              /\ rcv = Ready /\ acc.receiver.header = f.header
              /\ MaxPayload(f.header) > MaxFrameSize - HeaderSize - VarintMaxLen
        /\ acc.frame = "IntermediateMultiFrame" =>
               rcv.header = f.header /\ acc.receiver.header = f.header
        /\ acc.frame = "CompletedMultiFrame" =>
               rcv.header = f.header /\ acc.receiver = Ready
        /\ acc.frame = "SingleFrame" => acc.receiver = rcv
        /\ ChannelOK(c, ch2)
        /\ ch2.outgoing_requests = ch.outgoing_requests
        /\ ch2.incoming_requests = ch.incoming_requests
        /\ ch2.prev_request_id = ch.prev_request_id
        /\ ch2.current_multiframe_receiver = acc.receiver

\* Any frame of a payload is accepted in that way.
LEMMA ReceivedFacts ==
  ASSUME NEW c \in Channels, NEW ch, ChannelOK(c, ch),
         NEW f, Legible(ch, f), f.header.channel = c,
         f.header.kind \in {"RequestPl", "ResponsePl"}
  PROVE  LET acc == Received(ch, f)
         IN  ReceivedOK(c, ch, f, acc,
                        [ch EXCEPT !.current_multiframe_receiver = acc.receiver])
  <1> DEFINE acc == Received(ch, f)
             exceeded == IF f.header.kind = "RequestPl" THEN "RequestTooLarge"
                         ELSE "ResponseTooLarge"
             rcv == ch.current_multiframe_receiver
  <1>1. MaxPayload(f.header) \in Nat
    BY LimitFacts DEF MaxPayload
  <1>2. exceeded \in ErrorKind
    BY DEF ErrorKind
  <1>3. rcv \in Receivers /\ ReceiverBounded(c, rcv)
    BY DEF ChannelOK, ChannelStates, ChannelBounded
  <1>4. AcceptFacts(c, rcv, f, MaxPayload(f.header), exceeded, acc)
    BY <1>1, <1>2, <1>3, AcceptResult DEF Received, Legible
  <1> HIDE DEF acc
  <1>5. acc.receiver \in Receivers /\ ReceiverBounded(c, acc.receiver)
    BY <1>4 DEF AcceptFacts
  <1> QED
    BY <1>4, <1>5, NewReceiver DEF AcceptFacts, ReceivedOK, acc

\* The handler of RequestPl frames.
LEMMA OnRequestPlOK ==
  ASSUME NEW c \in Channels, NEW ch, ChannelOK(c, ch),
         NEW f, Legible(ch, f), f.header.channel = c, f.header.kind = "RequestPl"
  PROVE  HandledOK(c, ch, f, OnRequestPl(c, ch, f))
  <1> DEFINE acc == Received(ch, f)
             ch2 == [ch EXCEPT !.current_multiframe_receiver = acc.receiver]
             rcv == ch.current_multiframe_receiver
             id  == f.header.id
             step == OnRequestPl(c, ch, f)
  <1>1. /\ f.header = Header("RequestPl", c, id)
        /\ id \in Ids
    BY HeaderFacts DEF Legible
  <1>2. acc = Accept(rcv, f, MaxRequestPayload[c], "RequestTooLarge")
    BY DEF Received, MaxPayload
  <1>3. ReceivedOK(c, ch, f, acc, ch2)
    BY ReceivedFacts
  <1>4. step =
          CASE acc.frame = "NewMultiFrame" -> AdmitRequest(c, ch2, id, "Continue", NoPayload)
            [] acc.frame = "SingleFrame" -> AdmitRequest(c, ch2, id, "NewRequest", acc.payload)
            [] acc.frame = "IntermediateMultiFrame" -> Step(ch2, "Continue", NoPayload)
            [] acc.frame = "CompletedMultiFrame" -> Step(ch2, "NewRequest", acc.payload)
            [] acc.frame \in ErrorKind -> ErrMsg(ch2, acc.frame)
    BY <1>2 DEF OnRequestPl
  <1> SUFFICES HandledOK(c, ch, f, step)
    OBVIOUS
  <1> HIDE DEF acc, ch2, step
  <1> USE DEF ReceivedOK
  <1>5. CASE acc.frame = "NewMultiFrame"
    <2>1. step = AdmitRequest(c, ch2, id, "Continue", NoPayload)
      BY <1>4, <1>5 DEF ErrorKind
    <2>2. /\ ch.current_multiframe_receiver = Ready
          /\ TransferOf(ch2, Header("RequestPl", c, id))
      BY <1>1, <1>3, <1>5 DEF TransferOf
    <2> QED
      BY <2>1, <2>2, <1>1, <1>3, AdmitHandledOK
  <1>6. CASE acc.frame = "SingleFrame"
    <2>1. step = AdmitRequest(c, ch2, id, "NewRequest", acc.payload)
      BY <1>4, <1>6 DEF ErrorKind
    <2> QED
      BY <2>1, <1>1, <1>3, <1>6, AdmitHandledOK
  <1>7. CASE acc.frame = "IntermediateMultiFrame"
    <2>1. step = Step(ch2, "Continue", NoPayload)
      BY <1>4, <1>7 DEF ErrorKind
    <2>2. FrameEffect(c, ch, id, ch2, "Continue")
      BY <1>3, <1>7 DEF FrameEffect, Progresses
    <2> QED
      BY <2>1, <2>2, <1>3, StepHandledOK DEF IsAnswer
  <1>8. CASE acc.frame = "CompletedMultiFrame"
    <2>1. step = Step(ch2, "NewRequest", acc.payload)
      BY <1>4, <1>8 DEF ErrorKind
    <2>2. FrameEffect(c, ch, id, ch2, "NewRequest")
      BY <1>1, <1>3, <1>8 DEF FrameEffect, Completes, TransferOf
    <2> QED
      BY <2>1, <2>2, <1>3, StepHandledOK DEF CompletedRead, IsAnswer
  <1>9. CASE acc.frame \in ErrorKind
    <2>1. step = ErrMsg(ch2, acc.frame)
      BY <1>4, <1>9 DEF ErrorKind
    <2> QED
      BY <2>1, <1>3, <1>9, ErrorHandledOK
  <1> QED
    BY <1>3, <1>5, <1>6, <1>7, <1>8, <1>9 DEF CompletedFrame

\* The handler of ResponsePl frames.
LEMMA OnResponsePlOK ==
  ASSUME NEW c \in Channels, NEW ch, ChannelOK(c, ch),
         NEW f, Legible(ch, f), f.header.channel = c, f.header.kind = "ResponsePl"
  PROVE  HandledOK(c, ch, f, OnResponsePl(c, ch, f))
  <1> DEFINE acc == Received(ch, f)
             ch2 == [ch EXCEPT !.current_multiframe_receiver = acc.receiver]
             ch3 == [ch2 EXCEPT !.outgoing_requests = @ \ {f.header.id}]
             rcv == ch.current_multiframe_receiver
             id  == f.header.id
             step == OnResponsePl(c, ch, f)
  <1>1. id \in Ids /\ f.header = Header("ResponsePl", c, id)
    BY HeaderFacts DEF Legible
  <1>2. acc = Accept(rcv, f, MaxResponsePayload[c], "ResponseTooLarge")
    BY DEF Received, MaxPayload
  <1>3. ReceivedOK(c, ch, f, acc, ch2)
    BY ReceivedFacts
  <1>4. step =
          IF id \notin ch.outgoing_requests THEN ErrMsg(ch, "FictitiousRequest")
          ELSE CASE acc.frame \in {"NewMultiFrame", "IntermediateMultiFrame"} ->
                       Step(ch2, "Continue", NoPayload)
                 [] acc.frame \in {"SingleFrame", "CompletedMultiFrame"} ->
                       Step(ch3, "ReceivedResponse", acc.payload)
                 [] acc.frame \in ErrorKind -> ErrMsg(ch2, acc.frame)
    BY <1>2 DEF OnResponsePl
  <1>5. /\ ChannelOK(c, ch3)
        /\ ch3.outgoing_requests = ch2.outgoing_requests \ {id}
        /\ ch3.incoming_requests = ch2.incoming_requests
        /\ ch3.prev_request_id = ch2.prev_request_id
        /\ ch3.current_multiframe_receiver = ch2.current_multiframe_receiver
    <2> HIDE DEF ch2
    <2> QED
      BY <1>1, <1>3, ForgetOutgoing DEF ReceivedOK
  <1> SUFFICES HandledOK(c, ch, f, step)
    OBVIOUS
  <1> HIDE DEF acc, ch2, ch3, step
  <1> USE DEF ReceivedOK
  <1>6. CASE id \notin ch.outgoing_requests
    BY <1>4, <1>6, ErrorHandledOK DEF ErrorKind
  <1>7. CASE /\ id \in ch.outgoing_requests
             /\ acc.frame \in {"NewMultiFrame", "IntermediateMultiFrame"}
    <2>1. step = Step(ch2, "Continue", NoPayload)
      BY <1>4, <1>7 DEF ErrorKind
    <2>2. MaxPayload(f.header) = MaxResponsePayload[c]
      BY DEF MaxPayload
    <2>3. FrameEffect(c, ch, id, ch2, "Continue")
      BY <1>1, <1>3, <1>7, <2>2 DEF FrameEffect, Progresses, TransferOf
    <2> QED
      BY <2>1, <2>3, <1>3, StepHandledOK DEF IsAnswer
  <1>8. CASE /\ id \in ch.outgoing_requests
             /\ acc.frame \in {"SingleFrame", "CompletedMultiFrame"}
    <2>1. step = Step(ch3, "ReceivedResponse", acc.payload)
      BY <1>4, <1>8 DEF ErrorKind
    <2>2. FrameEffect(c, ch, id, ch3, "ReceivedResponse")
      BY <1>1, <1>3, <1>5, <1>8 DEF FrameEffect, Answers, TransferOf
    <2> QED
      BY <2>1, <2>2, <1>3, <1>5, <1>8, StepHandledOK DEF CompletedRead, IsAnswer
  <1>9. CASE id \in ch.outgoing_requests /\ acc.frame \in ErrorKind
    <2>1. step = ErrMsg(ch2, acc.frame)
      BY <1>4, <1>9 DEF ErrorKind
    <2> QED
      BY <2>1, <1>3, <1>9, ErrorHandledOK
  <1> QED
    BY <1>3, <1>6, <1>7, <1>8, <1>9 DEF CompletedFrame

\* The handler of CancelReq frames, with the transfer it may abort.
LEMMA OnCancelReqOK ==
  ASSUME NEW c \in Channels, NEW ch, ChannelOK(c, ch), NEW f, f.header \in FrameHeaders
  PROVE  HandledOK(c, ch, f, OnCancelReq(ch, f))
  <1> DEFINE id  == f.header.id
             rcv == ch.current_multiframe_receiver
             in2 == IF AbortsTransfer(ch, id) THEN ch.incoming_requests \ {id}
                    ELSE ch.incoming_requests
             rcv2 == IF AbortsTransfer(ch, id) THEN Ready ELSE rcv
             ch2 == [ch EXCEPT !.cancellation_allowance = @ - 1,
                               !.current_multiframe_receiver = rcv2,
                               !.incoming_requests = in2]
             step == OnCancelReq(ch, f)
  <1>1. /\ ch \in ChannelStates /\ ChannelBounded(c, ch)
        /\ id \in Ids
    BY HeaderFacts DEF ChannelOK
  <1>2. CASE ch.cancellation_allowance = 0
    BY <1>2, ErrorHandledOK DEF OnCancelReq, ErrorKind
  <1>3. CASE ch.cancellation_allowance # 0
    <2>1. step = Step(ch2, IF id \in ch2.incoming_requests THEN "RequestCancellation"
                           ELSE "Continue", NoPayload)
      BY <1>3 DEF OnCancelReq
    <2>2. rcv2 \in Receivers /\ ReceiverBounded(c, rcv2)
      BY <1>1 DEF ChannelStates, ChannelBounded, ReceiverBounded, Ready, Receivers,
                  Headers, NoHeader, Header
    <2>3. in2 \in SUBSET Ids
      BY <1>1 DEF ChannelStates
    <2>4. Cardinality(in2) <= RequestLimit[c]
      <3>1. /\ Cardinality(ch.incoming_requests) \in Nat
            /\ Cardinality(ch.incoming_requests \ {id}) \in Nat
            /\ Cardinality(ch.incoming_requests \ {id}) <= Cardinality(ch.incoming_requests)
        BY <1>1, IdSetChange DEF ChannelStates
      <3> QED
        BY <1>1, <3>1, LimitFacts DEF ChannelBounded
    <2>5. /\ ~AbortsTransfer(ch, id) => in2 = ch.incoming_requests /\ rcv2 = rcv
          /\ AbortsTransfer(ch, id) => in2 = ch.incoming_requests \ {id} /\ rcv2 = Ready
      OBVIOUS
    <2> HIDE DEF in2, rcv2
    <2>6. /\ ch2 \in ChannelStates
          /\ ch2.incoming_requests = in2
          /\ ch2.outgoing_requests = ch.outgoing_requests
          /\ ch2.prev_request_id = ch.prev_request_id
          /\ ch2.current_multiframe_receiver = rcv2
          /\ ch2.cancellation_allowance = ch.cancellation_allowance - 1
          /\ ch.cancellation_allowance \in Nat
      <3>1. ch.cancellation_allowance \in Nat /\ ch.cancellation_allowance - 1 \in Nat
        BY <1>1, <1>3 DEF ChannelStates
      <3> QED
        BY <1>1, <2>2, <2>3, <3>1 DEF ChannelStates
    <2> HIDE DEF ch2
    <2>7. ch2.cancellation_allowance <= RequestLimit[c]
      BY <1>1, <2>6, LimitFacts DEF ChannelBounded
    <2>8. ChannelOK(c, ch2)
      BY <1>1, <2>2, <2>4, <2>6, <2>7 DEF ChannelOK, ChannelBounded
    <2> DEFINE outcome == IF id \in ch2.incoming_requests THEN "RequestCancellation"
                          ELSE "Continue"
    <2>9. FrameEffect(c, ch, id, ch2, outcome)
      BY <2>5, <2>6 DEF FrameEffect, Answers, Aborts
    <2>10. outcome \in CompletedRead \cup {"Continue"} /\ ~IsAnswer(outcome)
      BY DEF CompletedRead, IsAnswer
    <2>11. step = Step(ch2, outcome, NoPayload)
      BY <2>1
    <2> SUFFICES HandledOK(c, ch, f, step)
      OBVIOUS
    <2> HIDE DEF step, outcome
    <2> QED
      BY <2>6, <2>8, <2>9, <2>10, <2>11, StepHandledOK
  <1> QED
    BY <1>2, <1>3

\* Every frame is handled as HandledOK says.
LEMMA ProcessFrameOK ==
  ASSUME NEW c \in Channels, NEW ch, ChannelOK(c, ch),
         NEW f, Legible(ch, f), f.header.channel = c
  PROVE  HandledOK(c, ch, f, ProcessFrame(c, ch, f))
  <1>0. f.header \in FrameHeaders
    BY DEF Legible
  <1>1. CASE f.header.kind = "Request"
    BY <1>0, <1>1, OnRequestOK DEF ProcessFrame
  <1>2. CASE f.header.kind = "Response"
    BY <1>0, <1>2, OnResponseOK DEF ProcessFrame
  <1>3. CASE f.header.kind = "RequestPl"
    BY <1>3, OnRequestPlOK DEF ProcessFrame
  <1>4. CASE f.header.kind = "ResponsePl"
    BY <1>4, OnResponsePlOK DEF ProcessFrame
  <1>5. CASE f.header.kind = "CancelReq"
    BY <1>0, <1>5, OnCancelReqOK DEF ProcessFrame
  <1>6. CASE f.header.kind = "CancelResp"
    BY <1>0, <1>6, OnCancelRespOK DEF ProcessFrame
  <1> QED
    BY <1>0, HeaderFacts, <1>1, <1>2, <1>3, <1>4, <1>5, <1>6 DEF Kind

-----------------------------------------------------------------------------
(* The calls that create requests and answers.                              *)

\* Channel::new
LEMMA NewChannelOK ==
  ASSUME NEW c \in Channels
  PROVE  ChannelOK(c, NewChannel)
  <1>1. 0 \in Ids
    BY WireAssumption DEF Ids
  <1>2. NewChannel \in ChannelStates
    BY <1>1 DEF NewChannel, ChannelStates, Receivers, Headers, Ready, NoHeader, Header
  <1>3. ChannelBounded(c, NewChannel)
    BY LimitFacts, EmptyCardinality
    DEF NewChannel, ChannelBounded, ReceiverBounded
  <1> QED
    BY <1>2, <1>3 DEF ChannelOK

\* create_request keeps the channel within its limit.
LEMMA RecordRequestOK ==
  ASSUME NEW c \in Channels, NEW ch, ChannelOK(c, ch), AllowedToSendRequest(c, ch),
         NEW id \in Ids
  PROVE  LET ch2 == RecordRequest(ch, id)
         IN  /\ ChannelOK(c, ch2)
             /\ ch2.outgoing_requests = ch.outgoing_requests \cup {id}
             /\ ch2.incoming_requests = ch.incoming_requests
             /\ ch2.current_multiframe_receiver = ch.current_multiframe_receiver
             /\ ch2.prev_request_id = id
  <1> DEFINE ch2 == RecordRequest(ch, id)
             S   == ch.outgoing_requests
  <1>1. ch \in ChannelStates /\ ChannelBounded(c, ch) /\ S \in SUBSET Ids
    BY DEF ChannelOK, ChannelStates
  <1>2. Cardinality(S) \in Nat /\ Cardinality(S) < RequestLimit[c]
    BY <1>1, IdSetChange DEF AllowedToSendRequest
  <1>3. Cardinality(S) # IdCount - 1
    BY <1>2, LimitFacts, WireAssumption
  <1>4. /\ ch2 \in ChannelStates
        /\ ch2.outgoing_requests = S \cup {id}
        /\ ch2.incoming_requests = ch.incoming_requests
        /\ ch2.cancellation_allowance = ch.cancellation_allowance
        /\ ch2.current_multiframe_receiver = ch.current_multiframe_receiver
        /\ ch2.prev_request_id = id
    BY <1>1, <1>3 DEF RecordRequest, ChannelStates
  <1> HIDE DEF ch2, S
  <1>5. Cardinality(S \cup {id}) <= RequestLimit[c]
    <2>1. /\ id \notin S => Cardinality(S \cup {id}) = Cardinality(S) + 1
          /\ id \in S => S \cup {id} = S
      BY <1>1, IdSetChange
    <2>2. RequestLimit[c] \in Nat
      BY LimitFacts
    <2>3. CASE id \in S
      BY <1>2, <2>1, <2>2, <2>3
    <2>4. CASE id \notin S
      BY <1>2, <2>1, <2>2, <2>4
    <2> QED
      BY <2>3, <2>4
  <1>6. ChannelOK(c, ch2)
    BY <1>1, <1>4, <1>5 DEF ChannelOK, ChannelBounded
  <1> QED
    BY <1>4, <1>6 DEF ch2, S

\* create_response and cancel_response free a slot.
LEMMA ForgetIncomingOK ==
  ASSUME NEW c \in Channels, NEW ch, ChannelOK(c, ch), NEW id \in Ids
  PROVE  LET ch2 == ForgetIncoming(ch, id)
         IN  /\ ChannelOK(c, ch2)
             /\ ch2.incoming_requests = ch.incoming_requests \ {id}
             /\ ch2.outgoing_requests = ch.outgoing_requests
             /\ ch2.prev_request_id = ch.prev_request_id
             /\ ch2.current_multiframe_receiver = ch.current_multiframe_receiver
  <1> DEFINE ch2 == ForgetIncoming(ch, id)
  <1>1. ch \in ChannelStates /\ ChannelBounded(c, ch)
    BY DEF ChannelOK
  <1>2. /\ ch2 \in ChannelStates
        /\ ch2.incoming_requests = ch.incoming_requests \ {id}
        /\ ch2.outgoing_requests = ch.outgoing_requests
        /\ ch2.prev_request_id = ch.prev_request_id
        /\ ch2.cancellation_allowance = ch.cancellation_allowance
        /\ ch2.current_multiframe_receiver = ch.current_multiframe_receiver
    BY <1>1 DEF ForgetIncoming, ChannelStates
  <1>3. Cardinality(ch2.incoming_requests) <= RequestLimit[c]
    <2>1. /\ Cardinality(ch.incoming_requests) \in Nat
          /\ Cardinality(ch2.incoming_requests) \in Nat
          /\ Cardinality(ch2.incoming_requests) <= Cardinality(ch.incoming_requests)
      BY <1>1, <1>2, IdSetChange DEF ChannelStates
    <2> QED
      BY <1>1, <2>1, LimitFacts DEF ChannelBounded
  <1> HIDE DEF ch2
  <1>4. ChannelOK(c, ch2)
    BY <1>1, <1>2, <1>3 DEF ChannelOK, ChannelBounded
  <1> QED
    BY <1>2, <1>4 DEF ch2

-----------------------------------------------------------------------------
(* The sender cuts a message into frames (FrameIter) and the receiver puts  *)
(* them together again (MultiframeReceiver) without ever exchanging the     *)
(* size of a segment: both compute it, and agree.                           *)

\* An iterator over a payload of which `processed` bytes were cut into frames.
Iterators ==
    [header : [kind : Kind, channel : Nat, id : Nat],
     payload : Nat, processed : Nat]

\* next_owned was called, and will be called again.
Unfinished(iter) ==
    iter.processed = 0 \/ iter.processed < iter.payload

\* A varint has one to five bytes, and a smaller number has no longer one.
LEMMA LengthOfFacts ==
  /\ \A a \in Nat : LengthOf(a) \in 1 .. VarintMaxLen
  /\ \A a, b \in Nat : a <= b => LengthOf(a) <= LengthOf(b)
  BY DEF LengthOf, VarintMaxLen

\* truncate_to_single_frame: what is left of a payload fits a frame, although its
\* length prefix may have become shorter.  inject_error asserts this.
THEOREM TruncationFits ==
  ASSUME NEW payload \in Nat
  PROVE  /\ TruncateToSingleFrame(payload) \in 0 .. payload
         /\ ~PayloadIsMultiFrame(TruncateToSingleFrame(payload))
  BY LengthOfFacts, WireAssumption
  DEF TruncateToSingleFrame, PayloadIsMultiFrame, Least, MinFrameSize, HeaderSize,
      VarintMaxLen, NoPayload

\* next_owned: no frame is larger than a frame may be, and unless it is the only frame
\* of an empty payload it makes progress, so that a message is cut into finitely many.
THEOREM FramesFit ==
  ASSUME NEW iter \in Iterators, Unfinished(iter)
  PROVE  LET f == NextFrame(iter) IN
         /\ HeaderSize + f.off + f.seg <= MaxFrameSize
         /\ AfterFrame(iter).processed \in iter.processed .. iter.payload
         /\ iter.payload > 0 => AfterFrame(iter).processed > iter.processed
  BY LengthOfFacts, WireAssumption
  DEF Iterators, Unfinished, NextFrame, AfterFrame, Least, MinFrameSize, HeaderSize,
      VarintMaxLen, NoPayload

\* What next_owned gives, without the iterator's record.
LEMMA FrameFacts ==
  ASSUME NEW iter \in Iterators, Unfinished(iter)
  PROVE  LET f   == NextFrame(iter)
             off == IF iter.processed = 0 THEN LengthOf(iter.payload) ELSE 0
         IN  /\ f.header = iter.header
             /\ f.len = IF iter.processed = 0 THEN iter.payload ELSE NoLen
             /\ f.off = off
             /\ f.seg = Least(MaxFrameSize - HeaderSize - off, iter.payload - iter.processed)
             /\ f.seg \in Nat
             /\ AfterFrame(iter).processed = iter.processed + f.seg
             /\ IsFinalFrame(iter) <=> iter.processed + f.seg = iter.payload
  BY LengthOfFacts, WireAssumption
  DEF Iterators, Unfinished, NextFrame, AfterFrame, IsFinalFrame, Least, MinFrameSize,
      HeaderSize, VarintMaxLen, NoPayload

\* The frame that starts a message, read by a receiver that is not in the middle of
\* another one, and a later frame, read by a receiver that has what was sent before: it
\* takes as many bytes as the sender put into the frame, is then where the sender is,
\* and is done with the message when the sender is.
THEOREM ReceiverFollowsSender ==
  ASSUME NEW iter \in Iterators, Unfinished(iter),
         NEW max \in Nat, iter.payload <= max, NEW exceeded \in ErrorKind
  PROVE  LET before == IF iter.processed = 0 THEN Ready
                       ELSE InProgress(iter.header, iter.processed, iter.payload)
             after  == AfterFrame(iter)
             acc    == Accept(before, NextFrame(iter), max, exceeded)
         IN  /\ acc.receiver = IF IsFinalFrame(iter) THEN Ready
                               ELSE InProgress(iter.header, after.processed, iter.payload)
             /\ acc.payload = IF IsFinalFrame(iter) THEN iter.payload ELSE NoPayload
             /\ acc.frame \in CompletedFrame
  <1> DEFINE f == NextFrame(iter)
  <1>1. iter.header # NoHeader
    BY DEF Iterators, NoHeader, Header, Kind
  <1>2. CASE iter.processed = 0
    <2>1. Accept(Ready, f, max, exceeded) = AcceptStart(Ready, f, max, exceeded)
      BY <1>1, FrameFacts DEF Accept, Ready
    <2>2. /\ f.len = iter.payload /\ f.len \in 0 .. max /\ f.len # BadLen
          /\ ~(f.len > max)
          /\ StartingSegment(f) = f.seg
      BY <1>2, FrameFacts, LengthOfFacts DEF StartingSegment, Iterators, BadLen
    <2>3. CASE IsFinalFrame(iter)
      <3>1. StartingSegment(f) = f.len
        BY <1>2, <2>2, <2>3, FrameFacts DEF Iterators
      <3>2. AcceptStart(Ready, f, max, exceeded) = Accepted(Ready, "SingleFrame", f.len)
        BY <2>2, <3>1 DEF AcceptStart
      <3> QED
        BY <1>2, <2>1, <2>2, <2>3, <3>2 DEF Accepted, CompletedFrame
    <2>4. CASE ~IsFinalFrame(iter)
      <3>1. StartingSegment(f) # f.len
        BY <1>2, <2>2, <2>4, FrameFacts DEF Iterators
      <3>2. AcceptStart(Ready, f, max, exceeded)
              = Accepted(InProgress(f.header, StartingSegment(f), f.len),
                         "NewMultiFrame", NoPayload)
        BY <2>2, <3>1 DEF AcceptStart
      <3>3. f.header = iter.header /\ StartingSegment(f) = AfterFrame(iter).processed
        BY <1>2, <2>2, FrameFacts DEF Iterators
      <3> QED
        BY <1>2, <2>1, <2>2, <2>4, <3>2, <3>3 DEF Accepted, CompletedFrame
    <2> QED
      BY <2>3, <2>4
  <1>3. CASE iter.processed # 0
    <2> DEFINE rcv == InProgress(iter.header, iter.processed, iter.payload)
    <2>1. /\ rcv.header = f.header /\ rcv.received = iter.processed
          /\ rcv.total = iter.payload
      BY FrameFacts DEF InProgress
    <2>2. Accept(rcv, f, max, exceeded) = AcceptLater(rcv)
      BY <2>1 DEF Accept
    <2>3. rcv.received + LaterSegment(rcv) = AfterFrame(iter).processed
      BY <1>3, <2>1, FrameFacts, WireAssumption
      DEF LaterSegment, Least, Iterators, MinFrameSize, HeaderSize, VarintMaxLen
    <2>4. IsFinalFrame(iter) <=> AfterFrame(iter).processed = iter.payload
      BY FrameFacts
    <2>5. [rcv EXCEPT !.received = AfterFrame(iter).processed]
            = InProgress(iter.header, AfterFrame(iter).processed, iter.payload)
      BY DEF InProgress
    <2> QED
      BY <1>3, <2>1, <2>2, <2>3, <2>4, <2>5 DEF AcceptLater, Accepted, CompletedFrame
  <1> QED
    BY <1>2, <1>3

=============================================================================
