------------------------ MODULE JulietProtocolProofs ------------------------
(***************************************************************************)
(* Proofs about JulietProtocol, for every number of channels, every number *)
(* of IDs, every configuration and every peer.                             *)
(***************************************************************************)
EXTENDS JulietProtocol, ChannelProofs

PeerFrames == HeaderFrames \cup PayloadFrames

\* Whatever the peer sends can be read: its frames of payloads have a prefix.
LEMMA PeerFrameLegible ==
  ASSUME NEW f \in PeerFrames, NEW ch
  PROVE  Legible(ch, f)
  <1>1. f.header \in PeerHeaders
    BY DEF PeerFrames, HeaderFrames, PayloadFrames
  <1>2. f.header \in FrameHeaders
    <2>1. 0 .. NumChannels \subseteq Nat
      BY WireAssumption
    <2> QED
      BY <1>1, <2>1 DEF PeerHeaders, FrameHeaders
  <1>3. ASSUME f.header.kind \in {"RequestPl", "ResponsePl"}
        PROVE  Prefixed(f)
    <2>1. f \in PayloadFrames
      BY <1>3 DEF PeerFrames, HeaderFrames
    <2> QED
      BY <2>1, ProtocolAssumption DEF PayloadFrames, Prefixed
  <1> QED
    BY <1>2, <1>3 DEF Legible

-----------------------------------------------------------------------------
(* The theorems.  Their inductive invariant is the conjunction of the type *)
(* invariant, the bounds and the two statements about slots.                *)

Inv == TypeOK /\ ResourceBound /\ AnsweredOnce /\ NoLeakedSlot

\* A protocol state that was just built satisfies the invariant.
LEMMA InitInv == Init => Inv
  <1> SUFFICES ASSUME Init PROVE Inv
    OBVIOUS
  <1>1. ASSUME NEW c \in Channels
        PROVE  NewChannel \in ChannelStates /\ ChannelBounded(c, NewChannel)
    BY NewChannelOK DEF ChannelOK
  <1>2. TypeOK
    BY <1>1 DEF Init, TypeOK
  <1>3. ResourceBound
    BY <1>1 DEF Init, ResourceBound
  <1>4. AnsweredOnce /\ NoLeakedSlot
    BY DEF Init, NewChannel, AnsweredOnce, NoLeakedSlot
  <1> QED
    BY <1>2, <1>3, <1>4 DEF Inv

\* create_request preserves the invariant: the new ID is within the limit and not
\* in flight, because an ID is always spare.
LEMMA CreateRequestInv ==
  ASSUME Inv, NEW c \in Channels, NEW payload \in Payloads, CreateRequest(c, payload)
  PROVE  Inv'
  <1> USE DEF Inv
  <1> DEFINE ch == channels[c]
  <1>1. ChannelOK(c, ch) /\ AllowedToSendRequest(c, ch)
    BY DEF TypeOK, ResourceBound, ChannelOK, CreateRequest
  <1>2. PICK id \in Ids :
          /\ IsNextRequestId(ch, id)
          /\ channels' = [channels EXCEPT ![c] = RecordRequest(@, id)]
          /\ awaited' = [awaited EXCEPT ![c][id] = @ + 1]
    BY DEF CreateRequest
  <1>13. id \notin ch.outgoing_requests
    <2>1. ch.outgoing_requests \in SUBSET Ids
      BY <1>1 DEF ChannelOK, ChannelStates
    <2>2. /\ Cardinality(ch.outgoing_requests) \in Nat
          /\ Cardinality(ch.outgoing_requests) < RequestLimit[c]
      BY <1>1, <2>1, IdSetChange DEF AllowedToSendRequest
    <2>3. Cardinality(ch.outgoing_requests) # IdCount - 1
      BY <2>2, LimitFacts, WireAssumption
    <2> QED
      BY <1>2, <2>3 DEF IsNextRequestId
  <1> DEFINE ch2 == RecordRequest(ch, id)
  <1>3. /\ ChannelOK(c, ch2)
        /\ ch2.outgoing_requests = ch.outgoing_requests \cup {id}
        /\ ch2.incoming_requests = ch.incoming_requests
        /\ ch2.current_multiframe_receiver = ch.current_multiframe_receiver
    BY <1>1, RecordRequestOK
  <1>4. ch2 \in ChannelStates /\ ChannelBounded(c, ch2)
    BY <1>3 DEF ChannelOK
  <1> HIDE DEF ch2
  <1>6. /\ channels' \in [Channels -> ChannelStates]
        /\ channels'[c] = ch2
        /\ \A d \in Channels : d # c => channels'[d] = channels[d]
    BY <1>2, <1>4 DEF ch2, TypeOK
  <1>7. /\ awaited' \in [Channels -> [Ids -> Int]]
        /\ awaited'[c][id] = awaited[c][id] + 1
        /\ \A i \in Ids : i # id => awaited'[c][i] = awaited[c][i]
        /\ \A d \in Channels : d # c => awaited'[d] = awaited[d]
    BY <1>2 DEF TypeOK
  <1>8. connection' = connection /\ reported' = reported
    BY DEF CreateRequest
  <1>9. TypeOK'
    BY <1>6, <1>7, <1>8 DEF TypeOK
  <1>10. ResourceBound'
    BY <1>4, <1>6 DEF ResourceBound
  <1>11. AnsweredOnce'
    <2>1. awaited[c][id] = 0 /\ awaited'[c][id] = 1
      BY <1>7, <1>13 DEF AnsweredOnce
    <2>2. \A i \in Ids : awaited'[c][i] = IF i \in ch2.outgoing_requests THEN 1 ELSE 0
      BY <1>3, <1>7, <2>1 DEF AnsweredOnce
    <2> QED
      BY <1>6, <1>7, <2>2 DEF AnsweredOnce
  <1>12. NoLeakedSlot'
    BY <1>3, <1>6, <1>8 DEF NoLeakedSlot
  <1> QED
    BY <1>9, <1>10, <1>11, <1>12

\* create_response and cancel_response preserve the invariant.
LEMMA AnswerRequestInv ==
  ASSUME Inv, NEW c \in Channels, NEW id \in Ids, AnswerRequest(c, id)
  PROVE  Inv'
  <1> USE DEF Inv
  <1> DEFINE ch == channels[c]
             ch2 == ForgetIncoming(ch, id)
  <1>1. ChannelOK(c, ch)
    BY DEF TypeOK, ResourceBound, ChannelOK
  <1>2. /\ ChannelOK(c, ch2)
        /\ ch2.incoming_requests = ch.incoming_requests \ {id}
        /\ ch2.outgoing_requests = ch.outgoing_requests
        /\ ch2.current_multiframe_receiver = ch.current_multiframe_receiver
    BY <1>1, ForgetIncomingOK
  <1>3. ch2 \in ChannelStates /\ ChannelBounded(c, ch2)
    BY <1>2 DEF ChannelOK
  <1> HIDE DEF ch2
  <1>5. /\ channels' \in [Channels -> ChannelStates]
        /\ channels'[c] = ch2
        /\ \A d \in Channels : d # c => channels'[d] = channels[d]
    BY <1>3 DEF ch2, TypeOK, AnswerRequest
  <1>6. /\ reported' \in [Channels -> SUBSET Ids]
        /\ reported'[c] = reported[c] \ {id}
        /\ \A d \in Channels : d # c => reported'[d] = reported[d]
    BY DEF TypeOK, AnswerRequest
  <1>7. connection' = connection /\ awaited' = awaited
    BY DEF AnswerRequest
  <1>8. TypeOK'
    BY <1>5, <1>6, <1>7 DEF TypeOK
  <1>9. ResourceBound'
    BY <1>3, <1>5 DEF ResourceBound
  <1>10. AnsweredOnce'
    BY <1>2, <1>5, <1>7 DEF AnsweredOnce
  <1>11. NoLeakedSlot'
    BY <1>2, <1>5, <1>6, <1>7 DEF NoLeakedSlot
  <1> QED
    BY <1>8, <1>9, <1>10, <1>11

\* A slot that remains after a frame is that of a request reported now, is that
\* of the transfer in progress, or was taken before by something else.
LEMMA SlotsHeld ==
  ASSUME NEW c, NEW ch, NEW id, NEW ch2, NEW outcome,
         FrameEffect(c, ch, id, ch2, outcome),
         NEW i \in ch2.incoming_requests
  PROVE  \/ outcome = "NewRequest" /\ i = id
         \/ TransferOf(ch2, Header("RequestPl", c, i))
         \/ i \in ch.incoming_requests /\ ~TransferOf(ch, Header("RequestPl", c, i))
  <1>1. /\ Ready.header # Header("RequestPl", c, i)
        /\ Header("ResponsePl", c, id) # Header("RequestPl", c, i)
        /\ i # id => Header("RequestPl", c, id) # Header("RequestPl", c, i)
    BY DEF Ready, NoHeader, Header
  <1>2. CASE Admits(c, ch, id, ch2, outcome)
    BY <1>1, <1>2 DEF Admits, TransferOf
  <1>3. CASE Completes(c, ch, id, ch2, outcome)
    BY <1>1, <1>3 DEF Completes, TransferOf
  <1>4. CASE Progresses(c, ch, id, ch2, outcome)
    BY <1>1, <1>4 DEF Progresses, TransferOf
  <1>5. CASE Answers(c, ch, id, ch2, outcome)
    BY <1>1, <1>5 DEF Answers, TransferOf
  <1>6. CASE Aborts(c, ch, id, ch2, outcome)
    <2>1. i # id => ~TransferOf(ch, Header("RequestPl", c, i))
      BY <1>6 DEF Aborts, AbortsTransfer, TransferOf, Header
    <2> QED
      BY <1>6, <2>1 DEF Aborts
  <1> QED
    BY <1>2, <1>3, <1>4, <1>5, <1>6 DEF FrameEffect

\* process_incoming preserves the invariant, whatever frame it reads.
LEMMA ReceiveFrameInv ==
  ASSUME Inv, NEW f \in PeerFrames, ReceiveFrame(f)
  PROVE  Inv'
  <1> USE DEF Inv
  <1> DEFINE c    == f.header.channel
             id   == f.header.id
             ch   == channels[c]
             step == ProcessFrame(c, ch, f)
  <1>1. /\ c \in Channels
        /\ connection = "open"
        /\ id \in Ids
        /\ Legible(ch, f)
    BY PeerFrameLegible, HeaderFacts DEF ReceiveFrame, Legible
  <1>2. ChannelOK(c, ch)
    BY <1>1 DEF TypeOK, ResourceBound, ChannelOK
  <1>3. HandledOK(c, ch, f, step)
    BY <1>1, <1>2, ProcessFrameOK
  <1>4. /\ channels' = [channels EXCEPT ![c] = step.chan]
        /\ connection' = IF step.outcome \in ErrorKind THEN step.outcome ELSE "open"
        /\ reported' = IF step.outcome = "NewRequest"
                       THEN [reported EXCEPT ![c] = @ \cup {id}] ELSE reported
        /\ awaited' = IF step.outcome \in {"ReceivedResponse", "ResponseCancellation"}
                      THEN [awaited EXCEPT ![c][id] = @ - 1] ELSE awaited
    BY DEF ReceiveFrame
  <1> HIDE DEF step
  <1>5. /\ step.chan \in ChannelStates
        /\ ChannelBounded(c, step.chan)
        /\ step.outcome \in Outcome
    BY <1>3 DEF HandledOK, ChannelOK
  <1>6. /\ channels' \in [Channels -> ChannelStates]
        /\ channels'[c] = step.chan
        /\ \A d \in Channels : d # c => channels'[d] = channels[d]
    BY <1>1, <1>4, <1>5 DEF TypeOK
  <1>7. /\ reported' \in [Channels -> SUBSET Ids]
        /\ \A d \in Channels : reported[d] \subseteq reported'[d]
        /\ step.outcome = "NewRequest" => id \in reported'[c]
    BY <1>1, <1>4 DEF TypeOK
  <1>8. TypeOK'
    <2>1. awaited' \in [Channels -> [Ids -> Int]]
      BY <1>1, <1>4 DEF TypeOK
    <2>2. connection' \in {"open", "ErrorReceived"} \cup ErrorKind
      BY <1>4
    <2> QED
      BY <2>1, <2>2, <1>6, <1>7 DEF TypeOK
  <1>9. ResourceBound'
    BY <1>5, <1>6 DEF ResourceBound
  <1>10. AnsweredOnce'
    <2>1. \A d \in Channels : d # c => awaited'[d] = awaited[d]
      BY <1>1, <1>4 DEF TypeOK
    <2>2. CASE IsAnswer(step.outcome)
      <3>1. /\ step.chan.outgoing_requests = ch.outgoing_requests \ {id}
            /\ id \in ch.outgoing_requests
        BY <1>3, <2>2 DEF HandledOK
      <3>2. /\ awaited'[c][id] = awaited[c][id] - 1
            /\ \A i \in Ids : i # id => awaited'[c][i] = awaited[c][i]
        BY <1>1, <1>4, <2>2 DEF TypeOK, IsAnswer
      <3>3. awaited'[c][id] = 0
        BY <1>1, <3>1, <3>2 DEF AnsweredOnce
      <3>4. \A i \in Ids : awaited'[c][i] = IF i \in step.chan.outgoing_requests THEN 1 ELSE 0
        BY <1>1, <3>1, <3>2, <3>3 DEF AnsweredOnce
      <3> QED
        BY <1>6, <2>1, <3>4 DEF AnsweredOnce
    <2>3. CASE ~IsAnswer(step.outcome)
      <3>1. step.chan.outgoing_requests = ch.outgoing_requests /\ awaited' = awaited
        BY <1>3, <1>4, <2>3 DEF HandledOK, IsAnswer
      <3> QED
        BY <1>1, <1>6, <3>1 DEF AnsweredOnce
    <2> QED
      BY <2>2, <2>3
  <1>11. NoLeakedSlot'
    <2> SUFFICES ASSUME connection' = "open", NEW d \in Channels,
                        NEW i \in channels'[d].incoming_requests
                 PROVE  \/ i \in reported'[d]
                        \/ channels'[d].current_multiframe_receiver.header
                              = Header("RequestPl", d, i)
      BY DEF NoLeakedSlot
    <2>1. CASE d # c
      BY <2>1, <1>1, <1>6, <1>7 DEF NoLeakedSlot
    <2>2. CASE d = c
      <3>1. step.outcome \notin ErrorKind
        BY <1>4 DEF ErrorKind
      <3>2. \/ step.outcome = "NewRequest" /\ i = id
            \/ TransferOf(step.chan, Header("RequestPl", c, i))
            \/ i \in ch.incoming_requests /\ ~TransferOf(ch, Header("RequestPl", c, i))
        BY <3>1, <2>2, <1>3, <1>6, SlotsHeld DEF HandledOK
      <3>3. i \in ch.incoming_requests /\ ~TransferOf(ch, Header("RequestPl", c, i))
              => i \in reported[c]
        BY <1>1 DEF NoLeakedSlot, TransferOf
      <3> QED
        BY <3>2, <3>3, <2>2, <1>1, <1>6, <1>7 DEF TransferOf
    <2> QED
      BY <2>1, <2>2
  <1> QED
    BY <1>8, <1>9, <1>10, <1>11

\* The steps that only end the connection.
LEMMA ConnectionInv ==
  ASSUME Inv, UNCHANGED <<channels, reported, awaited>>,
         connection' \in {"ErrorReceived"} \cup ErrorKind
  PROVE  Inv'
  <1>1. connection' # "open"
    BY DEF ErrorKind
  <1> QED
    BY <1>1 DEF Inv, TypeOK, ResourceBound, AnsweredOnce, NoLeakedSlot

\* An error frame ends the connection, with what can be wrong with its payload.
LEMMA ErrorEnds ==
  ASSUME NEW kind \in ErrorKind, NEW len \in PeerLens, NEW off \in PeerOffs,
         ReceiveError(kind, len, off)
  PROVE  connection' \in {"BadVarInt", "SegmentViolation", "ErrorReceived"}
  <1>1. /\ len \in Nat \cup {BadLen} /\ off \in Nat /\ MaxFrameSize \in Nat
        /\ HeaderSize = 4
    BY ProtocolAssumption, WireAssumption DEF VarintMaxLen, HeaderSize
  <1>2. CASE kind # "Other"
    BY <1>2 DEF ReceiveError
  <1>3. CASE kind = "Other" /\ len = BadLen
    BY <1>3 DEF ReceiveError
  <1>4. CASE kind = "Other" /\ len # BadLen /\ HeaderSize + off + len > MaxFrameSize
    <2>1. ~(HeaderSize + off + len <= MaxFrameSize)
      BY <1>1, <1>4
    <2> QED
      BY <1>4, <2>1 DEF ReceiveError
  <1>5. CASE kind = "Other" /\ len # BadLen /\ HeaderSize + off + len <= MaxFrameSize
    <2>1. ~(HeaderSize + off + len > MaxFrameSize)
      BY <1>1, <1>5
    <2> QED
      BY <1>5, <2>1 DEF ReceiveError
  <1> QED
    BY <1>1, <1>2, <1>3, <1>4, <1>5

\* Every step preserves the invariant.
LEMMA NextInv == Inv /\ [Next]_vars => Inv'
  <1> SUFFICES ASSUME Inv, [Next]_vars PROVE Inv'
    OBVIOUS
  <1>1. ASSUME NEW c \in Channels, NEW p \in Payloads, CreateRequest(c, p) PROVE Inv'
    BY <1>1, CreateRequestInv
  <1>2. ASSUME NEW c \in Channels, NEW id \in Ids, AnswerRequest(c, id) PROVE Inv'
    BY <1>2, AnswerRequestInv
  <1>3. ASSUME NEW p \in Payloads \ {NoPayload}, CustomError(p) PROVE Inv'
    BY <1>3, ConnectionInv DEF CustomError, ErrorKind
  <1>4. ASSUME NEW f \in HeaderFrames \cup PayloadFrames, ReceiveFrame(f) PROVE Inv'
    BY <1>4, ReceiveFrameInv DEF PeerFrames
  <1>5. ASSUME NEW kind \in ErrorKind, ReceiveInvalid(kind) PROVE Inv'
    BY <1>5, ConnectionInv DEF ReceiveInvalid
  <1>6. ASSUME NEW kind \in ErrorKind, NEW len \in PeerLens, NEW off \in PeerOffs,
               ReceiveError(kind, len, off)
        PROVE  Inv'
    <2>1. connection' \in {"BadVarInt", "SegmentViolation", "ErrorReceived"}
      BY <1>6, ErrorEnds
    <2>2. UNCHANGED <<channels, reported, awaited>>
      BY <1>6 DEF ReceiveError
    <2> QED
      BY <2>1, <2>2, ConnectionInv DEF ErrorKind
  <1>7. CASE UNCHANGED vars
    BY <1>7 DEF vars, Inv, TypeOK, ResourceBound, AnsweredOnce, NoLeakedSlot
  <1> QED
    BY <1>1, <1>2, <1>3, <1>4, <1>5, <1>6, <1>7 DEF Next, Caller, Peer

\* The invariant holds in every reachable state.
LEMMA Invariance == Spec => []Inv
  BY InitInv, NextInv, PTL DEF Spec

\* The protocol state keeps its type, whatever the peer sends and the caller does.
THEOREM TypeCorrect == Spec => []TypeOK
  <1>1. Inv => TypeOK
    BY DEF Inv
  <1> QED
    BY <1>1, Invariance, PTL

\* For every configuration: no peer makes the protocol layer exceed the request
\* limit, the cancellation allowance or the payload sizes it was configured with.
THEOREM Bounded == Spec => []ResourceBound
  <1>1. Inv => ResourceBound
    BY DEF Inv
  <1> QED
    BY <1>1, Invariance, PTL

\* Each request is answered at most once, and only if it was made, and no two
\* requests in flight share an ID, also after IDs have wrapped around.
THEOREM AnsweredAtMostOnce == Spec => []AnsweredOnce
  <1>1. Inv => AnsweredOnce
    BY DEF Inv
  <1> QED
    BY <1>1, Invariance, PTL

\* Every slot of the incoming request limit can be freed: it belongs to a request
\* the caller was handed or to the transfer in progress.
THEOREM SlotsNotLeaked == Spec => []NoLeakedSlot
  <1>1. Inv => NoLeakedSlot
    BY DEF Inv
  <1> QED
    BY <1>1, Invariance, PTL

-----------------------------------------------------------------------------
(* Responses that fit into a frame.  A request that is cancelled while a    *)
(* response with the same ID is being received loses its slot (see          *)
(* AbortsTransfer); the next theorems show that nothing else does that.     *)

\* The channels are configured with responses that fit into one frame, however
\* the peer encodes their length.
SingleFrameResponses ==
    \A c \in Channels :
        MaxResponsePayload[c] <= MaxFrameSize - HeaderSize - VarintMaxLen

\* What the theorems say of a channel: no response is being received in parts,
\* what was reported has a slot, and so has the transfer in progress, which was
\* not reported.
Tracked(ch, rep) ==
    LET h == ch.current_multiframe_receiver.header
    IN  /\ h.kind # "ResponsePl"
        /\ rep \subseteq ch.incoming_requests
        /\ h.kind = "RequestPl" => h.id \in ch.incoming_requests \ rep

TrackedInv ==
    connection = "open" => \A c \in Channels : Tracked(channels[c], reported[c])

\* A frame keeps what was reported, with what it reports, and the transfer tracked.
LEMMA FrameTracked ==
  ASSUME SingleFrameResponses, NEW c \in Channels, NEW ch, NEW rep, NEW id, NEW ch2,
         NEW outcome, Tracked(ch, rep), ChannelOK(c, ch),
         FrameEffect(c, ch, id, ch2, outcome)
  PROVE  Tracked(ch2, IF outcome = "NewRequest" THEN rep \cup {id} ELSE rep)
  <1>1. /\ Ready.header.kind = "None"
        /\ \A kind, i : /\ Header(kind, c, i).kind = kind
                       /\ Header(kind, c, i).id = i
    BY DEF Ready, NoHeader, Header
  <1>2. CASE Admits(c, ch, id, ch2, outcome)
    BY <1>1, <1>2 DEF Admits, TransferOf, Tracked
  <1>3. CASE Completes(c, ch, id, ch2, outcome)
    BY <1>1, <1>3 DEF Completes, TransferOf, Tracked
  <1>4. CASE Progresses(c, ch, id, ch2, outcome)
    <2>1. ~(MaxResponsePayload[c] > MaxFrameSize - HeaderSize - VarintMaxLen)
      BY LimitFacts, WireAssumption DEF SingleFrameResponses, HeaderSize, VarintMaxLen
    <2> QED
      BY <1>4, <2>1 DEF Progresses, Tracked
  <1>5. CASE Answers(c, ch, id, ch2, outcome)
    BY <1>1, <1>5 DEF Answers, TransferOf, Tracked
  <1>6. CASE Aborts(c, ch, id, ch2, outcome)
    <2>1. /\ ch.current_multiframe_receiver.header.kind = "RequestPl"
          /\ ch.current_multiframe_receiver.header.id = id
      BY <1>6 DEF Aborts, AbortsTransfer, ChannelOK, ChannelBounded, ReceiverBounded, Tracked
    <2>2. id \notin rep
      BY <2>1 DEF Tracked
    <2> QED
      BY <1>1, <1>6, <2>2 DEF Aborts, Tracked
  <1> QED
    BY <1>2, <1>3, <1>4, <1>5, <1>6 DEF FrameEffect

\* Every step keeps the requests tracked.
LEMMA NextTracked ==
  ASSUME SingleFrameResponses, Inv, TrackedInv, [Next]_vars
  PROVE  TrackedInv'
  <1> SUFFICES ASSUME connection' = "open", NEW d \in Channels
               PROVE  Tracked(channels'[d], reported'[d])
    BY DEF TrackedInv
  <1> USE DEF Inv
  <1>1. ASSUME NEW c \in Channels, NEW p \in Payloads, CreateRequest(c, p)
        PROVE  Tracked(channels'[d], reported'[d])
    <2>1. PICK id \in Ids : channels' = [channels EXCEPT ![c] = RecordRequest(@, id)]
      BY <1>1 DEF CreateRequest
    <2>2. ChannelOK(c, channels[c]) /\ AllowedToSendRequest(c, channels[c])
      BY <1>1 DEF TypeOK, ResourceBound, ChannelOK, CreateRequest
    <2> DEFINE ch2 == RecordRequest(channels[c], id)
    <2>3. /\ ch2.incoming_requests = channels[c].incoming_requests
          /\ ch2.current_multiframe_receiver = channels[c].current_multiframe_receiver
      BY <2>2, RecordRequestOK
    <2>4. channels'[c] = ch2 /\ (d # c => channels'[d] = channels[d])
      BY <2>1 DEF TypeOK
    <2> HIDE DEF ch2
    <2>5. Tracked(channels[d], reported[d]) /\ reported' = reported
      BY <1>1 DEF TrackedInv, CreateRequest
    <2> QED
      BY <2>3, <2>4, <2>5 DEF Tracked
  <1>2. ASSUME NEW c \in Channels, NEW id \in Ids, AnswerRequest(c, id)
        PROVE  Tracked(channels'[d], reported'[d])
    <2> DEFINE ch2 == ForgetIncoming(channels[c], id)
    <2>1. /\ ch2.incoming_requests = channels[c].incoming_requests \ {id}
          /\ ch2.current_multiframe_receiver = channels[c].current_multiframe_receiver
      BY ForgetIncomingOK DEF TypeOK, ResourceBound, ChannelOK
    <2>2. channels'[c] = ch2 /\ (d # c => channels'[d] = channels[d])
      BY <1>2 DEF TypeOK, AnswerRequest
    <2> HIDE DEF ch2
    <2>3. /\ Tracked(channels[d], reported[d]) /\ Tracked(channels[c], reported[c])
          /\ id \in reported[c]
          /\ reported'[c] = reported[c] \ {id}
          /\ d # c => reported'[d] = reported[d]
      BY <1>2 DEF TrackedInv, AnswerRequest, TypeOK
    <2> QED
      BY <2>1, <2>2, <2>3 DEF Tracked
  <1>3. ASSUME NEW p \in Payloads \ {NoPayload}, CustomError(p)
        PROVE  FALSE
    BY <1>3 DEF CustomError
  <1>4. ASSUME NEW f \in HeaderFrames \cup PayloadFrames, ReceiveFrame(f)
        PROVE  Tracked(channels'[d], reported'[d])
    <2> DEFINE c    == f.header.channel
               id   == f.header.id
               ch   == channels[c]
               step == ProcessFrame(c, ch, f)
    <2>1. c \in Channels /\ connection = "open" /\ ChannelOK(c, ch)
      BY <1>4 DEF ReceiveFrame, TypeOK, ResourceBound, ChannelOK
    <2>2. HandledOK(c, ch, f, step)
      BY <2>1, PeerFrameLegible, ProcessFrameOK DEF PeerFrames
    <2>3. /\ channels' = [channels EXCEPT ![c] = step.chan]
          /\ connection' = IF step.outcome \in ErrorKind THEN step.outcome ELSE "open"
          /\ reported' = IF step.outcome = "NewRequest"
                         THEN [reported EXCEPT ![c] = @ \cup {id}] ELSE reported
      BY <1>4 DEF ReceiveFrame
    <2> HIDE DEF step
    <2>4. step.outcome \notin ErrorKind
      BY <2>3 DEF ErrorKind
    <2>5. FrameEffect(c, ch, id, step.chan, step.outcome)
      BY <2>2, <2>4 DEF HandledOK
    <2>6. /\ channels'[c] = step.chan /\ (d # c => channels'[d] = channels[d])
          /\ reported'[c] = IF step.outcome = "NewRequest" THEN reported[c] \cup {id}
                            ELSE reported[c]
          /\ d # c => reported'[d] = reported[d]
      BY <2>1, <2>3 DEF TypeOK
    <2>7. Tracked(channels[d], reported[d]) /\ Tracked(ch, reported[c])
      BY <2>1 DEF TrackedInv
    <2>8. Tracked(step.chan, IF step.outcome = "NewRequest" THEN reported[c] \cup {id}
                             ELSE reported[c])
      BY <2>1, <2>5, <2>7, FrameTracked
    <2> QED
      BY <2>6, <2>7, <2>8
  <1>5. ASSUME NEW kind \in ErrorKind, ReceiveInvalid(kind)
        PROVE  FALSE
    BY <1>5 DEF ReceiveInvalid
  <1>6. ASSUME NEW kind \in ErrorKind, NEW len \in PeerLens, NEW off \in PeerOffs,
               ReceiveError(kind, len, off)
        PROVE  FALSE
    BY <1>6, ErrorEnds
  <1>7. CASE UNCHANGED vars
    BY <1>7 DEF vars, TrackedInv
  <1> QED
    BY <1>1, <1>2, <1>3, <1>4, <1>5, <1>6, <1>7 DEF Next, Caller, Peer

\* With responses of one frame every reported request keeps its slot, and a
\* transfer has one that nobody can answer away.
LEMMA TrackedInvariance ==
  ASSUME SingleFrameResponses
  PROVE  Spec => []TrackedInv
  <1>1. Init => TrackedInv
    BY DEF Init, TrackedInv, Tracked, NewChannel, Ready, NoHeader, Header
  <1>2. Inv /\ TrackedInv /\ [Next]_vars => TrackedInv'
    BY NextTracked
  <1> QED
    BY <1>1, <1>2, Invariance, PTL DEF Spec

\* Every request the caller was handed and has not answered is in
\* incoming_requests, so that no answer of the caller is dropped, if responses
\* fit into a frame.
THEOREM ReportedRequestsTracked ==
  ASSUME SingleFrameResponses
  PROVE  Spec => []ReportedTracked
  <1>1. TrackedInv => ReportedTracked
    BY DEF TrackedInv, Tracked, ReportedTracked
  <1> QED
    BY <1>1, TrackedInvariance, PTL

\* A request that is being received has a slot and was not reported, if responses
\* fit into a frame.
THEOREM TransfersTracked ==
  ASSUME SingleFrameResponses
  PROVE  Spec => []TransferTracked
  <1>1. TrackedInv => TransferTracked
    BY DEF TrackedInv, Tracked, TransferTracked
  <1> QED
    BY <1>1, TrackedInvariance, PTL

=============================================================================
