------------------------------ MODULE Framing -------------------------------
(***************************************************************************)
(* How the reader of an IoCore turns a stream of bytes that arrives in     *)
(* pieces of any size into the frames its peer sent: read_until_bytesmut,  *)
(* next_parse_at and the parsing in process_incoming and in                *)
(* MultiframeReceiver.                                                     *)
(*                                                                         *)
(* The peer sends frame after frame, valid or not.  `unread` and `expected` *)
(* are not part of the program: they are the frames the reader has yet to  *)
(* consume, and what a reader that is handed whole frames reports of the   *)
(* ones sent so far, given by the per-frame operators of Channel.          *)
(***************************************************************************)
EXTENDS Channel, Codec

Byte == 0 .. 255

\* What Header::parse can return.
WireKinds   == Kind \cup ErrorKind
WireHeaders == [kind : WireKinds, channel : Byte, id : Ids]

\* A number of 32 bits, and the bytes it takes, which need not be the fewest; or
\* bytes that are none.
IsPrefix(len, off) ==
    \/ len \in Nat /\ Shifted(len, 4) < 16 /\ off \in LengthOf(len) .. VarintMaxLen
    \/ len = BadLen /\ off = 0

CONSTANTS
    Offers,         \* frames the peer may send: header, len and off
    MaxFrames,      \* how many of them it sends at most
    Outstanding,    \* per channel: our requests it may answer
    VarintValues,   \* numbers to encode and decode
    MessageLens     \* payloads to write out, NoPayload among them

ASSUME FramingAssumption ==
    /\ IdCount = 65536     \* an ID takes two bytes
    /\ \A offer \in Offers :
          /\ offer.header \in WireHeaders \cup {NoHeader}
          /\ IF offer.header.kind \in {"RequestPl", "ResponsePl", "Other"}
             THEN IsPrefix(offer.len, offer.off)
             ELSE offer.len = NoLen /\ offer.off = 0
    /\ MaxFrames \in Nat
    /\ Outstanding \in [Channels -> SUBSET Ids]
    /\ \A c \in Channels : Cardinality(Outstanding[c]) <= RequestLimit[c]
    /\ \A value \in VarintValues : value \in Nat /\ Shifted(value, 4) < 16
    /\ \A payload \in MessageLens :
          payload = NoPayload \/ (payload \in Nat /\ Shifted(payload, 4) < 16)

VARIABLES
    \* the peer
    sent,           \* how many frames it sent
    peer,           \* the channels of a reader of whole frames
    expected,       \* and what that reader reported
    wire,           \* bytes that were sent and not read yet
    unread,         \* frames that were sent and not consumed yet
    \* the reader
    buffer, next_parse_at,
    channels,       \* JulietProtocol::channels
    payloads,       \* MultiframeReceiver::InProgress::payload, per channel
    events,         \* what next_event reported
    state           \* "Open", or why the reader stopped

sending == <<sent, peer, expected>>
reading == <<next_parse_at, channels, payloads, events, state>>
vars    == <<sending, wire, unread, buffer, reading>>

Event(header, outcome, payload) ==
    [header |-> header, outcome |-> outcome, payload |-> payload]

-----------------------------------------------------------------------------
(* Frames as process_incoming handles them.                                 *)

\* process_incoming on a whole frame: what it does to its channel, and an outcome.
Receive(chs, f) ==
    LET c   == f.header.channel
        Now(outcome) == [channels |-> chs, outcome |-> outcome, payload |-> NoPayload]
        res == ProcessFrame(c, chs[c], f)
    IN  CASE f.header = NoHeader ->
                Now("InvalidHeader")
          [] f.header.kind = "Other" /\ f.len = BadLen ->
                Now("BadVarInt")
          [] f.header.kind = "Other" /\ HeaderSize + f.off + f.len > MaxFrameSize ->
                Now("SegmentViolation")
          [] f.header.kind = "Other" /\ f.len # BadLen
                /\ HeaderSize + f.off + f.len <= MaxFrameSize ->
                [Now("ErrorReceived") EXCEPT !.payload = f.len]
          [] f.header.kind \in ErrorKind \ {"Other"} ->
                Now("ErrorReceived")
          [] f.header.kind \in Kind /\ c \notin Channels ->
                Now("InvalidChannel")
          [] f.header.kind \in Kind /\ c \in Channels ->
                [channels |-> [chs EXCEPT ![c] = res.chan],
                 outcome |-> res.outcome, payload |-> res.payload]

\* Whether a frame with this header continues the transfer on its channel.
Continues(chs, h) ==
    /\ h.kind \in Kind /\ h.channel \in Channels
    /\ chs[h.channel].current_multiframe_receiver.header = h

\* Whether process_incoming decides on the header alone, so that it looks at nothing
\* behind it.
DecidedByHeader(chs, h) ==
    \/ h = NoHeader
    \/ h.kind \in ErrorKind \ {"Other"}
    \/ h.kind \in Kind /\ h.channel \notin Channels
    \/ h.kind \in {"Request", "Response", "CancelReq", "CancelResp"}
    \/ h.kind = "ResponsePl" /\ h.id \notin chs[h.channel].outgoing_requests

\* Whether a length prefix is refused before any of its payload is looked at.
PrefixRefused(h, len, off) ==
    \/ len = BadLen
    \/ h.kind = "Other" /\ HeaderSize + off + len > MaxFrameSize
    \/ h.kind # "Other" /\ len > MaxPayload(h)

\* Mutant: the reader asks for a full frame.
NeedsFullFrame(chs, b) ==
    IF Len(b) < HeaderSize \/ DecidedByHeader(chs, Parse(b)) THEN HeaderSize ELSE MaxFrameSize

\* How many bytes process_incoming, extract_segment and detect_starting_segment want
\* in the buffer before they go on, as far as they can tell from what is there.
Needs(chs, b) ==
    LET h == Parse(b)
        v == DecodeVarint32(SubSeq(b, HeaderSize + 1, Len(b)))
    IN  IF Len(b) < HeaderSize \/ DecidedByHeader(chs, h) THEN HeaderSize
        ELSE IF Continues(chs, h)
        THEN HeaderSize + LaterSegment(chs[h.channel].current_multiframe_receiver)
        ELSE IF v.value = NoLen THEN Len(b) + 1
        ELSE IF PrefixRefused(h, v.value, v.offset) THEN HeaderSize
        ELSE HeaderSize + v.offset + Least(MaxFrameSize - HeaderSize - v.offset, v.value)

\* A frame with its segment, for a header and a length prefix.
Frame(chs, h, len, off) ==
    LET bare == DecidedByHeader(chs, h) \/ Continues(chs, h)
        seg  == IF DecidedByHeader(chs, h) THEN 0
                ELSE IF Continues(chs, h)
                THEN LaterSegment(chs[h.channel].current_multiframe_receiver)
                ELSE IF PrefixRefused(h, len, off) THEN 0
                ELSE Least(MaxFrameSize - HeaderSize - off, len)
    IN  [header |-> h, len |-> IF bare THEN NoLen ELSE len,
         off |-> IF bare THEN 0 ELSE off, seg |-> seg]

\* Mutant: the length prefix is taken to be as short as it can be.
FrameAtShortest(chs, b) ==
    LET v == DecodeVarint32(SubSeq(b, HeaderSize + 1, Len(b)))
    IN  Frame(chs, Parse(b), v.value, IF v.value >= 0 THEN LengthOf(v.value) ELSE 0)

\* The frame at the front of a buffer that holds all of it.
FrameAt(chs, b) ==
    LET v == DecodeVarint32(SubSeq(b, HeaderSize + 1, Len(b)))
    IN  Frame(chs, Parse(b), v.value, v.offset)

-----------------------------------------------------------------------------

Init ==
    /\ sent = 0
    /\ channels = [c \in Channels |->
                      [NewChannel EXCEPT !.outgoing_requests = Outstanding[c]]]
    /\ peer = channels
    /\ expected = <<>>
    /\ wire = <<>>
    /\ unread = <<>>
    /\ buffer = <<>>
    /\ next_parse_at = 0
    /\ payloads = [c \in Channels |-> <<>>]
    /\ events = <<>>
    /\ state = "Open"

NeverAgain == 2 ^ 30      \* usize::MAX, more than ever arrives

Stops(outcome) == outcome \in ErrorKind \cup {"ErrorReceived"}

\* The bytes of a length prefix that need not be the shortest.
PrefixBytes(len, off) ==
    CASE len = NoLen  -> <<>>
      [] len = BadLen -> <<255, 255, 255, 255, 255>>
      [] len >= 0     ->
            [k \in 1 .. off |->
                (Shifted(len, k - 1) % 128) + IF k < off THEN 128 ELSE 0]

\* An `Option<Bytes>` as a sequence.
Delivered(len) == IF len = NoPayload THEN <<>> ELSE <<PayloadBytes(0, len)>>

\* How much of the payload a frame belongs to was sent before it.
Before(chs, h) ==
    IF Continues(chs, h) THEN chs[h.channel].current_multiframe_receiver.received ELSE 0

\* The bytes of a frame; one that is no header at all has a bit of the kind byte set
\* that only errors use.
SentBytes(chs, f) ==
    (IF f.header = NoHeader THEN <<8, 0, 0, 0>> ELSE HeaderBytes(f.header))
    \o PrefixBytes(f.len, f.off) \o PayloadBytes(Before(chs, f.header), f.seg)

\* The peer sends a frame.
Send(offer) ==
    LET f     == Frame(peer, offer.header, offer.len, offer.off)
        bytes == SentBytes(peer, f)
        res   == Receive(peer, f)
    IN  /\ state = "Open" /\ sent < MaxFrames
        /\ \A k \in DOMAIN expected : ~Stops(expected[k].outcome)
        /\ sent' = sent + 1
        /\ peer' = res.channels
        /\ expected' = IF res.outcome = "Continue" THEN expected
                       ELSE Append(expected,
                                   Event(f.header, res.outcome, Delivered(res.payload)))
        /\ wire' = wire \o bytes
        /\ unread' = Append(unread, bytes)
        /\ UNCHANGED <<buffer, reading>>

\* A read in read_until_bytesmut, which returns as many bytes as the transport likes.
\* What was read stays in the buffer if the future is dropped.
Read(count) ==
    /\ state = "Open"
    /\ Len(buffer) < next_parse_at
    /\ buffer' = buffer \o SubSeq(wire, 1, count)
    /\ wire' = SubSeq(wire, count + 1, Len(wire))
    /\ UNCHANGED <<sending, unread, reading>>

\* A read that returns no bytes: the peer closed the connection.
HangUp ==
    /\ state = "Open"
    /\ Len(buffer) < next_parse_at
    /\ wire = <<>>
    /\ state' = "HungUp"
    /\ UNCHANGED <<sending, wire, unread, buffer, next_parse_at, channels, payloads, events>>

\* process_incoming returns Incomplete.
ParseIncomplete ==
    /\ state = "Open"
    /\ next_parse_at <= Len(buffer)
    /\ Needs(channels, buffer) > Len(buffer)
    /\ next_parse_at' = Needs(channels, buffer)
    /\ UNCHANGED <<sending, wire, unread, buffer, channels, payloads, events, state>>

\* Mutant: a later segment replaces what was stored.
LastSegment(f, receiver, segment) ==
    IF receiver = Ready THEN <<>>
    ELSE IF f.header = receiver.header THEN segment ELSE payloads[f.header.channel]

\* What MultiframeReceiver keeps of the payload after a frame.
StoredPayload(f, receiver, segment) ==
    LET c == f.header.channel IN
    CASE receiver = Ready -> <<>>
      [] receiver # Ready /\ Continues(channels, f.header) -> payloads[c] \o segment
      [] receiver # Ready /\ ~Continues(channels, f.header) ->
            IF f.header = receiver.header THEN segment ELSE payloads[c]

\* Mutant: the segments received before are left out.
LastSegmentOnly(f, segment) == segment

\* CompletedFrame::into_completed_payload
CompletedPayload(f, segment) ==
    IF Continues(channels, f.header) THEN payloads[f.header.channel] \o segment ELSE segment

\* One turn of the loop in process_incoming that finds a whole frame, and what
\* next_event does with the result.  The loop goes on unless there is an event to
\* report, and next_event is called and parses again in either case.  An error of
\* the peer ends it; a violation is turned into an error of our own, and inject_error
\* sees to it that nothing is parsed any more.
ParseFrame ==
    LET f       == FrameAt(channels, buffer)
        c       == f.header.channel
        res     == Receive(channels, f)
        front   == HeaderSize + f.off
        segment == SubSeq(buffer, front + 1, front + f.seg)
        payload == IF res.payload = NoPayload THEN <<>> ELSE <<CompletedPayload(f, segment)>>
    IN  /\ state = "Open"
        /\ next_parse_at <= Len(buffer)
        /\ Needs(channels, buffer) <= Len(buffer)
        /\ channels' = res.channels
        /\ payloads' = [d \in Channels |->
               IF f.header.kind \in Kind /\ d = c
               THEN StoredPayload(f, res.channels[d].current_multiframe_receiver, segment)
               ELSE payloads[d]]
        /\ events' = IF res.outcome = "Continue" THEN events
                     ELSE Append(events, Event(f.header, res.outcome, payload))
        /\ \/ /\ res.outcome \notin ErrorKind
              /\ state' = IF res.outcome = "ErrorReceived" THEN "Ended" ELSE "Open"
              /\ next_parse_at' = 0
              /\ buffer' = SubSeq(buffer, front + f.seg + 1, Len(buffer))
              /\ unread' = Tail(unread)
           \/ /\ res.outcome \in ErrorKind
              /\ state' = "Fatal"
              /\ next_parse_at' = NeverAgain
              /\ buffer' = <<>>
              /\ unread' = <<>>
        /\ UNCHANGED <<sending, wire>>

Next ==
    \/ \E offer \in Offers : Send(offer)
    \/ \E count \in 1 .. Len(wire) : Read(count)
    \/ HangUp
    \/ ParseIncomplete
    \/ ParseFrame

Spec == Init /\ [][Next]_vars

-----------------------------------------------------------------------------
(* What holds.                                                              *)

\* The values the buffer of the reader and its bookkeeping may take.
TypeOK ==
    /\ sent \in 0 .. MaxFrames
    /\ wire \in Seq(Byte) /\ buffer \in Seq(Byte)
    /\ next_parse_at \in Nat
    /\ state \in {"Open", "HungUp", "Ended", "Fatal"}
    /\ \A c \in Channels :
          /\ Len(payloads[c]) = channels[c].current_multiframe_receiver.received
          /\ channels[c].incoming_requests \subseteq Ids

Prefix(s, t) == Len(s) <= Len(t) /\ s = SubSeq(t, 1, Len(s))

\* The bytes of the frames that were not consumed.
Bytes(frames) ==
    LET upto[k \in 0 .. Len(frames)] ==
            IF k = 0 THEN <<>> ELSE upto[k - 1] \o frames[k]
    IN  upto[Len(frames)]

\* However the bytes are cut into reads, the reader reports what a reader of whole
\* frames reports, payloads byte for byte; it is never ahead, and once it has
\* consumed everything it is in the same state.
PiecewiseIsWhole ==
    /\ Prefix(events, expected)
    /\ state = "Open" /\ unread = <<>> => events = expected /\ channels = peer

\* The buffer always starts at the first byte of a frame: no byte is skipped or
\* parsed twice at a frame boundary.
InStep == state = "Open" => buffer \o wire = Bytes(unread)

\* The reader never waits for a byte behind the frame it is in.  The peer may have
\* nothing to send until that frame is handled, so such a wait could last forever.
WaitsWithinFrame ==
    state = "Open" =>
        next_parse_at <= IF unread = <<>> THEN HeaderSize ELSE Len(Head(unread))

-----------------------------------------------------------------------------
(* The encodings the frames are made of.  These are statements about the    *)
(* operators alone, so that they are evaluated in the initial state only.   *)

\* decode_varint32 gives back what Varint32::encode was given, whatever follows it, and
\* asks for more as long as a byte is missing; length_of is the length of the encoding.
VarintRoundTrip ==
    Init => \A value \in VarintValues :
        LET bytes == Encode(value) IN
        /\ Len(bytes) = LengthOf(value)
        /\ DecodeVarint32(bytes \o <<255>>) = [value |-> value, offset |-> Len(bytes)]
        /\ \A k \in 0 .. Len(bytes) - 1 : DecodeVarint32(SubSeq(bytes, 1, k)).value = NoLen

\* A kind byte as Header::new writes it, and a header with any byte in its place.
RawKind(kind)      == HeaderBytes(Header(kind, 7, 0))[1]
RawHeader(raw, id) == <<raw, 7, id % 256, id \div 256>>

\* Header::parse gives back every header, with any of the three reserved bits set, and
\* accepts no other kind byte.
HeaderRoundTrip ==
    Init =>
        /\ \A kind \in WireKinds, reserved \in 0 .. 7, id \in {1, 300, 65535} :
              Parse(RawHeader(RawKind(kind) + 16 * reserved, id)) = Header(kind, 7, id)
        /\ \A raw \in Byte : Parse(RawHeader(raw, 0)) # NoHeader =>
              \E kind \in WireKinds, reserved \in 0 .. 7 :
                  raw = RawKind(kind) + 16 * reserved

\* ByteIter writes the bytes that FrameIter cuts into frames; num_frames, total_len and
\* is_multi_frame tell their number and their size without cutting, all frames but the
\* last are full, and a truncated message is one frame.
MessageBytesAgree ==
    Init => \A payload \in MessageLens :
        LET h      == Header("RequestPl", 1, 300)
            frames == FrameIterBytes(h, payload)
        IN  /\ IterBytes(h, payload) = Bytes(frames)
            /\ Len(frames) = NumFrames(payload)
            /\ PayloadIsMultiFrame(payload) = (Len(frames) > 1)
            /\ \A k \in 1 .. Len(frames) - 1 : Len(frames[k]) = MaxFrameSize
            /\ ~PayloadIsMultiFrame(TruncateToSingleFrame(payload))

=============================================================================
