------------------------------- MODULE Codec --------------------------------
(***************************************************************************)
(* The bytes of a frame: the header (header.rs), the varint32 (varint.rs)  *)
(* and the two ways of writing out a message, frame by frame (FrameIter)   *)
(* and as one run of bytes (ByteIter, both in outgoing_message.rs).        *)
(*                                                                         *)
(* A byte is a number below 256.  The bytes of a payload are numbered from *)
(* one (modulo 256), so that one lost, doubled or out of order shows.      *)
(***************************************************************************)
EXTENDS Wire, Sequences

-----------------------------------------------------------------------------
(* Headers.                                                                 *)

\* The discriminants of the two enums, in order.
KindBytes      == <<"Request", "Response", "RequestPl", "ResponsePl",
                    "CancelReq", "CancelResp">>
ErrorKindBytes == <<"Other", "MaxFrameSizeExceeded", "InvalidHeader",
                    "SegmentViolation", "BadVarInt", "InvalidChannel",
                    "InProgress", "ResponseTooLarge", "RequestTooLarge",
                    "DuplicateRequest", "FictitiousRequest",
                    "RequestLimitExceeded", "FictitiousCancel",
                    "CancellationLimitExceeded">>

Discriminant(names, kind) == (CHOOSE k \in DOMAIN names : names[k] = kind) - 1

\* Header::new and Header::new_error: the error bit, the kind, and the ID with its
\* low byte first.
HeaderBytes(h) ==
    <<IF h.kind \in Kind THEN Discriminant(KindBytes, h.kind)
      ELSE 128 + Discriminant(ErrorKindBytes, h.kind),
      h.channel, h.id % 256, h.id \div 256>>

\* Mutant: the reserved bits are not cleared.
StrictKindByte(raw) == raw

\* Header::parse, the bits it keeps.
KindByte(raw) == (raw \div 128) * 128 + (raw % 16)

\* Header::id
HeaderId(b) == b[3] + 256 * b[4]

\* Header::parse and the accessors: a header, or NoHeader.  A kind byte without the
\* error bit must be a kind in all of its lower four bits.
Parse(b) ==
    LET kind   == KindByte(b[1])
        error  == kind >= 128
        valid  == IF error THEN kind % 16 < Len(ErrorKindBytes)
                  ELSE kind % 8 < Len(KindBytes) /\ kind % 8 = kind
    IN  IF ~valid THEN NoHeader
        ELSE Header(IF error THEN ErrorKindBytes[(kind % 16) + 1] ELSE KindBytes[kind + 1],
                    b[2], HeaderId(b))

-----------------------------------------------------------------------------
(* Varints.  Values stay below 2^31, which TLC can represent.               *)

\* What is left of a value after it was shifted k times by seven bits.
Shifted(value, k) == value \div 2 ^ (7 * k)

\* Varint32::encode: seven bits to the byte, the lowest first.  All bytes but the
\* last, behind which nothing of the value is left, have the top bit set.
Encode(value) ==
    LET count == CHOOSE n \in 1 .. VarintMaxLen :
                    /\ n = VarintMaxLen \/ Shifted(value, n) = 0
                    /\ \A m \in 1 .. n - 1 : Shifted(value, m) > 0
    IN  [k \in 1 .. count |->
            (Shifted(value, k - 1) % 128) + IF k < count THEN 128 ELSE 0]

\* Mutant: one byte too early.
OverflowsEarly(input, k) == k >= 4 /\ input[k] >= 16

\* decode_varint32, the check of a fifth byte (k counts from one) ...
Overflows(input, k) == k >= 5 /\ input[k] >= 16

\* ... and the byte at which its loop ends, if there is one.
StopByte(input) ==
    LET Stops(k) == Overflows(input, k) \/ input[k] < 128
    IN  {k \in DOMAIN input : Stops(k) /\ \A j \in 1 .. k - 1 : ~Stops(j)}

\* decode_varint32: the value and the bytes it takes, with NoLen if the input ends
\* before the varint does and BadLen if it does not fit 32 bits.
DecodeVarint32(input) ==
    LET part[k \in 0 .. Len(input)] ==
            IF k = 0 THEN 0 ELSE part[k - 1] + (input[k] % 128) * 2 ^ (7 * (k - 1))
        Parsed(k) == IF Overflows(input, k) THEN [value |-> BadLen, offset |-> 0]
                     ELSE [value |-> part[k], offset |-> k]
    IN  IF StopByte(input) = {} THEN [value |-> NoLen, offset |-> 0]
        ELSE Parsed(CHOOSE k \in StopByte(input) : TRUE)

-----------------------------------------------------------------------------
(* Messages.                                                                *)

PayloadBytes(first, count) == [k \in 1 .. count |-> (first + k) % 256]

\* OutgoingFrame: a Preamble, then the bytes of the payload from `start`.
FrameBytes(f, start) ==
    HeaderBytes(f.header)
    \o (IF f.len = NoLen THEN <<>> ELSE Encode(f.len))
    \o PayloadBytes(start, f.seg)

\* OutgoingMessage::frame_iter: the frames that next_owned gives until it says that one
\* was the last, as bytes.  Every frame but the first takes at least one byte.
FrameIterBytes(header, payload) ==
    LET iter[k \in 0 .. payload + 2] ==
            IF k = 0 THEN Frames(header, payload) ELSE AfterFrame(iter[k - 1])
        count == CHOOSE n \in 1 .. payload + 2 :
                    /\ IsFinalFrame(iter[n - 1])
                    /\ \A m \in 1 .. n - 1 : ~IsFinalFrame(iter[m - 1])
    IN  [k \in 1 .. count |-> FrameBytes(NextFrame(iter[k - 1]), iter[k - 1].processed)]

\* Mutant: the length prefix is not taken off the later frames.
ChunkStartIgnoringPrefix(frames_completed, prefix_len) ==
    IF frames_completed = 0 THEN 0 ELSE frames_completed * (MaxFrameSize - HeaderSize)

\* ByteIter::chunk, where in the payload the segment of a frame starts.
FramePayloadStart(frames_completed, prefix_len) ==
    IF frames_completed = 0 THEN 0
    ELSE frames_completed * (MaxFrameSize - HeaderSize) - prefix_len

\* ByteIter::chunk: its first byte, after `consumed` bytes of the message.
Chunk(header, payload, consumed) ==
    LET prefix == IF payload = NoPayload THEN <<>> ELSE Encode(payload)
        frames_completed == consumed \div MaxFrameSize
        frame_progress   == consumed % MaxFrameSize
        preamble         == HeaderSize + IF frames_completed = 0 THEN Len(prefix) ELSE 0
    IN  CASE frame_progress < HeaderSize ->
                HeaderBytes(header)[frame_progress + 1]
          [] frame_progress \in HeaderSize .. preamble - 1 ->
                prefix[frame_progress - HeaderSize + 1]
          [] frame_progress >= preamble ->
                (FramePayloadStart(frames_completed, Len(prefix))
                    + frame_progress - preamble + 1) % 256

\* OutgoingMessage::iter_bytes, written out.
IterBytes(header, payload) ==
    [k \in 1 .. TotalLen(payload) |-> Chunk(header, payload, k - 1)]

=============================================================================
