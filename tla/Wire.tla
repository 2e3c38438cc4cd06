-------------------------------- MODULE Wire --------------------------------
(***************************************************************************)
(* What travels between two juliet peers: headers (header.rs), the length  *)
(* of a varint32 (varint.rs) and the frames an outgoing message is cut     *)
(* into (protocol/outgoing_message.rs).                                    *)
(*                                                                         *)
(* A payload is represented by its length in bytes; the bytes themselves   *)
(* decide nothing in this code.  All size arithmetic is the code's.        *)
(***************************************************************************)
EXTENDS Integers

CONSTANTS
    NumChannels,    \* `N` of JulietProtocol<N>
    IdCount,        \* number of request IDs: 2^16, an Id is a u16
    MaxFrameSize    \* MaxFrameSize: the bytes in a frame, header included

HeaderSize   == 4
VarintMaxLen == 5

\* MaxFrameSize::MIN, a full preamble and one byte of payload.
MinFrameSize == HeaderSize + VarintMaxLen + 1

ASSUME WireAssumption ==
    /\ NumChannels \in Nat
    /\ IdCount \in Nat \ {0}
    /\ MaxFrameSize \in Nat
    /\ MaxFrameSize >= MinFrameSize

Channels == 0 .. NumChannels - 1
Ids      == 0 .. IdCount - 1

-----------------------------------------------------------------------------
(* Headers.  The kind byte tells apart six frame kinds and, under the error *)
(* bit, fourteen error kinds.                                               *)

Kind == {"Request", "Response", "RequestPl", "ResponsePl",
         "CancelReq", "CancelResp"}

ErrorKind == {"Other", "MaxFrameSizeExceeded", "InvalidHeader",
              "SegmentViolation", "BadVarInt", "InvalidChannel",
              "InProgress", "ResponseTooLarge", "RequestTooLarge",
              "DuplicateRequest", "FictitiousRequest",
              "RequestLimitExceeded", "FictitiousCancel",
              "CancellationLimitExceeded"}

Header(kind, channel, id) == [kind |-> kind, channel |-> channel, id |-> id]

\* Stands for "no header" where the code has an Option or an enum variant
\* without one; its kind is no kind of the wire.
NoHeader == Header("None", 0, 0)

-----------------------------------------------------------------------------
(* Outgoing messages and their frames.                                      *)

NoPayload == -1     \* `None`; a payload is otherwise its length
NoLen     == -1     \* a frame without a length prefix
BadLen    == -2     \* a length prefix that decode_varint32 rejects

Least(a, b) == IF a <= b THEN a ELSE b

\* Varint32::length_of, seven bits to the byte.
LengthOf(value) ==
    CASE value < 128 -> 1
      [] value >= 128 /\ value < 16384 -> 2
      [] value >= 16384 /\ value < 2097152 -> 3
      [] value >= 2097152 /\ value < 268435456 -> 4
      [] value >= 268435456 -> 5

\* payload_is_multi_frame, through MaxFrameSize::without_preamble
PayloadIsMultiFrame(payload) ==
    payload # NoPayload /\ MaxFrameSize - HeaderSize - LengthOf(payload) < payload

\* OutgoingMessage::frames: a message about to be cut into frames.
Frames(header, payload) ==
    [header |-> header, payload |-> payload, processed |-> 0]

\* FrameIter::next_owned, the frame: the first frame of a payload carries its
\* length, and each frame takes what is left of the payload up to its capacity.
\* `off` is the number of bytes of the length prefix.
NextFrame(iter) ==
    LET prefixed == iter.payload # NoPayload /\ iter.processed = 0
        off == IF prefixed THEN LengthOf(iter.payload) ELSE 0
    IN  [header |-> iter.header,
         len    |-> IF prefixed THEN iter.payload ELSE NoLen,
         off    |-> off,
         seg    |-> IF iter.payload = NoPayload THEN 0
                    ELSE Least(MaxFrameSize - HeaderSize - off,
                               iter.payload - iter.processed)]

\* FrameIter::next_owned, the rest: the iterator past that frame ...
AfterFrame(iter) == [iter EXCEPT !.processed = @ + NextFrame(iter).seg]

\* ... and whether next_owned returns `None` in its place.
IsFinalFrame(iter) ==
    iter.payload = NoPayload \/ AfterFrame(iter).processed = iter.payload

-----------------------------------------------------------------------------
(* What OutgoingMessage computes about a message without cutting it.        *)

\* OutgoingMessage::non_header_len
NonHeaderLen(payload) ==
    IF payload = NoPayload THEN 0 ELSE LengthOf(payload) + payload

\* OutgoingMessage::num_frames
NumFrames(payload) ==
    LET usable_size == MaxFrameSize - HeaderSize
        num_frames  == (NonHeaderLen(payload) + usable_size - 1) \div usable_size
    IN  IF num_frames = 0 THEN 1 ELSE num_frames

\* OutgoingMessage::total_len
TotalLen(payload) == NumFrames(payload) * HeaderSize + NonHeaderLen(payload)

\* OutgoingMessage::truncate_to_single_frame
TruncateToSingleFrame(payload) ==
    IF PayloadIsMultiFrame(payload)
    THEN Least(payload, MaxFrameSize - HeaderSize - LengthOf(payload))
    ELSE payload

=============================================================================
