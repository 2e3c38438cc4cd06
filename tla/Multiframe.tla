----------------------------- MODULE Multiframe -----------------------------
(***************************************************************************)
(* MultiframeReceiver of protocol/multiframe.rs: the reassembly of one     *)
(* multi-frame message per channel.                                        *)
(*                                                                         *)
(* A receiver is `Ready` or holds the header of the transfer in progress,  *)
(* the payload bytes received and the total announced by the first frame.  *)
(***************************************************************************)
EXTENDS Wire

Ready == [header |-> NoHeader, received |-> 0, total |-> 0]

InProgress(header, received, total) ==
    [header |-> header, received |-> received, total |-> total]

\* CompletedFrame
CompletedFrame == {"NewMultiFrame", "IntermediateMultiFrame",
                   "SingleFrame", "CompletedMultiFrame"}

\* detect_starting_segment: the segment the preamble of `f` announces.
StartingSegment(f) == Least(MaxFrameSize - HeaderSize - f.off, f.len)

\* extract_segment: the segment of a later frame, which has no preamble.
LaterSegment(rcv) == Least(MaxFrameSize - HeaderSize, rcv.total - rcv.received)

\* What `accept` makes of a frame: the receiver after it, a CompletedFrame or
\* the ErrorKind it fails with, and the size of the payload it completes.
Accepted(rcv, frame, payload) ==
    [receiver |-> rcv, frame |-> frame, payload |-> payload]

\* MultiframeReceiver::accept on the branch that expects a starting segment.
AcceptStart(rcv, f, max_payload_size, payload_exceeded) ==
    CASE f.len = BadLen ->
            Accepted(rcv, "BadVarInt", NoPayload)
      [] f.len > max_payload_size ->
            Accepted(rcv, payload_exceeded, NoPayload)
      [] f.len \in 0..max_payload_size /\ StartingSegment(f) = f.len ->
            Accepted(rcv, "SingleFrame", f.len)
      [] f.len \in 0..max_payload_size /\ StartingSegment(f) # f.len ->
            IF rcv = Ready
            THEN Accepted(InProgress(f.header, StartingSegment(f), f.len),
                          "NewMultiFrame", NoPayload)
            ELSE Accepted(rcv, "InProgress", NoPayload)

\* MultiframeReceiver::accept on the branch that continues the transfer.
AcceptLater(rcv) ==
    LET received == rcv.received + LaterSegment(rcv)
    IN  IF received = rcv.total
        THEN Accepted(Ready, "CompletedMultiFrame", received)
        ELSE Accepted([rcv EXCEPT !.received = received],
                      "IntermediateMultiFrame", NoPayload)

\* MultiframeReceiver::accept
Accept(rcv, f, max_payload_size, payload_exceeded) ==
    IF rcv.header = f.header
    THEN AcceptLater(rcv)
    ELSE AcceptStart(rcv, f, max_payload_size, payload_exceeded)

=============================================================================
