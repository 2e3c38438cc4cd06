----------------------------- MODULE MCFraming ------------------------------
(***************************************************************************)
(* Framing for TLC: two channels, frames of the smallest size, and a peer  *)
(* that sends frames of every kind, including ones that end the connection. *)
(***************************************************************************)
EXTENDS Framing

MCRequestLimit == [c \in Channels |-> 2]
MCMaxRequest   == [c \in Channels |-> 9]
MCMaxResponse  == [c \in Channels |-> 130]
MCOutstanding  == [c \in Channels |-> {1, 300}]

Bare(kind, c, id)          == [header |-> Header(kind, c, id), len |-> NoLen, off |-> 0]
Prefixed(kind, c, id, len, off) ==
    [header |-> Header(kind, c, id), len |-> len, off |-> off]

\* Requests and responses without a payload, in one frame and in several, two of
\* them on the same channel; lengths encoded in more bytes than needed.
Regular == {
    Bare("Request", 0, 258),
    Bare("Response", 0, 300),
    Bare("CancelReq", 0, 1),
    Bare("CancelResp", 1, 1),
    Prefixed("RequestPl", 0, 1, 9, 1),
    Prefixed("RequestPl", 0, 2, 2, 3),
    Prefixed("ResponsePl", 0, 1, 0, 1),
    Prefixed("ResponsePl", 1, 300, 7, 2)}

\* A length of two bytes; lengths that are too large, and one that is no length; an
\* error with a payload; headers that are none.
Final == {
    Prefixed("ResponsePl", 1, 1, 128, 2),
    Prefixed("ResponsePl", 0, 5, 1, 1),
    Prefixed("RequestPl", 1, 1, 2 ^ 30, 5),
    Prefixed("RequestPl", 1, 1, BadLen, 0),
    Prefixed("Other", 7, 300, 5, 1),
    Prefixed("Other", 7, 300, 6, 1),
    Prefixed("Other", 0, 0, BadLen, 0),
    Bare("InProgress", 0, 2),
    Bare("Request", 2, 1),
    [header |-> NoHeader, len |-> NoLen, off |-> 0]}

MCVarints == UNION {{2 ^ k - 1, 2 ^ k, 2 ^ k + 1} : k \in 0 .. 29} \cup {300, 2 ^ 30}
MCMessages == {NoPayload} \cup 0 .. 40 \cup 120 .. 135

MCOffers == Regular \cup Final
=============================================================================
