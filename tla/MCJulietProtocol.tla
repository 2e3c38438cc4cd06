-------------------------- MODULE MCJulietProtocol --------------------------
(* Constants for model checking JulietProtocol.                             *)
EXTENDS JulietProtocol

MCRequestLimit == [c \in Channels |-> 2]

\* With frames of 10 bytes, a payload of 8 takes two frames if its length is
\* encoded in one byte and three if it is encoded in five.
MCMaxPayload == [c \in Channels |-> 8]

\* A response of one byte fits into one frame however its length is encoded.
MCSingleFrame == [c \in Channels |-> 1]

MCPayloads == {NoPayload, 1, 8, 9}
MCPeerLens == {BadLen, 0, 8, 9}
MCPeerOffs == {1, 5}
=============================================================================
