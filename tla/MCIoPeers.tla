----------------------------- MODULE MCIoPeers ------------------------------
(* Constants for model checking IoPeers.                                    *)
EXTENDS IoPeers

MCOneRequest  == [c \in Channels |-> 1]
MCTwoRequests == [c \in Channels |-> 2]
MCOneBuffered == [c \in Channels |-> 1]
MCTwoBuffered == [c \in Channels |-> 2]

\* With frames of 10 bytes, a payload of 8 takes two frames.
MCMaxPayload == [c \in Channels |-> 8]

MCNoPayload == {NoPayload}
MCTwoFrames == {8}
MCMixed     == {NoPayload, 8}
MCZero      == {0}

\* The largest payload of an error that fits into a frame, and one byte more.
MCErrors    == {5, 6}

\* Stray bytes are taken for an error or for a response to the first request.
MCStray == {Header("Other", 0, 0), Header("ResponsePl", 0, 1)}

MCFirst   == {1}
MCBoth    == {1, 2}
MCNone    == {}
MCForeign == {"Response"}
=============================================================================
