---------------------------- MODULE IoPeersProofs ---------------------------
(***************************************************************************)
(* Proofs about two cores that talk to each other, for every number of     *)
(* channels and IDs, every configuration, and every bound on requests,     *)
(* frames in transit and payloads, with users that do all they may, and    *)
(* also with a peer that breaks the protocol.                              *)
(*                                                                         *)
(* What one core does to its queues is in IoCoreProofs; here its steps are *)
(* put together with the handles and the transport.                        *)
(***************************************************************************)
EXTENDS IoPeers, IoCoreProofs

(* The transport.                                                           *)

WireFrames == FramesOf(Kind \cup ErrorKind) \cup {Torn}

\* An error is the last of the frames s sent by a core, which ended with r.
LastOK(s, r) ==
    \A i \in DOMAIN s :
        s[i].header.kind \in ErrorKind => i = Len(s) /\ r = "RemoteProtocolViolation"

\* What the kinds of frames say.
LEMMA TornKind == Torn.header.kind \notin ErrorKind
  BY DEF Torn, NoFrame, NextFrame, Frames, NoHeader, Header, ErrorKind

\* A frame is taken off the transport.
LEMMA LastTail ==
  ASSUME NEW s \in Seq(WireFrames), s # <<>>, NEW r, LastOK(s, r)
  PROVE  LastOK(Tail(s), r)
  <1>1. /\ Len(Tail(s)) = Len(s) - 1 /\ Len(s) \in Nat /\ Len(s) # 0
        /\ Tail(s) \in Seq(WireFrames)
        /\ \A i \in 1 .. Len(Tail(s)) : Tail(s)[i] = s[i + 1]
    BY HeadTailProperties, LenProperties, EmptySeq
  <1>2. DOMAIN Tail(s) = 1 .. Len(Tail(s)) /\ DOMAIN s = 1 .. Len(s)
    BY <1>1, LenProperties
  <1>3. ASSUME NEW i \in DOMAIN Tail(s), Tail(s)[i].header.kind \in ErrorKind
        PROVE  i = Len(Tail(s)) /\ r = "RemoteProtocolViolation"
    <2>1. i + 1 \in DOMAIN s /\ Tail(s)[i] = s[i + 1]
      BY <1>1, <1>2, <1>3
    <2>2. i + 1 = Len(s) /\ r = "RemoteProtocolViolation"
      BY <1>3, <2>1 DEF LastOK
    <2> QED
      BY <1>1, <1>2, <2>2
  <1> QED
    BY <1>3 DEF LastOK

\* While a core is running, no error is on its way, so that it may end.
LEMMA LastRunning ==
  ASSUME NEW s, NEW r2, LastOK(s, "Running")
  PROVE  LastOK(s, r2)
  BY DEF LastOK

\* It sends a frame that is no error.
LEMMA LastAppend ==
  ASSUME NEW s \in Seq(WireFrames), LastOK(s, "Running"), NEW r2,
         NEW f \in WireFrames, f.header.kind \notin ErrorKind
  PROVE  LastOK(Append(s, f), r2)
  <1>1. /\ Len(Append(s, f)) = Len(s) + 1 /\ Len(s) \in Nat
        /\ Append(s, f)[Len(s) + 1] = f
        /\ \A i \in 1 .. Len(s) : Append(s, f)[i] = s[i]
        /\ DOMAIN s = 1 .. Len(s) /\ DOMAIN Append(s, f) = 1 .. Len(s) + 1
    BY AppendProperties, LenProperties
  <1>2. \A i \in 1 .. Len(s) : s[i].header.kind \notin ErrorKind
    BY <1>1 DEF LastOK
  <1>3. ASSUME NEW i \in DOMAIN Append(s, f)
        PROVE  Append(s, f)[i].header.kind \notin ErrorKind
    <2>1. CASE i \in 1 .. Len(s)
      BY <1>1, <1>2, <2>1
    <2>2. CASE i = Len(s) + 1
      BY <1>1, <2>2
    <2> QED
      BY <1>1, <2>1, <2>2
  <1> QED
    BY <1>3 DEF LastOK

\* It sends the error's bytes behind a part of a frame: frames that are no errors.
LEMMA LastTorn ==
  ASSUME NEW s \in Seq(WireFrames), LastOK(s, "Running"), NEW r2, NEW t \in Seq({Torn})
  PROVE  s \o t \in Seq(WireFrames) /\ LastOK(s \o t, r2)
  <1>1. Torn \in WireFrames /\ Torn.header.kind \notin ErrorKind
    BY TornKind DEF WireFrames
  <1>2. t \in Seq(WireFrames) /\ \A i \in 1 .. Len(t) : t[i] = Torn
    <2>1. \A i \in 1 .. Len(t) : t[i] = Torn
      BY ElementOfSeq
    <2>2. t \in [1 .. Len(t) -> WireFrames] /\ Len(t) \in Nat
      BY <1>1, <2>1, LenProperties
    <2> QED
      BY <2>1, <2>2, IsASeq
  <1>3. /\ s \o t \in Seq(WireFrames) /\ Len(s \o t) = Len(s) + Len(t)
        /\ \A i \in 1 .. Len(s) + Len(t) :
             (s \o t)[i] = IF i <= Len(s) THEN s[i] ELSE t[i - Len(s)]
    BY <1>2, ConcatProperties
  <1>4. /\ Len(s) \in Nat /\ Len(t) \in Nat /\ DOMAIN s = 1 .. Len(s)
        /\ DOMAIN (s \o t) = 1 .. Len(s) + Len(t)
    BY <1>2, <1>3, LenProperties
  <1>5. \A i \in 1 .. Len(s) : s[i].header.kind \notin ErrorKind
    BY <1>4 DEF LastOK
  <1>6. ASSUME NEW i \in DOMAIN (s \o t)
        PROVE  (s \o t)[i].header.kind \notin ErrorKind
    <2>1. CASE i <= Len(s)
      BY <1>3, <1>4, <1>5, <2>1
    <2>2. CASE ~(i <= Len(s))
      <3>1. (s \o t)[i] = t[i - Len(s)] /\ i - Len(s) \in 1 .. Len(t)
        BY <1>3, <1>4, <2>2
      <3> QED
        BY <1>1, <1>2, <3>1
    <2> QED
      BY <2>1, <2>2
  <1> QED
    BY <1>3, <1>6 DEF LastOK

\* It sends the error, and ends.
LEMMA LastError ==
  ASSUME NEW s \in Seq(WireFrames), LastOK(s, "Running"), NEW e \in WireFrames
  PROVE  LastOK(Append(s, e), "RemoteProtocolViolation")
  <1>1. /\ Len(Append(s, e)) = Len(s) + 1 /\ Len(s) \in Nat
        /\ \A i \in 1 .. Len(s) : Append(s, e)[i] = s[i]
        /\ DOMAIN s = 1 .. Len(s) /\ DOMAIN Append(s, e) = 1 .. Len(s) + 1
    BY AppendProperties, LenProperties
  <1>2. \A i \in 1 .. Len(s) : s[i].header.kind \notin ErrorKind
    BY <1>1 DEF LastOK
  <1> QED
    BY <1>1, <1>2 DEF LastOK

-----------------------------------------------------------------------------
(* The inductive invariant.                                                 *)

Types ==
    /\ core \in [Peers -> CoreStates(IoIds)]
    /\ net \in [Peers -> Seq(WireFrames)]
    /\ next_io_id \in [Peers -> 0 .. MaxRequests]
    /\ handles \in [Peers -> BOOLEAN]
    /\ todo \in [Peers -> [Channels -> SUBSET Ids]]
    /\ open \in [Peers -> SUBSET IoIds]
    /\ pending \in [Peers -> SUBSET IoIds]

AllServe == \A p \in Peers : Serves(IoIds, core[p], next_io_id[p], open[p])

Inv == Types /\ AllServe /\ ErrorIsLast

\* ErrorIsLast, for the frames on their way to each of the peers.
LEMMA ErrorsByPeer ==
  ErrorIsLast <=> \A p \in Peers : LastOK(net[p], core[Other(p)].result)
  BY DEF ErrorIsLast, LastOK

\* The same, after a step.
LEMMA ErrorsByPeerNext ==
  ErrorIsLast' <=> \A p \in Peers : LastOK(net'[p], core'[Other(p)].result)
  BY DEF ErrorIsLast, LastOK

\* The two peers.
LEMMA PeerFacts ==
  ASSUME NEW p \in Peers
  PROVE  Other(p) \in Peers /\ Other(p) # p /\ Other(Other(p)) = p
         /\ \A q \in Peers : q = p \/ q = Other(p)
  BY DEF Peers, Other

\* The step of a peer p: its core, its requests and the transport may change.
Becomes(p, k, n, o) ==
    /\ core' = [core EXCEPT ![p] = k]
    /\ next_io_id' = [next_io_id EXCEPT ![p] = n]
    /\ open' = [open EXCEPT ![p] = o]

\* It leaves the other one as it is.
LEMMA StepServes ==
  ASSUME Types, AllServe, NEW p \in Peers, NEW k, NEW n \in 0 .. MaxRequests, NEW o,
         Becomes(p, k, n, o), Serves(IoIds, k, n, o)
  PROVE  /\ core' \in [Peers -> CoreStates(IoIds)]
         /\ next_io_id' \in [Peers -> 0 .. MaxRequests]
         /\ open' \in [Peers -> SUBSET IoIds]
         /\ AllServe'
         /\ core'[p] = k /\ \A q \in Peers \ {p} : core'[q] = core[q]
  <1>1. k \in CoreStates(IoIds) /\ o \in SUBSET IoIds
    BY ServesLedger DEF CoreOK, Serves
  <1>2. /\ core' \in [Peers -> CoreStates(IoIds)]
        /\ next_io_id' \in [Peers -> 0 .. MaxRequests]
        /\ open' \in [Peers -> SUBSET IoIds]
    BY <1>1 DEF Becomes, Types
  <1>3. /\ core'[p] = k /\ next_io_id'[p] = n /\ open'[p] = o
        /\ \A q \in Peers \ {p} :
             core'[q] = core[q] /\ next_io_id'[q] = next_io_id[q] /\ open'[q] = open[q]
    BY DEF Becomes, Types
  <1>4. AllServe'
    BY <1>3 DEF AllServe
  <1> QED
    BY <1>2, <1>3, <1>4

\* Only the core of a peer changes.
LEMMA OnlyCore ==
  ASSUME Types, NEW p \in Peers, NEW k, core' = [core EXCEPT ![p] = k],
         UNCHANGED <<next_io_id, open>>
  PROVE  Becomes(p, k, next_io_id[p], open[p]) /\ next_io_id[p] \in 0 .. MaxRequests
  BY DEF Becomes, Types

\* A peer that is running may change its core, and send a frame that is no error or
\* bytes that are taken for none, or take a frame off the transport.
SendsNoError(p) ==
    \/ net' = net
    \/ \E f \in WireFrames : /\ f.header.kind \notin ErrorKind
                             /\ net' = [net EXCEPT ![Other(p)] = Append(net[Other(p)], f)]
    \/ \E t \in Seq({Torn}) : net' = [net EXCEPT ![Other(p)] = net[Other(p)] \o t]
    \/ net[p] # <<>> /\ net' = [net EXCEPT ![p] = Tail(net[p])]

\* Such a step keeps an error the last frame.
LEMMA StepErrors ==
  ASSUME Types, ErrorIsLast, NEW p \in Peers, core[p].result = "Running",
         core'[Other(p)] = core[Other(p)], SendsNoError(p)
  PROVE  net' \in [Peers -> Seq(WireFrames)] /\ ErrorIsLast'
  <1> DEFINE o == Other(p)
  <1>1. o \in Peers /\ o # p /\ Other(o) = p /\ \A q \in Peers : q = p \/ q = o
    BY PeerFacts
  <1>2. /\ LastOK(net[o], "Running") /\ LastOK(net[p], core[o].result)
        /\ net[o] \in Seq(WireFrames) /\ net[p] \in Seq(WireFrames)
        /\ net \in [Peers -> Seq(WireFrames)]
    BY <1>1, ErrorsByPeer DEF Types
  <1> HIDE DEF o
  <1>3. SUFFICES /\ net' \in [Peers -> Seq(WireFrames)]
                 /\ LastOK(net'[o], core'[p].result)
                 /\ LastOK(net'[p], core'[o].result)
    BY <1>1, ErrorsByPeerNext DEF o
  <1>4. core'[o].result = core[o].result
    BY DEF o
  <1>5. CASE net' = net
    BY <1>2, <1>4, <1>5, LastRunning
  <1>6. CASE \E f \in WireFrames : /\ f.header.kind \notin ErrorKind
                                   /\ net' = [net EXCEPT ![o] = Append(net[o], f)]
    <2>1. PICK f \in WireFrames : /\ f.header.kind \notin ErrorKind
                                  /\ net' = [net EXCEPT ![o] = Append(net[o], f)]
      BY <1>6
    <2>2. Append(net[o], f) \in Seq(WireFrames)
      BY <1>2, AppendProperties
    <2>3. /\ net' \in [Peers -> Seq(WireFrames)]
          /\ net'[o] = Append(net[o], f) /\ net'[p] = net[p]
      BY <1>1, <1>2, <2>1, <2>2
    <2>4. LastOK(Append(net[o], f), core'[p].result)
      BY <1>2, <2>1, LastAppend
    <2> QED
      BY <1>2, <1>4, <2>3, <2>4
  <1>7. CASE net[p] # <<>> /\ net' = [net EXCEPT ![p] = Tail(net[p])]
    <2>1. Tail(net[p]) \in Seq(WireFrames)
      BY <1>2, <1>7, HeadTailProperties
    <2>2. /\ net' \in [Peers -> Seq(WireFrames)]
          /\ net'[p] = Tail(net[p]) /\ net'[o] = net[o]
      BY <1>1, <1>2, <1>7, <2>1
    <2>3. LastOK(Tail(net[p]), core[o].result) /\ LastOK(net[o], core'[p].result)
      BY <1>2, <1>7, LastTail, LastRunning
    <2> QED
      BY <1>4, <2>2, <2>3
  <1>8. CASE \E t \in Seq({Torn}) : net' = [net EXCEPT ![o] = net[o] \o t]
    <2>1. PICK t \in Seq({Torn}) : net' = [net EXCEPT ![o] = net[o] \o t]
      BY <1>8
    <2> DEFINE s == net[o] \o t
    <2>2. s \in Seq(WireFrames) /\ LastOK(s, core'[p].result)
      BY <1>2, LastTorn
    <2>3. net' = [net EXCEPT ![o] = s]
      BY <2>1
    <2> HIDE DEF s
    <2>4. /\ net' \in [Peers -> Seq(WireFrames)]
          /\ net'[o] = s /\ net'[p] = net[p]
      BY <1>1, <1>2, <2>2, <2>3
    <2> QED
      BY <1>2, <1>4, <2>2, <2>4
  <1> QED
    BY <1>5, <1>6, <1>7, <1>8 DEF SendsNoError, o

\* The steps of one peer that send no error keep the invariant.
LEMMA PeerStep ==
  ASSUME Inv, NEW p \in Peers, core[p].result = "Running",
         NEW k, NEW n \in 0 .. MaxRequests, NEW o, Becomes(p, k, n, o),
         Serves(IoIds, k, n, o), SendsNoError(p),
         handles' \in [Peers -> BOOLEAN],
         todo' \in [Peers -> [Channels -> SUBSET Ids]],
         pending' \in [Peers -> SUBSET IoIds]
  PROVE  Inv'
  <1>1. Types /\ AllServe /\ ErrorIsLast
    BY DEF Inv
  <1>2. /\ core' \in [Peers -> CoreStates(IoIds)]
        /\ next_io_id' \in [Peers -> 0 .. MaxRequests]
        /\ open' \in [Peers -> SUBSET IoIds]
        /\ AllServe'
        /\ \A q \in Peers \ {p} : core'[q] = core[q]
    BY <1>1, StepServes
  <1>3. net' \in [Peers -> Seq(WireFrames)] /\ ErrorIsLast'
    BY <1>1, <1>2, PeerFacts, StepErrors
  <1> QED
    BY <1>2, <1>3 DEF Inv, Types

\* The same, for steps that do nothing but change the core and send frames.
LEMMA CoreStep ==
  ASSUME Inv, NEW p \in Peers, core[p].result = "Running",
         NEW k, core' = [core EXCEPT ![p] = k], Serves(IoIds, k, next_io_id[p], open[p]),
         SendsNoError(p), UNCHANGED <<next_io_id, handles, todo, open, pending>>
  PROVE  Inv'
  <1>1. Types
    BY DEF Inv
  <1>2. Becomes(p, k, next_io_id[p], open[p]) /\ next_io_id[p] \in 0 .. MaxRequests
    BY <1>1, OnlyCore
  <1>3. /\ handles' \in [Peers -> BOOLEAN]
        /\ todo' \in [Peers -> [Channels -> SUBSET Ids]]
        /\ pending' \in [Peers -> SUBSET IoIds]
    BY <1>1 DEF Types
  <1> QED
    BY <1>2, <1>3, PeerStep

\* The frames that messages are cut into can be on the transport.
LEMMA FrameKinds ==
  /\ FramesOf(Kind) \subseteq WireFrames
  /\ FramesOf(ErrorKind) \subseteq WireFrames
  /\ Torn \in WireFrames
  /\ \A f \in FramesOf(Kind) : f.header.kind \notin ErrorKind
  BY DEF FramesOf, MessageHeaders, WireFrames, Kind, ErrorKind

-----------------------------------------------------------------------------
(* The handles.                                                             *)

\* The items that handles send.
LEMMA NewItems ==
  /\ \A c \in Channels, io_id \in IoIds, payload \in RequestPayloads :
       Item("Request", c, io_id, 0, payload) \in Items(IoIds)
  /\ \A io_id \in IoIds :
       Item("RequestCancellation", 0, io_id, 0, NoPayload) \in Items(IoIds)
  /\ \A c \in Channels, id \in Ids, payload \in ResponsePayloads :
       Item("Response", c, 0, id, payload) \in Items(IoIds)
  /\ \A c \in Channels, id \in Ids :
       Item("ResponseCancellation", c, 0, id, NoPayload) \in Items(IoIds)
  /\ \A c \in Channels, id \in ErrorIds, payload \in ErrorPayloads :
       Item("Error", c, 0, id, payload) \in Items(IoIds)
  <1>1. 0 \in Ids /\ Channels \subseteq Nat /\ IoIds \subseteq Nat
    BY WireAssumption, PeersAssumption DEF Ids, Channels, IoIds
  <1>2. /\ RequestPayloads \subseteq Nat \cup {NoPayload}
        /\ ResponsePayloads \subseteq Nat \cup {NoPayload}
        /\ ErrorPayloads \subseteq Nat /\ ErrorIds \subseteq Ids
    BY PeersAssumption
  <1> QED
    BY <1>1, <1>2 DEF Item, Items, ItemKinds, IsRequest

\* An item is sent that is no request.
LEMMA SendKeeps ==
  ASSUME Inv, NEW p \in Peers, NEW item \in Items(IoIds), ~IsRequest(item), Send(p, item),
         UNCHANGED <<net, next_io_id, handles, open>>,
         todo' \in [Peers -> [Channels -> SUBSET Ids]],
         pending' \in [Peers -> SUBSET IoIds]
  PROVE  Inv'
  <1> DEFINE k == WithItem(core[p], item)
  <1>1. Types /\ Serves(IoIds, core[p], next_io_id[p], open[p]) /\ core[p].result = "Running"
    BY DEF Inv, AllServe, Send, Running
  <1>2. core' = [core EXCEPT ![p] = k]
    BY <1>1 DEF Send, WithItem, Types
  <1>3. Serves(IoIds, k, next_io_id[p], open[p])
    BY <1>1, ItemSentOK
  <1> HIDE DEF k
  <1>4. Becomes(p, k, next_io_id[p], open[p]) /\ next_io_id[p] \in 0 .. MaxRequests
    BY <1>1, <1>2, OnlyCore
  <1>5. SendsNoError(p) /\ handles' \in [Peers -> BOOLEAN]
    BY <1>1 DEF SendsNoError, Types
  <1> QED
    BY <1>1, <1>3, <1>4, <1>5, PeerStep

\* enqueue_request, with a ticket
LEMMA EnqueueRequestKeeps ==
  ASSUME Inv, NEW p \in Peers, NEW c \in Channels, NEW payload \in RequestPayloads,
         EnqueueRequest(p, c, payload)
  PROVE  Inv'
  <1> DEFINE n == next_io_id[p]
             item == Item("Request", c, n, 0, payload)
             k == WithRequest(core[p], item, c)
             o == open[p] \cup {n}
  <1>1. /\ Types /\ Serves(IoIds, core[p], n, open[p])
        /\ core[p].result = "Running" /\ core[p].buffered_requests[c] > 0
        /\ n < MaxRequests
    BY DEF Inv, AllServe, EnqueueRequest, Running
  <1>2. n \in 0 .. MaxRequests /\ n \in IoIds /\ n + 1 \in 0 .. MaxRequests
    BY <1>1, PeersAssumption DEF Types, IoIds
  <1>3. item \in Items(IoIds) /\ IsRequest(item) /\ item.channel = c /\ item.io_id = n
    <2>1. item \in Items(IoIds)
      BY <1>2, NewItems
    <2> QED
      BY <2>1 DEF Item, IsRequest
  <1>4. core' = [core EXCEPT ![p] = k]
    BY <1>1 DEF EnqueueRequest, WithRequest, Types, CoreStates
  <1>5. next_io_id' = [next_io_id EXCEPT ![p] = n + 1] /\ open' = [open EXCEPT ![p] = o]
    BY DEF EnqueueRequest
  <1> HIDE DEF item
  <1>6. Serves(IoIds, k, n + 1, o)
    BY <1>1, <1>3, RequestSentOK
  <1>7. /\ handles' \in [Peers -> BOOLEAN]
        /\ todo' \in [Peers -> [Channels -> SUBSET Ids]]
        /\ pending' \in [Peers -> SUBSET IoIds]
        /\ SendsNoError(p)
    BY <1>1, <1>2 DEF EnqueueRequest, Types, SendsNoError
  <1>8. Becomes(p, k, n + 1, o)
    BY <1>4, <1>5 DEF Becomes
  <1> HIDE DEF k, o
  <1> QED
    BY <1>1, <1>2, <1>6, <1>7, <1>8, PeerStep

\* enqueue_request_cancellation
LEMMA EnqueueRequestCancellationKeeps ==
  ASSUME Inv, NEW p \in Peers, NEW io_id \in IoIds, EnqueueRequestCancellation(p, io_id)
  PROVE  Inv'
  <1> DEFINE item == Item("RequestCancellation", 0, io_id, 0, NoPayload)
  <1>1. item \in Items(IoIds) /\ ~IsRequest(item)
    <2>1. item \in Items(IoIds)
      BY NewItems
    <2> QED
      BY <2>1 DEF Item, IsRequest
  <1>2. Send(p, item) /\ UNCHANGED <<net, next_io_id, handles, open>>
    BY DEF EnqueueRequestCancellation
  <1>3. /\ todo' \in [Peers -> [Channels -> SUBSET Ids]]
        /\ pending' \in [Peers -> SUBSET IoIds]
    BY DEF EnqueueRequestCancellation, Inv, Types
  <1> HIDE DEF item
  <1> QED
    BY <1>1, <1>2, <1>3, SendKeeps

\* A request is answered: it is no longer to do.
LEMMA TodoDone ==
  ASSUME Inv, NEW p \in Peers, NEW c \in Channels, NEW id,
         todo' = [todo EXCEPT ![p][c] = @ \ {id}], UNCHANGED pending
  PROVE  /\ todo' \in [Peers -> [Channels -> SUBSET Ids]]
         /\ pending' \in [Peers -> SUBSET IoIds]
  BY DEF Inv, Types

\* enqueue_response
LEMMA EnqueueResponseKeeps ==
  ASSUME Inv, NEW p \in Peers, NEW c \in Channels, NEW id \in Ids,
         NEW payload \in ResponsePayloads, EnqueueResponse(p, c, id, payload)
  PROVE  Inv'
  <1> DEFINE item == Item("Response", c, 0, id, payload)
  <1>1. item \in Items(IoIds) /\ ~IsRequest(item)
    <2>1. item \in Items(IoIds)
      BY NewItems
    <2> QED
      BY <2>1 DEF Item, IsRequest
  <1>2. Send(p, item) /\ UNCHANGED <<net, next_io_id, handles, open>>
    BY DEF EnqueueResponse
  <1>3. /\ todo' \in [Peers -> [Channels -> SUBSET Ids]]
        /\ pending' \in [Peers -> SUBSET IoIds]
    BY TodoDone DEF EnqueueResponse
  <1> HIDE DEF item
  <1> QED
    BY <1>1, <1>2, <1>3, SendKeeps

\* enqueue_response_cancellation
LEMMA EnqueueResponseCancellationKeeps ==
  ASSUME Inv, NEW p \in Peers, NEW c \in Channels, NEW id \in Ids,
         EnqueueResponseCancellation(p, c, id)
  PROVE  Inv'
  <1> DEFINE item == Item("ResponseCancellation", c, 0, id, NoPayload)
  <1>1. item \in Items(IoIds) /\ ~IsRequest(item)
    <2>1. item \in Items(IoIds)
      BY NewItems
    <2> QED
      BY <2>1 DEF Item, IsRequest
  <1>2. Send(p, item) /\ UNCHANGED <<net, next_io_id, handles, open>>
    BY DEF EnqueueResponseCancellation
  <1>3. /\ todo' \in [Peers -> [Channels -> SUBSET Ids]]
        /\ pending' \in [Peers -> SUBSET IoIds]
    BY TodoDone DEF EnqueueResponseCancellation
  <1> HIDE DEF item
  <1> QED
    BY <1>1, <1>2, <1>3, SendKeeps

\* enqueue_error
LEMMA EnqueueErrorKeeps ==
  ASSUME Inv, NEW p \in Peers, NEW c \in Channels, NEW id \in ErrorIds,
         NEW payload \in ErrorPayloads, EnqueueError(p, c, id, payload)
  PROVE  Inv'
  <1> DEFINE item == Item("Error", c, 0, id, payload)
  <1>1. item \in Items(IoIds) /\ ~IsRequest(item)
    <2>1. item \in Items(IoIds)
      BY NewItems
    <2> QED
      BY <2>1 DEF Item, IsRequest
  <1>2. Send(p, item) /\ UNCHANGED <<net, next_io_id, handles, open>>
    BY DEF EnqueueError
  <1>3. /\ todo' \in [Peers -> [Channels -> SUBSET Ids]]
        /\ pending' \in [Peers -> SUBSET IoIds]
    BY DEF EnqueueError, Inv, Types
  <1> HIDE DEF item
  <1> QED
    BY <1>1, <1>2, <1>3, SendKeeps

\* The last handle is dropped.
LEMMA DropHandlesKeeps ==
  ASSUME Inv, NEW p \in Peers, DropHandles(p)
  PROVE  Inv'
  BY DEF Inv, Types, AllServe, ErrorIsLast, DropHandles

-----------------------------------------------------------------------------
(* The core.                                                                *)

\* What is known of a peer whose core is running.
LEMMA RunningFacts ==
  ASSUME Inv, NEW p \in Peers
  PROVE  /\ Types
         /\ Serves(IoIds, core[p], next_io_id[p], open[p])
         /\ core[p].current_frame # NoFrame =>
              core[p].current_frame.frame \in FramesOf(Kind)
         /\ core[p].pending_error # NoFrame =>
              core[p].pending_error.frame \in FramesOf(ErrorKind)
  <1>1. Types /\ Serves(IoIds, core[p], next_io_id[p], open[p])
    BY DEF Inv, AllServe
  <1>2. core[p] \in CoreStates(IoIds)
    BY <1>1 DEF Types
  <1> QED
    BY <1>1, <1>2 DEF CoreStates

\* The core ends, without a fault of its own.
LEMMA EndKeeps ==
  ASSUME Inv, NEW p \in Peers, core[p].result = "Running",
         NEW result \in Results, result \notin {"Running", "InternalError"},
         core' = [core EXCEPT ![p] = Ended(@, result)],
         SendsNoError(p), UNCHANGED <<next_io_id, handles, todo, open, pending>>
  PROVE  Inv'
  <1> DEFINE k == Ended(core[p], result)
  <1>1. Serves(IoIds, k, next_io_id[p], open[p])
    BY RunningFacts, EndedServes
  <1>2. core' = [core EXCEPT ![p] = k]
    OBVIOUS
  <1> HIDE DEF k
  <1> QED
    BY <1>1, <1>2, CoreStep

\* The write branch of select!.
LEMMA WriteFrameKeeps ==
  ASSUME Inv, NEW p \in Peers, WriteFrame(p)
  PROVE  Inv'
  <1> DEFINE f == core[p].current_frame.frame
             k == FrameWritten(core[p])
  <1>1. /\ core[p].result = "Running" /\ core[p].current_frame # NoFrame
        /\ UNCHANGED <<next_io_id, handles, todo, open, pending>>
    BY DEF WriteFrame, CanWrite, Selecting, Running
  <1>2. f \in WireFrames /\ f.header.kind \notin ErrorKind
    BY <1>1, RunningFacts, FrameKinds
  <1>3. Serves(IoIds, k, next_io_id[p], open[p])
    BY <1>1, RunningFacts, WriteServes
  <1>4. CASE /\ core' = [core EXCEPT ![p] = k]
             /\ net' = [net EXCEPT ![Other(p)] = Append(@, f)]
    <2>1. SendsNoError(p)
      BY <1>2, <1>4 DEF SendsNoError
    <2> HIDE DEF k
    <2> QED
      BY <1>1, <1>3, <1>4, <2>1, CoreStep
  <1>5. CASE core' = [core EXCEPT ![p] = k] /\ net' = net
    <2>1. SendsNoError(p)
      BY <1>5 DEF SendsNoError
    <2> HIDE DEF k
    <2> QED
      BY <1>1, <1>3, <1>5, <2>1, CoreStep
  <1>6. CASE core' = [core EXCEPT ![p] = Ended(core[p], "WriteFailed")] /\ net' = net
    <2> DEFINE result == "WriteFailed"
    <2>1. SendsNoError(p) /\ result \in Results /\ result \notin {"Running", "InternalError"}
          /\ core' = [core EXCEPT ![p] = Ended(@, result)]
      BY <1>6 DEF SendsNoError, Results
    <2> HIDE DEF result
    <2> QED
      BY <1>1, <2>1, EndKeeps
  <1> QED
    BY <1>4, <1>5, <1>6 DEF WriteFrame

\* A frame is made ready to be written.
LEMMA PrepareFrameKeeps ==
  ASSUME Inv, NEW p \in Peers, PrepareFrame(p)
  PROVE  Inv'
  <1> DEFINE k == ReadyNextFrame(core[p])
  <1>1. /\ core[p].result = "Running" /\ core' = [core EXCEPT ![p] = k]
        /\ SendsNoError(p) /\ UNCHANGED <<next_io_id, handles, todo, open, pending>>
    BY DEF PrepareFrame, CanPrepare, Selecting, Running, SendsNoError
  <1>2. Serves(IoIds, k, next_io_id[p], open[p])
    BY RunningFacts, WriteServes
  <1> HIDE DEF k
  <1> QED
    BY <1>1, <1>2, CoreStep

\* The event is taken by the user.
LEMMA DeliverKeeps ==
  ASSUME Types, NEW p \in Peers, NEW event, Deliver(p, event),
         event.kind = "NewRequest" => event.channel \in Channels /\ event.id \in Ids
  PROVE  /\ todo' \in [Peers -> [Channels -> SUBSET Ids]]
         /\ pending' \in [Peers -> SUBSET IoIds]
         /\ open' = [open EXCEPT ![p] = StillOpen(open[p], event)]
  <1> DEFINE t == [c \in Channels |->
                    IF event.kind = "NewRequest" /\ event.channel = c
                    THEN todo[p][c] \cup {event.id} ELSE todo[p][c]]
  <1>1. todo[p] \in [Channels -> SUBSET Ids] /\ todo \in [Peers -> [Channels -> SUBSET Ids]]
    BY DEF Types
  <1>2. t \in [Channels -> SUBSET Ids]
    BY <1>1
  <1>3. todo' = [todo EXCEPT ![p] = t]
    BY DEF Deliver
  <1> HIDE DEF t
  <1>4. todo' \in [Peers -> [Channels -> SUBSET Ids]]
    BY <1>1, <1>2, <1>3
  <1>5. open \in [Peers -> SUBSET IoIds] /\ pending \in [Peers -> SUBSET IoIds]
    BY DEF Types
  <1>6. CASE IsReply(event)
    <2>1. /\ open' = [open EXCEPT ![p] = @ \ {event.io_id}]
          /\ pending' = [pending EXCEPT ![p] = @ \ {event.io_id}]
      BY <1>6 DEF Deliver, IsReply
    <2> QED
      BY <1>4, <1>5, <1>6, <2>1 DEF StillOpen
  <1>7. CASE ~IsReply(event)
    <2>1. open' = open /\ pending' = pending
      BY <1>7 DEF Deliver, IsReply
    <2> QED
      BY <1>4, <1>5, <1>7, <2>1 DEF StillOpen
  <1> QED
    BY <1>6, <1>7

\* A frame is read and processed, and its event delivered.
LEMMA FrameKeeps ==
  ASSUME Inv, NEW p \in Peers, core[p].result = "Running", core[p].pending_error = NoFrame,
         SendsNoError(p), NEW f \in FramesOf(Kind \cup ErrorKind),
         core' = [core EXCEPT ![p] = FrameRead(core[p], f).core],
         Deliver(p, FrameRead(core[p], f).event), UNCHANGED <<next_io_id, handles>>
  PROVE  Inv'
  <1> DEFINE read == FrameRead(core[p], f)
             k == read.core
             o == StillOpen(open[p], read.event)
  <1>1. Types /\ Serves(IoIds, core[p], next_io_id[p], open[p])
    BY RunningFacts
  <1>2. core' = [core EXCEPT ![p] = k] /\ Deliver(p, read.event)
    OBVIOUS
  <1>3. /\ Serves(IoIds, k, next_io_id[p], o)
        /\ read.event.kind = "NewRequest" =>
             read.event.channel \in Channels /\ read.event.id \in Ids
    BY <1>1, ReadServes
  <1> HIDE DEF read
  <1>4. /\ todo' \in [Peers -> [Channels -> SUBSET Ids]]
        /\ pending' \in [Peers -> SUBSET IoIds]
        /\ open' = [open EXCEPT ![p] = o]
    BY <1>1, <1>2, <1>3, DeliverKeeps
  <1> HIDE DEF k, o
  <1>5. /\ Becomes(p, k, next_io_id[p], o) /\ next_io_id[p] \in 0 .. MaxRequests
        /\ handles' \in [Peers -> BOOLEAN]
    BY <1>1, <1>2, <1>4 DEF Becomes, Types
  <1> QED
    BY <1>3, <1>4, <1>5, PeerStep

\* A frame is read and parsed.
LEMMA ReadFrameKeeps ==
  ASSUME Inv, NEW p \in Peers, ReadFrame(p)
  PROVE  Inv'
  <1> DEFINE f == Head(net[p])
  <1>1. /\ core[p].result = "Running" /\ core[p].pending_error = NoFrame
        /\ net[p] # <<>> /\ UNCHANGED <<next_io_id, handles>>
        /\ SendsNoError(p) /\ f # Torn
    BY DEF ReadFrame, CanRead, Running, SendsNoError
  <1>2. f \in WireFrames
    BY <1>1, RunningFacts, HeadTailProperties DEF Types
  <1>3. f \in FramesOf(Kind \cup ErrorKind)
    BY <1>1, <1>2 DEF WireFrames
  <1>4. /\ core' = [core EXCEPT ![p] = FrameRead(core[p], f).core]
        /\ Deliver(p, FrameRead(core[p], f).event)
    BY DEF ReadFrame
  <1> HIDE DEF f
  <1> QED
    BY <1>1, <1>3, <1>4, FrameKeeps

\* Bytes taken for a frame make one that could have been sent.
LEMMA StrayFrameType ==
  ASSUME NEW k \in CoreStates(IoIds), NEW h \in StrayHeaders,
         NEW payload \in Nat \cup {NoPayload}
  PROVE  StrayFrame(k, h, payload) \in FramesOf(Kind \cup ErrorKind)
  <1> DEFINE rcv == k.juliet[h.channel].current_multiframe_receiver
             kinds == Kind \cup ErrorKind
             total == rcv.total
             received == rcv.received
             zero == 0
  <1>1. h \in MessageHeaders(kinds) /\ h.channel \in Channels
    BY PeersAssumption DEF MessageHeaders
  <1>2. k.juliet[h.channel] \in ChannelStates
    BY <1>1 DEF CoreStates
  <1>3. total \in Nat \cup {NoPayload} /\ received \in Int /\ zero \in Int
    BY <1>2 DEF ChannelStates, Receivers
  <1>4. \/ StrayFrame(k, h, payload) =
             NextFrame([header |-> h, payload |-> total, processed |-> received])
        \/ StrayFrame(k, h, payload) =
             NextFrame([header |-> h, payload |-> payload, processed |-> zero])
    BY DEF StrayFrame, Frames
  <1> HIDE DEF kinds, total, received, zero
  <1>5. /\ NextFrame([header |-> h, payload |-> total, processed |-> received])
             \in FramesOf(kinds)
        /\ NextFrame([header |-> h, payload |-> payload, processed |-> zero])
             \in FramesOf(kinds)
    BY <1>1, <1>3, MessageFrames
  <1> QED
    BY <1>4, <1>5 DEF kinds

\* Bytes are read that make another frame than the one that was sent, or none.
LEMMA ReadTornKeeps ==
  ASSUME Inv, NEW p \in Peers, ReadTorn(p)
  PROVE  Inv'
  <1>1. /\ core[p].result = "Running" /\ core[p].pending_error = NoFrame
        /\ UNCHANGED <<next_io_id, handles>> /\ SendsNoError(p)
    BY DEF ReadTorn, CanRead, Running, SendsNoError
  <1>2. /\ Types /\ Serves(IoIds, core[p], next_io_id[p], open[p])
        /\ core[p] \in CoreStates(IoIds)
    BY RunningFacts DEF Types
  <1>3. CASE \E h \in StrayHeaders :
             \E payload \in IF h.kind \in {"RequestPl", "ResponsePl"} THEN StrayPayloads
                            ELSE {NoPayload} :
               LET f == StrayFrame(core[p], h, payload)
               IN  /\ core' = [core EXCEPT ![p] = FrameRead(core[p], f).core]
                   /\ Deliver(p, FrameRead(core[p], f).event)
    <2>1. PICK h \in StrayHeaders, payload \in StrayPayloads \cup {NoPayload} :
               LET f == StrayFrame(core[p], h, payload)
               IN  /\ core' = [core EXCEPT ![p] = FrameRead(core[p], f).core]
                   /\ Deliver(p, FrameRead(core[p], f).event)
      BY <1>3
    <2> DEFINE f == StrayFrame(core[p], h, payload)
    <2>2. payload \in Nat \cup {NoPayload}
      BY PeersAssumption
    <2>3. f \in FramesOf(Kind \cup ErrorKind)
      BY <1>2, <2>2, StrayFrameType
    <2>4. /\ core' = [core EXCEPT ![p] = FrameRead(core[p], f).core]
          /\ Deliver(p, FrameRead(core[p], f).event)
      BY <2>1
    <2> HIDE DEF f
    <2> QED
      BY <1>1, <2>3, <2>4, FrameKeeps
  <1>4. CASE /\ core' = [core EXCEPT ![p] = HeaderRejected(core[p])]
             /\ UNCHANGED <<todo, open, pending>>
    <2> DEFINE k == HeaderRejected(core[p])
               kind == "InvalidHeader"
               zero == 0
               read == [core |-> k, event |-> NoEvent]
    <2>1. kind \in ErrorKind /\ zero \in Channels /\ zero \in Ids
      BY PeersAssumption, WireAssumption DEF ErrorKind, Channels, Ids
    <2>2. /\ Consistent(IoIds, Ledger(core[p].receiver, open[p], next_io_id[p], {}), core[p])
          /\ open[p] \in SUBSET IoIds /\ next_io_id[p] \in Nat /\ Aside(core[p], core[p])
      BY <1>2, ServesLedger DEF Types, Aside
    <2>3. k = [InjectError(core[p], Header(kind, zero, zero), NoPayload)
                  EXCEPT !.fell_through = TRUE]
      BY DEF HeaderRejected
    <2> HIDE DEF k, kind, zero
    <2>4. ReadOK(IoIds, open[p], next_io_id[p], core[p], read)
      BY <1>1, <2>1, <2>2, <2>3, FatalReadOK
    <2>5. Serves(IoIds, k, next_io_id[p], open[p])
      BY <1>2, <2>4 DEF ReadOK, Serves, StillOpen, IsReply, NoEvent, Event
    <2>6. core' = [core EXCEPT ![p] = k]
      BY <1>4 DEF k
    <2> QED
      BY <1>1, <1>4, <2>5, <2>6, CoreStep
  <1> QED
    BY <1>3, <1>4 DEF ReadTorn

\* The peer has hung up.
LEMMA ReadEofKeeps ==
  ASSUME Inv, NEW p \in Peers, ReadEof(p)
  PROVE  Inv'
  <1> DEFINE result == "Shutdown"
  <1>1. /\ core[p].result = "Running" /\ SendsNoError(p)
        /\ core' = [core EXCEPT ![p] = Ended(@, result)]
        /\ UNCHANGED <<next_io_id, handles, todo, open, pending>>
        /\ result \in Results /\ result \notin {"Running", "InternalError"}
    BY DEF ReadEof, CanReadEof, Selecting, Running, SendsNoError, Results
  <1> HIDE DEF result
  <1> QED
    BY <1>1, EndKeeps

\* The receive branch of select!.
LEMMA ReceiveItemsKeeps ==
  ASSUME Inv, NEW p \in Peers, ReceiveItems(p)
  PROVE  Inv'
  <1> DEFINE dropped == ~handles[p]
             k == ItemsReceived(core[p], dropped)
  <1>1. /\ core[p].result = "Running" /\ core' = [core EXCEPT ![p] = k]
        /\ SendsNoError(p) /\ UNCHANGED <<next_io_id, handles, todo, open, pending>>
    BY DEF ReceiveItems, CanReceive, Selecting, Running, SendsNoError
  <1> HIDE DEF dropped
  <1>2. Serves(IoIds, k, next_io_id[p], open[p])
    BY RunningFacts, ReceiveServes
  <1> HIDE DEF k
  <1> QED
    BY <1>1, <1>2, CoreStep

\* The error is written, and the core ends.
LEMMA ErrorWrittenKeeps ==
  ASSUME Inv, NEW p \in Peers, core[p].result = "Running",
         NEW e \in FramesOf(ErrorKind),
         net' = [net EXCEPT ![Other(p)] = Append(@, e)],
         core' = [core EXCEPT ![p] = Ended(@, "RemoteProtocolViolation")],
         UNCHANGED <<next_io_id, handles, todo, open, pending>>
  PROVE  Inv'
  <1> DEFINE o == Other(p)
             result == "RemoteProtocolViolation"
             k == Ended(core[p], result)
             s == net[o]
  <1>1. o \in Peers /\ o # p /\ Other(o) = p /\ \A q \in Peers : q = p \/ q = o
    BY PeerFacts
  <1>2. /\ Types /\ AllServe /\ LastOK(s, "Running") /\ LastOK(net[p], core[o].result)
        /\ s \in Seq(WireFrames) /\ net[p] \in Seq(WireFrames)
        /\ net \in [Peers -> Seq(WireFrames)]
    BY <1>1, ErrorsByPeer DEF Inv, Types
  <1>3. e \in WireFrames
    BY FrameKinds
  <1>4. Serves(IoIds, k, next_io_id[p], open[p]) /\ k.result = result
    <2>1. result \in Results /\ result \notin {"Running", "InternalError"}
      BY DEF Results
    <2>2. CoreOK(IoIds, core[p])
      BY RunningFacts, ServesLedger
    <2> HIDE DEF result
    <2> QED
      BY <2>1, <2>2, RunningFacts, EndedServes, EndedOK
  <1>5. core' = [core EXCEPT ![p] = k]
    OBVIOUS
  <1>6. LastOK(Append(s, e), result) /\ Append(s, e) \in Seq(WireFrames)
    BY <1>2, <1>3, LastError, AppendProperties
  <1>7. /\ net' \in [Peers -> Seq(WireFrames)]
        /\ net'[o] = Append(s, e) /\ net'[p] = net[p]
    <2>1. net' = [net EXCEPT ![o] = Append(s, e)]
      OBVIOUS
    <2> HIDE DEF o
    <2> QED
      BY <1>1, <1>2, <1>6, <2>1
  <1> HIDE DEF k, s, result
  <1>8. Becomes(p, k, next_io_id[p], open[p]) /\ next_io_id[p] \in 0 .. MaxRequests
    BY <1>2, <1>5, OnlyCore
  <1>9. /\ core' \in [Peers -> CoreStates(IoIds)]
        /\ next_io_id' \in [Peers -> 0 .. MaxRequests]
        /\ open' \in [Peers -> SUBSET IoIds]
        /\ AllServe'
        /\ core'[p] = k /\ \A q \in Peers \ {p} : core'[q] = core[q]
    BY <1>2, <1>4, <1>8, StepServes
  <1>10. LastOK(net'[o], core'[p].result) /\ LastOK(net'[p], core'[o].result)
    BY <1>1, <1>2, <1>4, <1>6, <1>7, <1>9
  <1> HIDE DEF o
  <1>11. ErrorIsLast'
    BY <1>1, <1>10, ErrorsByPeerNext DEF o
  <1> QED
    BY <1>2, <1>7, <1>9, <1>11 DEF Inv, Types

\* What is taken for frames is a sequence of frames that are no errors.
LEMMA TornFramesType ==
  ASSUME NEW k, NEW t \in TornFrames(k)
  PROVE  t \in Seq({Torn})
  <1> DEFINE most == (FrameSize(k.current_frame.frame) - 1
                        + FrameSize(k.pending_error.frame)) \div HeaderSize
  <1>1. PICK n \in 0 .. most : t = [i \in 1 .. n |-> Torn]
    BY DEF TornFrames
  <1> HIDE DEF most
  <1>2. n \in Nat
    OBVIOUS
  <1>3. t \in [1 .. n -> {Torn}]
    BY <1>1
  <1> QED
    BY <1>2, <1>3, IsASeq

\* The start of the loop of next_event, with an error to send.
LEMMA SendPendingErrorKeeps ==
  ASSUME Inv, NEW p \in Peers, SendPendingError(p)
  PROVE  Inv'
  <1> DEFINE e == core[p].pending_error.frame
             o == Other(p)
  <1>1. /\ core[p].result = "Running"
        /\ UNCHANGED <<next_io_id, handles, todo, open, pending>>
        /\ e \in FramesOf(ErrorKind)
    BY RunningFacts DEF SendPendingError, CanSendError, Running
  <1>2. \/ /\ net' = [net EXCEPT ![o] = Append(net[o], e)]
           /\ core' = [core EXCEPT ![p] = Ended(core[p], "RemoteProtocolViolation")]
        \/ /\ \E result \in {"RemoteProtocolViolation", "WriteFailed", "ErrorWriteTimeout"} :
                core' = [core EXCEPT ![p] = Ended(core[p], result)]
           /\ \/ net' = net
              \/ \E t \in TornFrames(core[p]) : net' = [net EXCEPT ![o] = net[o] \o t]
    BY DEF SendPendingError
  <1> HIDE DEF e
  <1>3. CASE /\ net' = [net EXCEPT ![o] = Append(net[o], e)]
             /\ core' = [core EXCEPT ![p] = Ended(core[p], "RemoteProtocolViolation")]
    BY <1>1, <1>3, ErrorWrittenKeeps
  <1>4. CASE /\ \E result \in {"RemoteProtocolViolation", "WriteFailed", "ErrorWriteTimeout"} :
                  core' = [core EXCEPT ![p] = Ended(core[p], result)]
             /\ \/ net' = net
                \/ \E t \in TornFrames(core[p]) : net' = [net EXCEPT ![o] = net[o] \o t]
    <2>1. PICK result \in {"RemoteProtocolViolation", "WriteFailed", "ErrorWriteTimeout"} :
                  core' = [core EXCEPT ![p] = Ended(core[p], result)]
      BY <1>4
    <2>2. result \in Results /\ result \notin {"Running", "InternalError"}
      BY DEF Results
    <2>3. SendsNoError(p)
      BY <1>4, TornFramesType DEF SendsNoError
    <2> QED
      BY <1>1, <2>1, <2>2, <2>3, EndKeeps
  <1> QED
    BY <1>2, <1>3, <1>4

\* A frame of a peer that runs other code.
LEMMA ForeignFrameKeeps ==
  ASSUME Inv, NEW p \in Peers, NEW kind \in ForeignKinds, NEW c \in Channels, NEW id \in Ids,
         ForeignFrame(p, kind, c, id)
  PROVE  Inv'
  <1> DEFINE q == Other(p)
             h == Header(kind, c, id)
             f == NextFrame(Frames(h, NoPayload))
             k == core[q]
  <1>1. q \in Peers /\ Other(q) = p
    BY PeerFacts
  <1>2. /\ k.result = "Running" /\ net' = [net EXCEPT ![p] = Append(net[p], f)]
        /\ UNCHANGED <<core, next_io_id, handles, todo, open, pending>>
    BY DEF ForeignFrame, Running
  <1>3. f \in FramesOf(Kind)
    <2>1. h \in MessageHeaders(Kind)
      BY PeersAssumption DEF Header, MessageHeaders
    <2> DEFINE none == NoPayload
               zero == 0
    <2>2. /\ none \in Nat \cup {NoPayload} /\ zero \in Int
          /\ f = NextFrame([header |-> h, payload |-> none, processed |-> zero])
      BY DEF Frames
    <2> HIDE DEF h, f, none, zero
    <2> QED
      BY <2>1, <2>2, MessageFrames
  <1>4. f \in WireFrames /\ f.header.kind \notin ErrorKind
    BY <1>3, FrameKinds
  <1> HIDE DEF f
  <1>5. SendsNoError(q)
    BY <1>1, <1>2, <1>4 DEF SendsNoError
  <1>6. core' = [core EXCEPT ![q] = k] /\ Serves(IoIds, k, next_io_id[q], open[q])
    BY <1>1, <1>2, RunningFacts DEF Types
  <1> HIDE DEF k, q
  <1>7. k = core[q]
    BY DEF k
  <1> QED
    BY <1>1, <1>2, <1>5, <1>6, <1>7, CoreStep

-----------------------------------------------------------------------------
(* The theorems.                                                            *)

\* Two new cores.
LEMMA InitInv == Init => Inv
  <1> SUFFICES ASSUME Init PROVE Inv
    OBVIOUS
  <1>1. Serves(IoIds, NewCore, 0, {}) /\ NewCore \in CoreStates(IoIds)
    BY NewServes, ServesLedger DEF CoreOK
  <1>2. <<>> \in Seq(WireFrames)
    BY EmptySeq
  <1>3. Types
    BY <1>1, <1>2, PeersAssumption DEF Init, Types
  <1>4. AllServe
    BY <1>1 DEF Init, AllServe
  <1>5. ErrorIsLast
    BY DEF Init, ErrorIsLast
  <1> QED
    BY <1>3, <1>4, <1>5 DEF Inv

\* Every step of either peer keeps the invariant.
LEMMA NextInv == Inv /\ [Next]_vars => Inv'
  <1> SUFFICES ASSUME Inv, [Next]_vars PROVE Inv'
    OBVIOUS
  <1>1. CASE UNCHANGED vars
    BY <1>1 DEF vars, Inv, Types, AllServe, ErrorIsLast
  <1>2. ASSUME NEW p \in Peers, User(p) PROVE Inv'
    BY <1>2, EnqueueRequestKeeps, EnqueueRequestCancellationKeeps, EnqueueErrorKeeps,
       DropHandlesKeeps DEF User
  <1>3. ASSUME NEW p \in Peers, Answer(p) PROVE Inv'
    BY <1>3, EnqueueResponseKeeps, EnqueueResponseCancellationKeeps DEF Answer
  <1>4. ASSUME NEW p \in Peers, Core(p) PROVE Inv'
    BY <1>4, WriteFrameKeeps, PrepareFrameKeeps, ReadFrameKeeps, ReadTornKeeps,
       ReadEofKeeps, ReceiveItemsKeeps, SendPendingErrorKeeps DEF Core
  <1>5. ASSUME NEW p \in Peers, Foreign(p) PROVE Inv'
    BY <1>5, ForeignFrameKeeps, PeersAssumption DEF Foreign
  <1> QED
    BY <1>1, <1>2, <1>3, <1>4, <1>5 DEF Next

\* The invariant holds in every state.
LEMMA SpecInv == Spec => []Inv
  BY InitInv, NextInv, PTL DEF Spec

\* The cores of io.rs and the queues between them have their types, whatever the
\* users and a peer that breaks the protocol do.
THEOREM IoTypes == Spec => []TypeOK
  <1>1. ASSUME Inv PROVE TypeOK
    <2>1. Types
      BY <1>1 DEF Inv
    <2>2. \A p \in Peers : core[p] \in CoreStates(IoIds)
      BY <2>1 DEF Types
    <2> QED
      BY <2>1, <2>2 DEF TypeOK, Types, CoreStates, Mappings
  <1> QED
    BY <1>1, SpecInv, PTL

\* The permits of IoShared::buffered_requests are conserved: what is missing from
\* the buffer of a channel is held by requests that have not been sent, also when
\* inject_error drops them.
THEOREM BufferPermitsConserved == Spec => []PermitsConserved
  <1>1. ASSUME Inv PROVE PermitsConserved
    <2> SUFFICES ASSUME NEW p \in Peers, Running(p), NEW c \in Channels
                 PROVE  core[p].buffered_requests[c]
                          + Cardinality(RequestsIn(core[p].receiver, c))
                          + Cardinality(RequestsIn(core[p].wait_queue[c], c)) = BufferSize[c]
      BY DEF PermitsConserved
    <2> DEFINE l == Ledger(core[p].receiver, open[p], next_io_id[p], {})
    <2>1. Consistent(IoIds, l, core[p])
      BY <1>1, RunningFacts, ServesLedger
    <2>2. l.num[c] = NumRequests(core[p].receiver, c)
      BY DEF Ledger
    <2> HIDE DEF l
    <2>3. Permits(l, core[p])
      BY <2>1 DEF Consistent, Running
    <2> QED
      BY <2>2, <2>3 DEF Permits, NumRequests
  <1> QED
    BY <1>1, SpecInv, PTL

\* The error a core sends (custom_error, or the outcome of process_incoming) is the
\* last frame it sends.
THEOREM ErrorsComeLast == Spec => []ErrorIsLast
  <1>1. Inv => ErrorIsLast
    BY DEF Inv
  <1> QED
    BY <1>1, SpecInv, PTL

\* As long as no ID is used twice, no request is lost between the queues and the map
\* of send_to_ready_queue and handle_completed_read, and no answer goes to another.
THEOREM NoRequestLost ==
  ASSUME MaxRequests < IdCount
  PROVE  Spec => []RequestsMapped
  <1>1. ASSUME Inv PROVE RequestsMapped
    <2> SUFFICES ASSUME NEW p \in Peers, Running(p), core[p].pending_error = NoFrame
                 PROVE  LET waiting == QueuedIoIds(core[p].receiver)
                              \cup UNION {QueuedIoIds(core[p].wait_queue[c]) : c \in Channels}
                            mapped  == {m.io_id : m \in core[p].request_map}
                        IN  /\ open[p] = waiting \cup mapped
                            /\ waiting \cap mapped = {}
                            /\ {<<m.channel, m.id>> : m \in core[p].request_map} =
                                 UNION {{<<c, id>> : id \in core[p].juliet[c].outgoing_requests} :
                                           c \in Channels}
      BY DEF RequestsMapped
    <2> DEFINE k == core[p]
               n == next_io_id[p]
               o == open[p]
    <2>1. n < IdCount
      BY <1>1, PeersAssumption, WireAssumption DEF Inv, Types
    <2>2. Serves(IoIds, k, n, o) /\ k.result = "Running" /\ k.pending_error = NoFrame
      BY <1>1, RunningFacts DEF Running
    <2> HIDE DEF k, n, o
    <2>3. LET waiting == QueuedIoIds(k.receiver)
                             \cup UNION {QueuedIoIds(k.wait_queue[c]) : c \in Channels}
              mapped  == {m.io_id : m \in k.request_map}
          IN  /\ o = waiting \cup mapped
              /\ waiting \cap mapped = {}
              /\ {<<m.channel, m.id>> : m \in k.request_map} =
                   UNION {{<<c, id>> : id \in k.juliet[c].outgoing_requests} : c \in Channels}
      BY <2>1, <2>2, BooksKept
    <2> QED
      BY <2>3 DEF k, o
  <1> QED
    BY <1>1, SpecInv, PTL

\* Under the same condition handle_completed_read finds every request that the
\* protocol lets an answer through for: the error "that should be impossible" is,
\* also if the peer answers what it was not asked.
THEOREM InternalErrorImpossible ==
  ASSUME MaxRequests < IdCount
  PROVE  Spec => []NoInternalError
  <1>1. ASSUME Inv PROVE NoInternalError
    <2> SUFFICES ASSUME NEW p \in Peers PROVE core[p].result # "InternalError"
      BY DEF NoInternalError
    <2> DEFINE l == Ledger(core[p].receiver, open[p], next_io_id[p], {})
    <2>1. Consistent(IoIds, l, core[p])
      BY <1>1, RunningFacts, ServesLedger
    <2>2. l.limit = next_io_id[p]
      BY DEF Ledger
    <2> HIDE DEF l
    <2>3. l.limit < IdCount
      BY <1>1, <2>2, PeersAssumption, WireAssumption DEF Inv, Types
    <2> QED
      BY <2>1, <2>3 DEF Consistent
  <1> QED
    BY <1>1, SpecInv, PTL

=============================================================================
