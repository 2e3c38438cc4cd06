---------------------------- MODULE IoCoreProofs ----------------------------
(***************************************************************************)
(* What the steps of next_event do to an IoCore, for every configuration:  *)
(* its fields keep their types, its permits are conserved, and every       *)
(* request is queued or mapped to the ID it was sent with.                 *)
(***************************************************************************)
EXTENDS IoCore, ChannelProofs, SequenceTheorems, LoopProofs

-----------------------------------------------------------------------------
(* Queues of items.                                                         *)

\* How many requests for channel c are in a queue.
NumRequests(queue, c) == Cardinality(RequestsIn(queue, c))

\* An item that is a request for channel c counts as one.
Counts(item, c) == IF IsRequest(item) /\ item.channel = c THEN 1 ELSE 0

\* The number of requests in a queue is a number.
LEMMA CountType ==
  ASSUME NEW S, NEW q \in Seq(S), NEW c
  PROVE  /\ IsFiniteSet(RequestsIn(q, c))
         /\ NumRequests(q, c) \in Nat
  <1>1. RequestsIn(q, c) \subseteq 1 .. Len(q) /\ Len(q) \in Nat
    BY LenProperties DEF RequestsIn
  <1>2. IsFiniteSet(1 .. Len(q))
    BY <1>1, FS_Interval
  <1> QED
    BY <1>1, <1>2, FS_Subset, FS_CardinalityType DEF NumRequests

\* There is no request in an empty queue.
LEMMA CountEmpty ==
  ASSUME NEW c
  PROVE  NumRequests(<<>>, c) = 0
  <1>1. RequestsIn(<<>>, c) = {}
    BY DEF RequestsIn
  <1> QED
    BY <1>1, EmptyCardinality DEF NumRequests

\* Putting an item at the end of a queue.
LEMMA CountAppend ==
  ASSUME NEW S, NEW q \in Seq(S), NEW x \in S, NEW c
  PROVE  NumRequests(Append(q, x), c) = NumRequests(q, c) + Counts(x, c)
  <1> DEFINE a == Append(q, x)
             n == Len(q) + 1
  <1>1. /\ a \in Seq(S) /\ Len(a) = n /\ a[n] = x
        /\ \A i \in 1 .. Len(q) : a[i] = q[i]
    BY AppendProperties
  <1>2. Len(q) \in Nat /\ DOMAIN q = 1 .. Len(q) /\ DOMAIN a = 1 .. n
    BY <1>1, LenProperties
  <1> HIDE DEF a
  <1>3. CASE IsRequest(x) /\ x.channel = c
    <2>1. RequestsIn(a, c) = RequestsIn(q, c) \cup {n} /\ n \notin RequestsIn(q, c)
      BY <1>1, <1>2, <1>3 DEF RequestsIn
    <2> QED
      BY <1>3, <2>1, CountType, FS_AddElement DEF NumRequests, Counts, a
  <1>4. CASE ~(IsRequest(x) /\ x.channel = c)
    <2>1. RequestsIn(a, c) = RequestsIn(q, c)
      BY <1>1, <1>2, <1>4 DEF RequestsIn
    <2>2. NumRequests(q, c) \in Nat
      BY CountType
    <2> QED
      BY <1>4, <2>1, <2>2 DEF NumRequests, Counts, a
  <1> QED
    BY <1>3, <1>4

\* Taking an item off the front of a queue.
LEMMA CountTail ==
  ASSUME NEW S, NEW q \in Seq(S), q # <<>>, NEW c
  PROVE  NumRequests(q, c) = NumRequests(Tail(q), c) + Counts(Head(q), c)
  <1> DEFINE t == Tail(q)
             A == RequestsIn(q, c) \ {1}
             B == RequestsIn(t, c)
  <1>1. /\ Head(q) \in S /\ t \in Seq(S) /\ Len(t) = Len(q) - 1
        /\ \A i \in 1 .. Len(t) : t[i] = q[i + 1]
    BY HeadTailProperties
  <1>2. /\ Len(q) \in Nat \ {0} /\ DOMAIN q = 1 .. Len(q) /\ DOMAIN t = 1 .. Len(t)
        /\ Head(q) = q[1]
    BY <1>1, LenProperties, EmptySeq
  <1> HIDE DEF t
  <1>3. IsFiniteSet(A) /\ IsFiniteSet(B) /\ IsFiniteSet(RequestsIn(q, c))
    BY <1>1, CountType, FS_Subset
  <1>4. Cardinality(A) = Cardinality(B)
    <2> DEFINE f == [i \in A |-> i - 1]
    <2>1. A \subseteq 2 .. Len(q)
      BY <1>2 DEF RequestsIn
    <2>2. \A i \in A : i - 1 \in B
      BY <1>1, <1>2, <2>1 DEF RequestsIn
    <2>3. \A j \in B : j + 1 \in A /\ (j + 1) - 1 = j
      BY <1>1, <1>2 DEF RequestsIn
    <2>4. f \in Bijection(A, B)
      <3> HIDE DEF A, B
      <3>1. f \in [A -> B]
        BY <2>2
      <3>2. \A i, j \in A : f[i] = f[j] => i = j
        BY <2>1
      <3>3. \A j \in B : \E i \in A : f[i] = j
        BY <2>3
      <3> QED
        BY <3>1, <3>2, <3>3 DEF Bijection, Injection, Surjection, IsInjective
    <2> QED
      BY <1>3, <2>4, FS_Bijection DEF ExistsBijection
  <1>5. CASE IsRequest(q[1]) /\ q[1].channel = c
    <2>1. RequestsIn(q, c) = A \cup {1} /\ 1 \notin A
      BY <1>2, <1>5 DEF RequestsIn
    <2>2. Cardinality(RequestsIn(q, c)) = Cardinality(A) + 1
      BY <1>3, <2>1, FS_AddElement
    <2>3. NumRequests(t, c) \in Nat
      BY <1>1, CountType
    <2> QED
      BY <1>2, <1>4, <1>5, <2>2, <2>3 DEF NumRequests, Counts, t
  <1>6. CASE ~(IsRequest(q[1]) /\ q[1].channel = c)
    <2>1. RequestsIn(q, c) = A
      BY <1>6 DEF RequestsIn
    <2>2. NumRequests(t, c) \in Nat
      BY <1>1, CountType
    <2>3. NumRequests(q, c) = NumRequests(t, c)
      BY <1>4, <2>1 DEF NumRequests
    <2>4. Counts(Head(q), c) = 0
      BY <1>2, <1>6 DEF Counts
    <2> QED
      BY <2>2, <2>3, <2>4 DEF t
  <1> QED
    BY <1>5, <1>6

\* No two requests in a queue have the same IoId.
Distinct(queue) ==
    \A i, j \in DOMAIN queue :
        IsRequest(queue[i]) /\ IsRequest(queue[j]) /\ queue[i].io_id = queue[j].io_id => i = j

\* The IoId an item brings, if it is a request.
IoIdOf(item) == IF IsRequest(item) THEN {item.io_id} ELSE {}

\* The IoIds in a queue are those at its places.
LEMMA QueuedByPlace ==
  ASSUME NEW S, NEW q \in Seq(S)
  PROVE  \A x : x \in QueuedIoIds(q) <=> \E i \in DOMAIN q : IsRequest(q[i]) /\ q[i].io_id = x
  BY DEF QueuedIoIds, ToSet

\* There are no IoIds in an empty queue.
LEMMA IoIdsEmpty == QueuedIoIds(<<>>) = {} /\ Distinct(<<>>)
  BY DEF QueuedIoIds, ToSet, Distinct

\* Putting an item at the end of a queue.
LEMMA IoIdsAppend ==
  ASSUME NEW S, NEW q \in Seq(S), NEW x \in S
  PROVE  /\ QueuedIoIds(Append(q, x)) = QueuedIoIds(q) \cup IoIdOf(x)
         /\ Distinct(q) /\ IoIdOf(x) \cap QueuedIoIds(q) = {} => Distinct(Append(q, x))
  <1> DEFINE a == Append(q, x)
             n == Len(q) + 1
  <1>1. /\ a \in Seq(S) /\ Len(a) = n /\ a[n] = x
        /\ \A i \in 1 .. Len(q) : a[i] = q[i]
    BY AppendProperties
  <1>2. /\ Len(q) \in Nat /\ DOMAIN q = 1 .. Len(q) /\ DOMAIN a = 1 .. n
        /\ DOMAIN a = DOMAIN q \cup {n} /\ n \notin DOMAIN q
    BY <1>1, LenProperties
  <1> HIDE DEF a, n
  <1>3. \A y : y \in QueuedIoIds(a) <=> y \in QueuedIoIds(q) \cup IoIdOf(x)
    <2>1. \A i \in DOMAIN q : i \in DOMAIN a /\ a[i] = q[i]
      BY <1>1, <1>2
    <2>2. \A i \in DOMAIN a : i \in DOMAIN q \/ a[i] = x
      BY <1>1, <1>2
    <2>3. n \in DOMAIN a /\ a[n] = x
      BY <1>1, <1>2
    <2>4. ASSUME NEW y \in QueuedIoIds(a) PROVE y \in QueuedIoIds(q) \cup IoIdOf(x)
      <3>1. PICK i \in DOMAIN a : IsRequest(a[i]) /\ a[i].io_id = y
        BY <1>1, QueuedByPlace, Zenon
      <3>2. CASE i \in DOMAIN q
        <4>1. IsRequest(q[i]) /\ q[i].io_id = y
          BY <2>1, <3>1, <3>2, Zenon
        <4> QED
          BY <3>2, <4>1, QueuedByPlace, Zenon
      <3>3. CASE a[i] = x
        BY <3>1, <3>3, Zenon DEF IoIdOf
      <3> QED
        BY <2>2, <3>2, <3>3, Zenon
    <2>5. ASSUME NEW y \in QueuedIoIds(q) PROVE y \in QueuedIoIds(a)
      <3>1. PICK i \in DOMAIN q : IsRequest(q[i]) /\ q[i].io_id = y
        BY QueuedByPlace, Zenon
      <3>2. i \in DOMAIN a /\ IsRequest(a[i]) /\ a[i].io_id = y
        BY <2>1, <3>1, Zenon
      <3> QED
        BY <1>1, <3>2, QueuedByPlace, Zenon
    <2>6. ASSUME NEW y \in IoIdOf(x) PROVE y \in QueuedIoIds(a)
      <3>1. IsRequest(a[n]) /\ a[n].io_id = y
        BY <2>3, <2>6, Zenon DEF IoIdOf
      <3> QED
        BY <1>1, <2>3, <3>1, QueuedByPlace, Zenon
    <2> QED
      BY <2>4, <2>5, <2>6, Zenon
  <1>4. ASSUME Distinct(q), IoIdOf(x) \cap QueuedIoIds(q) = {} PROVE Distinct(a)
    <2>1. ASSUME NEW i \in DOMAIN q, IsRequest(x), IsRequest(q[i]) PROVE q[i].io_id # x.io_id
      BY <1>4, <2>1, QueuedByPlace DEF IoIdOf
    <2> QED
      BY <1>1, <1>2, <1>4, <2>1 DEF Distinct
  <1> QED
    BY <1>3, <1>4 DEF a

\* Taking an item off the front of a queue.
LEMMA IoIdsTail ==
  ASSUME NEW S, NEW q \in Seq(S), q # <<>>
  PROVE  /\ QueuedIoIds(q) = QueuedIoIds(Tail(q)) \cup IoIdOf(Head(q))
         /\ Distinct(q) => /\ Distinct(Tail(q))
                           /\ IoIdOf(Head(q)) \cap QueuedIoIds(Tail(q)) = {}
  <1> DEFINE t == Tail(q)
  <1>1. /\ Head(q) \in S /\ t \in Seq(S) /\ Len(t) = Len(q) - 1
        /\ \A i \in 1 .. Len(t) : t[i] = q[i + 1]
    BY HeadTailProperties
  <1>2. /\ Len(q) \in Nat \ {0} /\ DOMAIN q = 1 .. Len(q) /\ DOMAIN t = 1 .. Len(t)
        /\ Head(q) = q[1] /\ 1 \in DOMAIN q
    BY <1>1, LenProperties, EmptySeq
  <1> HIDE DEF t
  <1>3. /\ \A i \in DOMAIN t : i + 1 \in DOMAIN q /\ i + 1 # 1 /\ t[i] = q[i + 1]
        /\ \A i \in DOMAIN q : i = 1 \/ (i - 1 \in DOMAIN t /\ t[i - 1] = q[i])
    BY <1>1, <1>2
  <1>4. \A y : y \in QueuedIoIds(q) <=> y \in QueuedIoIds(t) \cup IoIdOf(Head(q))
    <2>1. ASSUME NEW y \in QueuedIoIds(q) PROVE y \in QueuedIoIds(t) \cup IoIdOf(Head(q))
      <3>1. PICK i \in DOMAIN q : IsRequest(q[i]) /\ q[i].io_id = y
        BY QueuedByPlace
      <3>2. CASE i = 1
        BY <1>2, <3>1, <3>2 DEF IoIdOf
      <3>3. CASE i - 1 \in DOMAIN t /\ t[i - 1] = q[i]
        <4>1. \E j \in DOMAIN t : IsRequest(t[j]) /\ t[j].io_id = y
          BY <3>1, <3>3
        <4> QED
          BY <1>1, <4>1, QueuedByPlace
      <3> QED
        BY <1>3, <3>2, <3>3
    <2>2. ASSUME NEW y \in QueuedIoIds(t) \cup IoIdOf(Head(q)) PROVE y \in QueuedIoIds(q)
      <3>1. CASE y \in QueuedIoIds(t)
        <4>1. PICK i \in DOMAIN t : IsRequest(t[i]) /\ t[i].io_id = y
          BY <1>1, <3>1, QueuedByPlace
        <4>2. i + 1 \in DOMAIN q /\ IsRequest(q[i + 1]) /\ q[i + 1].io_id = y
          BY <1>3, <4>1
        <4> QED
          BY <4>2, QueuedByPlace
      <3>2. CASE y \in IoIdOf(Head(q))
        BY <1>2, <3>2, QueuedByPlace DEF IoIdOf
      <3> QED
        BY <2>2, <3>1, <3>2
    <2> QED
      BY <2>1, <2>2
  <1>5. ASSUME Distinct(q) PROVE Distinct(t) /\ IoIdOf(Head(q)) \cap QueuedIoIds(t) = {}
    <2>1. Distinct(t)
      <3> SUFFICES ASSUME NEW i \in DOMAIN t, NEW j \in DOMAIN t,
                          IsRequest(t[i]), IsRequest(t[j]), t[i].io_id = t[j].io_id
                   PROVE  i = j
        BY DEF Distinct
      <3>1. i + 1 = j + 1
        BY <1>3, <1>5 DEF Distinct
      <3> QED
        BY <1>2, <3>1
    <2>2. ASSUME NEW y \in QueuedIoIds(t), y \in IoIdOf(Head(q)) PROVE FALSE
      <3>1. PICK i \in DOMAIN t : IsRequest(t[i]) /\ t[i].io_id = y
        BY <1>1, <2>2, QueuedByPlace
      <3>2. IsRequest(q[1]) /\ q[1].io_id = y
        BY <1>2, <2>2 DEF IoIdOf
      <3> QED
        BY <1>2, <1>3, <1>5, <3>1, <3>2 DEF Distinct
    <2> QED
      BY <2>1, <2>2
  <1> QED
    BY <1>4, <1>5 DEF t

-----------------------------------------------------------------------------
(* What the fields of a core hold.  W stands for the IoIds of its requests. *)

ItemKinds == {"Request", "RequestCancellation", "Response", "ResponseCancellation", "Error"}

Items(W) ==
    {item \in [kind : ItemKinds, channel : Nat, io_id : Nat, id : Ids,
               payload : Nat \cup {NoPayload}] :
        /\ item.kind # "RequestCancellation" => item.channel \in Channels
        /\ IsRequest(item) => item.io_id \in W}

\* The items that may have to wait, on their channel.
WaitItems(W, c) ==
    {item \in Items(W) : item.kind \in {"Request", "Response"} /\ item.channel = c}

MessageHeaders(kinds) == [kind : kinds, channel : Channels, id : Ids]

Messages == [header : MessageHeaders(Kind), payload : Nat \cup {NoPayload}, processed : Int]

\* The frames messages are cut into.
FramesOf(kinds) ==
    {f \in [header : MessageHeaders(kinds), len : Nat \cup {NoLen}, off : Nat, seg : Int] :
        f.len # NoLen => f.off \in 1 .. VarintMaxLen}

Mappings(W) == [io_id : W, channel : Channels, id : Ids]

\* What next_event can return last.
Results == {"Running", "Shutdown", "RemoteReportedError", "RemoteProtocolViolation",
            "LocalProtocolViolation", "InternalError", "Misread", "WriteFailed",
            "ErrorWriteTimeout"}

CoreStates(W) ==
    [juliet             : [Channels -> ChannelStates],
     receiver           : Seq(Items(W)),
     closed             : BOOLEAN,
     wait_queue         : [Channels -> Seq(Items(W))],
     ready_queue        : Seq(Messages),
     active_multi_frame : [Channels -> Headers],
     current_frame      : {NoFrame} \cup [frame : FramesOf(Kind), final : BOOLEAN],
     request_map        : SUBSET Mappings(W),
     buffered_requests  : [Channels -> Nat],
     pending_error      : {NoFrame} \cup [frame : FramesOf(ErrorKind), final : BOOLEAN],
     fell_through       : BOOLEAN,
     result             : Results]

\* A core with the fields it should have: its channels are within their bounds, and
\* what waits on a channel may.
CoreOK(W, core) ==
    /\ core \in CoreStates(W)
    /\ \A c \in Channels : ChannelOK(c, core.juliet[c])
    /\ \A c \in Channels : core.wait_queue[c] \in Seq(WaitItems(W, c))

\* A varint has one to five bytes.
LEMMA LengthOfRange == \A a \in Nat : LengthOf(a) \in 1 .. VarintMaxLen
  BY DEF LengthOf, VarintMaxLen

\* The headers of messages are headers.
LEMMA MessageHeaderFacts ==
  \A h \in MessageHeaders(Kind) : h \in Headers /\ h.channel \in Channels /\ h.id \in Ids
  <1> SUFFICES ASSUME NEW h \in MessageHeaders(Kind)
               PROVE  h \in Headers /\ h.channel \in Channels /\ h.id \in Ids
    OBVIOUS
  <1>1. Channels \subseteq Nat /\ Ids \subseteq Nat /\ Kind \subseteq Kind \cup {"None"}
    BY WireAssumption DEF Channels, Ids
  <1>2. h \in [kind : Kind, channel : Channels, id : Ids]
    BY DEF MessageHeaders
  <1> QED
    BY <1>1, <1>2 DEF Headers

\* Messages are cut into frames.
LEMMA MessageFrames ==
  ASSUME NEW kinds, NEW h \in MessageHeaders(kinds), NEW payload \in Nat \cup {NoPayload},
         NEW processed \in Int
  PROVE  LET msg == [header |-> h, payload |-> payload, processed |-> processed]
         IN  /\ NextFrame(msg) \in FramesOf(kinds)
             /\ NextFrame(msg).header = h
             /\ AfterFrame(msg) = [msg EXCEPT !.processed = processed + NextFrame(msg).seg]
             /\ AfterFrame(msg).processed \in Int
             /\ IsFinalFrame(msg) \in BOOLEAN
  <1> DEFINE msg == [header |-> h, payload |-> payload, processed |-> processed]
             f   == NextFrame(msg)
  <1>1. /\ f.header = h
        /\ f.len = IF payload # NoPayload /\ processed = 0 THEN payload ELSE NoLen
        /\ f.off = IF payload # NoPayload /\ processed = 0 THEN LengthOf(payload) ELSE 0
        /\ f \in [header : MessageHeaders(kinds), len : Nat \cup {NoLen}, off : Nat, seg : Int]
    BY LengthOfRange, WireAssumption
    DEF NextFrame, Least, VarintMaxLen, NoPayload, NoLen, HeaderSize
  <1>2. f \in FramesOf(kinds)
    BY <1>1, LengthOfRange DEF FramesOf, NoPayload, NoLen
  <1>3. f.seg \in Int
    BY <1>1
  <1> HIDE DEF f
  <1>4. AfterFrame(msg) = [msg EXCEPT !.processed = processed + f.seg]
    BY DEF AfterFrame, f
  <1>5. AfterFrame(msg).processed \in Int
    BY <1>3, <1>4
  <1>6. IsFinalFrame(msg) \in BOOLEAN
    BY DEF IsFinalFrame
  <1> QED
    BY <1>1, <1>2, <1>4, <1>5, <1>6 DEF f

\* NoFrame is no frame of a message.
LEMMA NoFrameFacts ==
  ASSUME NEW kinds, NEW f \in FramesOf(kinds), NEW final, "None" \notin kinds
  PROVE  [frame |-> f, final |-> final] # NoFrame
  BY DEF FramesOf, MessageHeaders, NoFrame, NextFrame, Frames, NoHeader, Header

\* The request that is sent next gets an ID.
LEMMA RequestIdChosen ==
  ASSUME NEW ch
  PROVE  (\E i \in Ids : IsNextRequestId(ch, i)) =>
             /\ (CHOOSE i \in Ids : IsNextRequestId(ch, i)) \in Ids
             /\ IsNextRequestId(ch, CHOOSE i \in Ids : IsNextRequestId(ch, i))
  OBVIOUS

-----------------------------------------------------------------------------
(* What sending an item does to a core.                                     *)

\* What every step of sending leaves alone.
Aside(core, core2) ==
    /\ core2.receiver = core.receiver
    /\ core2.current_frame = core.current_frame
    /\ core2.fell_through = core.fell_through

\* Nothing but the queue of messages and the incoming requests changes.
OnlyQueued(core, core2) ==
    /\ core2.wait_queue = core.wait_queue
    /\ core2.request_map = core.request_map
    /\ core2.buffered_requests = core.buffered_requests
    /\ core2.pending_error = core.pending_error
    /\ core2.result = core.result
    /\ \A c \in Channels :
         /\ core2.juliet[c].outgoing_requests = core.juliet[c].outgoing_requests
         /\ core2.juliet[c].prev_request_id = core.juliet[c].prev_request_id

\* A request is sent with this ID.
Sends(core, item, id, core2) ==
    LET c == item.channel
    IN  /\ IsRequest(item)
        /\ c \in Channels
        /\ AllowedToSendRequest(c, core.juliet[c])
        /\ id \in Ids /\ IsNextRequestId(core.juliet[c], id)
        /\ core2.wait_queue = core.wait_queue
        /\ core2.request_map = MapInsert(core.request_map, item.io_id, c, id)
        /\ core2.buffered_requests =
             [core.buffered_requests EXCEPT ![c] = core.buffered_requests[c] + 1]
        /\ core2.pending_error = core.pending_error
        /\ core2.result = core.result
        /\ \A d \in Channels \ {c} : core2.juliet[d] = core.juliet[d]
        /\ core2.juliet[c].outgoing_requests = core.juliet[c].outgoing_requests \cup {id}
        /\ core2.juliet[c].prev_request_id = id

\* An error is made the last thing to send.
Fails(core, core2) ==
    /\ core2.buffered_requests =
         [c \in Channels |-> core.buffered_requests[c] + NumRequests(core.wait_queue[c], c)]
    /\ core2.wait_queue = [c \in Channels |-> <<>>]
    /\ core2.pending_error # NoFrame
    /\ core2.closed
    /\ core2.result = core.result

\* Sending an item from a core that is running.
SendEffect(core, item, core2) ==
    /\ Aside(core, core2)
    /\ \/ core2.result \notin {"Running", "InternalError"}
       \/ ~IsRequest(item) /\ OnlyQueued(core, core2)
       \/ \E id \in Ids : Sends(core, item, id, core2)
       \/ item.kind = "Error" /\ Fails(core, core2)

\* Ending a core.
LEMMA EndedOK ==
  ASSUME NEW W, NEW core, CoreOK(W, core), NEW result \in Results
  PROVE  /\ CoreOK(W, Ended(core, result))
         /\ Ended(core, result).result = result
         /\ Aside(core, Ended(core, result))
         /\ Ended(core, result).pending_error = core.pending_error
  BY DEF CoreOK, CoreStates, Ended, Aside

\* Putting a message in the queue.
LEMMA EnqueueOK ==
  ASSUME NEW W, NEW core, CoreOK(W, core), NEW msg \in Messages
  PROVE  /\ CoreOK(W, Enqueue(core, msg))
         /\ OnlyQueued(core, Enqueue(core, msg))
         /\ Aside(core, Enqueue(core, msg))
  <1> DEFINE core2 == Enqueue(core, msg)
  <1>1. Append(core.ready_queue, msg) \in Seq(Messages)
    BY AppendProperties DEF CoreOK, CoreStates
  <1>2. core2 = [core EXCEPT !.ready_queue = Append(core.ready_queue, msg)]
    BY DEF Enqueue
  <1> HIDE DEF core2
  <1> QED
    BY <1>1, <1>2 DEF CoreOK, CoreStates, OnlyQueued, Aside, core2

\* Putting a message with a payload in the queue.
LEMMA EnqueuePayloadOK ==
  ASSUME NEW W, NEW core, CoreOK(W, core), NEW msg \in Messages
  PROVE  LET core2 == EnqueuePayload(core, msg)
         IN  /\ CoreOK(W, core2)
             /\ OnlyQueued(core, core2)
             /\ Aside(core, core2)
             /\ core2.juliet = core.juliet
             /\ core2.closed = core.closed
  <1> DEFINE core2 == EnqueuePayload(core, msg)
             a == [core.active_multi_frame EXCEPT ![msg.header.channel] =
                      IF PayloadIsMultiFrame(msg.payload) THEN msg.header
                      ELSE core.active_multi_frame[msg.header.channel]]
  <1>1. Append(core.ready_queue, msg) \in Seq(Messages)
    BY AppendProperties DEF CoreOK, CoreStates
  <1>2. a \in [Channels -> Headers]
    <2>1. msg.header \in Headers /\ msg.header.channel \in Channels
      BY MessageHeaderFacts DEF Messages
    <2>2. core.active_multi_frame \in [Channels -> Headers]
      BY DEF CoreOK, CoreStates
    <2> QED
      BY <2>1, <2>2
  <1>3. core2 = [core EXCEPT !.ready_queue = Append(core.ready_queue, msg),
                             !.active_multi_frame = a]
    BY DEF EnqueuePayload, CoreOK, CoreStates
  <1> HIDE DEF core2, a
  <1> QED
    BY <1>1, <1>2, <1>3 DEF CoreOK, CoreStates, OnlyQueued, Aside, core2

\* Changing the state of a channel.
LEMMA NewChannelState ==
  ASSUME NEW W, NEW core, CoreOK(W, core), NEW c \in Channels, NEW ch, ChannelOK(c, ch)
  PROVE  LET core2 == [core EXCEPT !.juliet[c] = ch]
         IN  /\ CoreOK(W, core2)
             /\ Aside(core, core2)
             /\ core2.wait_queue = core.wait_queue
             /\ core2.request_map = core.request_map
             /\ core2.buffered_requests = core.buffered_requests
             /\ core2.pending_error = core.pending_error
             /\ core2.result = core.result
             /\ core2.juliet[c] = ch
             /\ \A d \in Channels \ {c} : core2.juliet[d] = core.juliet[d]
  <1> DEFINE core2 == [core EXCEPT !.juliet[c] = ch]
             j == [core.juliet EXCEPT ![c] = ch]
  <1>1. j \in [Channels -> ChannelStates] /\ \A d \in Channels : ChannelOK(d, j[d])
    BY DEF CoreOK, CoreStates, ChannelOK
  <1>2. core2 = [core EXCEPT !.juliet = j]
    BY DEF CoreOK, CoreStates
  <1>3. j[c] = ch /\ \A d \in Channels \ {c} : j[d] = core.juliet[d]
    BY DEF CoreOK, CoreStates
  <1> HIDE DEF core2, j
  <1> QED
    BY <1>1, <1>2, <1>3 DEF CoreOK, CoreStates, Aside, core2

\* The messages that carry requests, answers and cancellations.
LEMMA NewMessages ==
  ASSUME NEW c \in Channels, NEW id \in Ids, NEW payload \in Nat \cup {NoPayload}
  PROVE  /\ RequestMsg(c, id, payload) \in Messages
         /\ ResponseMsg(c, id, payload) \in Messages
         /\ Frames(Header("CancelReq", c, id), NoPayload) \in Messages
         /\ Frames(Header("CancelResp", c, id), NoPayload) \in Messages
  BY DEF RequestMsg, ResponseMsg, Frames, Header, Messages, MessageHeaders, Kind, NoPayload

\* The item of a request, or of an answer.
LEMMA ItemFacts ==
  ASSUME NEW W, NEW item \in Items(W)
  PROVE  /\ item.kind \in ItemKinds /\ item.channel \in Nat /\ item.io_id \in Nat
         /\ item.id \in Ids /\ item.payload \in Nat \cup {NoPayload}
         /\ item.kind # "RequestCancellation" => item.channel \in Channels
         /\ IsRequest(item) => item.io_id \in W
  BY DEF Items

\* BiMap::insert adds the new pair.
LEMMA MapInsertType ==
  ASSUME NEW W, NEW map \in SUBSET Mappings(W), NEW io_id \in W, NEW c \in Channels, NEW id \in Ids
  PROVE  MapInsert(map, io_id, c, id) \in SUBSET Mappings(W)
  BY DEF MapInsert, Mappings

\* There is an ID for a request that may be sent.
LEMMA NextIdExists ==
  ASSUME NEW c \in Channels, NEW ch, ChannelOK(c, ch), AllowedToSendRequest(c, ch)
  PROVE  \E i \in Ids : IsNextRequestId(ch, i)
  <1> DEFINE free == Ids \ ch.outgoing_requests
             used == {Probes(ch, i) : i \in free}
  <1>1. /\ ch.outgoing_requests \in SUBSET Ids /\ ch.prev_request_id \in Ids
        /\ Cardinality(ch.outgoing_requests) < IdCount - 1
        /\ IsFiniteSet(ch.outgoing_requests)
    <2>1. /\ ch.outgoing_requests \in SUBSET Ids /\ ch.prev_request_id \in Ids
      BY DEF ChannelOK, ChannelStates
    <2>2. IsFiniteSet(ch.outgoing_requests)
      BY <2>1, IdsFinite, FS_Subset
    <2>3. Cardinality(ch.outgoing_requests) \in Nat
      BY <2>2, FS_CardinalityType
    <2> QED
      BY <2>1, <2>2, <2>3, LimitFacts, WireAssumption DEF AllowedToSendRequest
  <1>2. free # {}
    <2>1. Cardinality(Ids) = IdCount
      BY FS_Interval, WireAssumption DEF Ids
    <2>2. Cardinality(ch.outgoing_requests) # Cardinality(Ids)
      BY <1>1, <2>1, WireAssumption, FS_CardinalityType
    <2> QED
      BY <1>1, <2>2
  <1>3. \A i \in Ids : Probes(ch, i) \in Nat
    BY <1>1, WireAssumption DEF Probes, Ids
  <1>4. PICK n \in used : \A m \in used : n <= m
    <2>1. used \in SUBSET Nat /\ used # {}
      BY <1>2, <1>3
    <2> QED
      BY <2>1, LeastExists
  <1>5. PICK i \in free : n = Probes(ch, i)
    BY <1>4
  <1>6. ASSUME NEW j \in Ids, Probes(ch, j) < Probes(ch, i) PROVE j \in ch.outgoing_requests
    BY <1>3, <1>4, <1>5, <1>6
  <1>7. i \in Ids /\ i \notin ch.outgoing_requests
    BY <1>5
  <1>8. Cardinality(ch.outgoing_requests) # IdCount - 1
    <2>1. Cardinality(ch.outgoing_requests) \in Nat
      BY <1>1, FS_CardinalityType
    <2> QED
      BY <1>1, <2>1, WireAssumption
  <1> QED
    BY <1>6, <1>7, <1>8 DEF IsNextRequestId

\* What is to be shown about sending.
SendOK(W, core, item, core2) == CoreOK(W, core2) /\ SendEffect(core, item, core2)

\* Ending the core instead of sending.
LEMMA EndedSendOK ==
  ASSUME NEW W, NEW core, NEW core2, CoreOK(W, core2), NEW item, Aside(core, core2)
  PROVE  SendOK(W, core, item, Ended(core2, "LocalProtocolViolation"))
  <1>1. /\ CoreOK(W, Ended(core2, "LocalProtocolViolation"))
        /\ Ended(core2, "LocalProtocolViolation").result = "LocalProtocolViolation"
        /\ Aside(core2, Ended(core2, "LocalProtocolViolation"))
    BY EndedOK DEF Results
  <1> QED
    BY <1>1 DEF SendOK, SendEffect, Aside

\* create_request, and what send_to_ready_queue does with the request.
LEMMA SendRequestOK ==
  ASSUME NEW W, NEW core, CoreOK(W, core), NEW item \in Items(W), item.kind = "Request"
  PROVE  SendOK(W, core, item, SendRequest(core, item))
  <1> DEFINE c  == item.channel
             ch == core.juliet[c]
             id == CHOOSE i \in Ids : IsNextRequestId(ch, i)
             core1 == EnqueuePayload(core, RequestMsg(c, id, item.payload))
             core2 == [core1 EXCEPT
                         !.juliet[c] = RecordRequest(ch, id),
                         !.request_map = MapInsert(core1.request_map, item.io_id, c, id),
                         !.buffered_requests[c] = core1.buffered_requests[c] + 1]
  <1>1. /\ c \in Channels /\ item.io_id \in W /\ item.payload \in Nat \cup {NoPayload}
        /\ ChannelOK(c, ch)
    BY ItemFacts DEF CoreOK, IsRequest
  <1>2. CASE item.payload > MaxRequestPayload[c] \/ ~AllowedToSendRequest(c, ch)
    <2>1. SendRequest(core, item) = Ended(core, "LocalProtocolViolation")
      BY <1>2 DEF SendRequest
    <2>2. Aside(core, core)
      BY DEF Aside
    <2> QED
      BY <2>1, <2>2, EndedSendOK
  <1>3. CASE ~(item.payload > MaxRequestPayload[c] \/ ~AllowedToSendRequest(c, ch))
    <2>1. SendRequest(core, item) = core2
      BY <1>3 DEF SendRequest
    <2>2. id \in Ids /\ IsNextRequestId(ch, id)
      BY <1>1, <1>3, NextIdExists, RequestIdChosen
    <2> HIDE DEF id
    <2>3. /\ CoreOK(W, core1) /\ OnlyQueued(core, core1) /\ Aside(core, core1)
          /\ core1.juliet = core.juliet
      BY <1>1, <2>2, NewMessages, EnqueuePayloadOK
    <2> HIDE DEF core1
    <2> DEFINE ch2 == RecordRequest(ch, id)
               j == [core.juliet EXCEPT ![c] = ch2]
               m == MapInsert(core.request_map, item.io_id, c, id)
               b == [core.buffered_requests EXCEPT ![c] = core.buffered_requests[c] + 1]
    <2>4. /\ ChannelOK(c, ch2)
          /\ ch2.outgoing_requests = ch.outgoing_requests \cup {id}
          /\ ch2.prev_request_id = id
      BY <1>1, <1>3, <2>2, RecordRequestOK
    <2> HIDE DEF ch2
    <2>5. /\ j \in [Channels -> ChannelStates] /\ \A d \in Channels : ChannelOK(d, j[d])
          /\ j[c] = ch2 /\ \A d \in Channels \ {c} : j[d] = core.juliet[d]
      BY <1>1, <2>4 DEF CoreOK, CoreStates, ChannelOK
    <2>6. m \in SUBSET Mappings(W)
      BY <1>1, <2>2, MapInsertType DEF CoreOK, CoreStates
    <2>7. b \in [Channels -> Nat]
      BY <1>1 DEF CoreOK, CoreStates
    <2>8. core2 = [core1 EXCEPT !.juliet = j, !.request_map = m, !.buffered_requests = b]
      BY <1>1, <2>3 DEF CoreOK, CoreStates, OnlyQueued, ch2
    <2> HIDE DEF core2, j, m, b, c
    <2>9. /\ CoreOK(W, core2) /\ core2.juliet = j /\ core2.request_map = m
          /\ core2.buffered_requests = b /\ core2.wait_queue = core1.wait_queue
          /\ core2.pending_error = core1.pending_error /\ core2.result = core1.result
          /\ Aside(core1, core2)
      BY <2>3, <2>5, <2>6, <2>7, <2>8 DEF CoreOK, CoreStates, Aside
    <2>10. Sends(core, item, id, core2)
      BY <1>1, <1>3, <2>2, <2>3, <2>4, <2>5, <2>9 DEF Sends, OnlyQueued, IsRequest, c, m, b
    <2> QED
      BY <2>1, <2>2, <2>3, <2>9, <2>10 DEF SendOK, SendEffect, Aside
  <1> QED
    BY <1>2, <1>3

\* cancel_request
LEMMA SendRequestCancellationOK ==
  ASSUME NEW W, NEW core, CoreOK(W, core), NEW item \in Items(W),
         item.kind = "RequestCancellation"
  PROVE  SendOK(W, core, item, SendRequestCancellation(core, item))
  <1> DEFINE known == {m \in core.request_map :
                         /\ m.io_id = item.io_id
                         /\ m.id \in core.juliet[m.channel].outgoing_requests}
             m == CHOOSE m \in known : TRUE
  <1>1. CASE known = {}
    BY <1>1
    DEF SendRequestCancellation, SendOK, SendEffect, OnlyQueued, Aside, IsRequest
  <1>2. CASE known # {}
    <2>1. m \in known
      BY <1>2
    <2>2. m.channel \in Channels /\ m.id \in Ids
      BY <2>1 DEF CoreOK, CoreStates, Mappings
    <2>3. SendRequestCancellation(core, item) =
            Enqueue(core, Frames(Header("CancelReq", m.channel, m.id), NoPayload))
      BY <1>2 DEF SendRequestCancellation
    <2> HIDE DEF m, known
    <2> QED
      BY <2>2, <2>3, NewMessages, EnqueueOK DEF SendOK, SendEffect, IsRequest, NoPayload
  <1> QED
    BY <1>1, <1>2

\* Forgetting an incoming request changes none of the records.
LEMMA ForgottenOK ==
  ASSUME NEW W, NEW core, CoreOK(W, core), NEW c \in Channels, NEW id \in Ids
  PROVE  LET core2 == [core EXCEPT !.juliet[c] = ForgetIncoming(core.juliet[c], id)]
         IN  CoreOK(W, core2) /\ OnlyQueued(core, core2) /\ Aside(core, core2)
  <1> DEFINE ch == ForgetIncoming(core.juliet[c], id)
             core2 == [core EXCEPT !.juliet[c] = ch]
  <1>1. /\ ChannelOK(c, ch)
        /\ ch.outgoing_requests = core.juliet[c].outgoing_requests
        /\ ch.prev_request_id = core.juliet[c].prev_request_id
    BY ForgetIncomingOK DEF CoreOK
  <1> HIDE DEF ch
  <1>2. /\ CoreOK(W, core2)
        /\ Aside(core, core2)
        /\ core2.wait_queue = core.wait_queue
        /\ core2.request_map = core.request_map
        /\ core2.buffered_requests = core.buffered_requests
        /\ core2.pending_error = core.pending_error
        /\ core2.result = core.result
        /\ core2.juliet[c] = ch
        /\ \A d \in Channels \ {c} : core2.juliet[d] = core.juliet[d]
    BY <1>1, NewChannelState
  <1> HIDE DEF core2
  <1>3. OnlyQueued(core, core2)
    BY <1>1, <1>2 DEF OnlyQueued
  <1> QED
    BY <1>2, <1>3 DEF core2, ch

\* create_response
LEMMA SendResponseOK ==
  ASSUME NEW W, NEW core, CoreOK(W, core), NEW item \in Items(W), item.kind = "Response"
  PROVE  SendOK(W, core, item, SendResponse(core, item))
  <1> DEFINE c  == item.channel
             core2 == [core EXCEPT !.juliet[c] = ForgetIncoming(core.juliet[c], item.id)]
             core3 == EnqueuePayload(core2, ResponseMsg(c, item.id, item.payload))
  <1>1. c \in Channels /\ item.id \in Ids /\ item.payload \in Nat \cup {NoPayload}
    BY ItemFacts
  <1>2. SendResponse(core, item) =
          IF item.id \notin core.juliet[c].incoming_requests THEN core
          ELSE IF item.payload > MaxResponsePayload[c]
          THEN Ended(core2, "LocalProtocolViolation") ELSE core3
    BY DEF SendResponse
  <1>3. CoreOK(W, core2) /\ OnlyQueued(core, core2) /\ Aside(core, core2)
    BY <1>1, ForgottenOK
  <1> HIDE DEF core2
  <1>4. CoreOK(W, core3) /\ OnlyQueued(core2, core3) /\ Aside(core2, core3)
    BY <1>1, <1>3, NewMessages, EnqueuePayloadOK
  <1> HIDE DEF core3, c
  <1>5. OnlyQueued(core, core3) /\ Aside(core, core3) /\ OnlyQueued(core, core)
        /\ Aside(core, core)
    BY <1>3, <1>4 DEF OnlyQueued, Aside
  <1> QED
    BY <1>2, <1>3, <1>4, <1>5, EndedSendOK DEF SendOK, SendEffect, IsRequest

\* cancel_response
LEMMA SendResponseCancellationOK ==
  ASSUME NEW W, NEW core, CoreOK(W, core), NEW item \in Items(W),
         item.kind = "ResponseCancellation"
  PROVE  SendOK(W, core, item, SendResponseCancellation(core, item))
  <1> DEFINE c  == item.channel
             core2 == [core EXCEPT !.juliet[c] = ForgetIncoming(core.juliet[c], item.id)]
             core3 == Enqueue(core2, Frames(Header("CancelResp", c, item.id), NoPayload))
  <1>1. c \in Channels /\ item.id \in Ids
    BY ItemFacts
  <1>2. SendResponseCancellation(core, item) =
          IF item.id \notin core.juliet[c].incoming_requests THEN core ELSE core3
    BY DEF SendResponseCancellation
  <1>3. CoreOK(W, core2) /\ OnlyQueued(core, core2) /\ Aside(core, core2)
    BY <1>1, ForgottenOK
  <1> HIDE DEF core2
  <1>4. CoreOK(W, core3) /\ OnlyQueued(core2, core3) /\ Aside(core2, core3)
    BY <1>1, <1>3, NewMessages, EnqueueOK DEF NoPayload
  <1> HIDE DEF core3, c
  <1>5. OnlyQueued(core, core3) /\ Aside(core, core3) /\ OnlyQueued(core, core)
        /\ Aside(core, core)
    BY <1>3, <1>4 DEF OnlyQueued, Aside
  <1> QED
    BY <1>2, <1>3, <1>4, <1>5 DEF SendOK, SendEffect, IsRequest

\* The permits that inject_error releases.
LEMMA ReleasedPermits ==
  ASSUME NEW W, NEW core, CoreOK(W, core)
  PROVE  [c \in Channels |-> core.buffered_requests[c] + NumRequests(core.wait_queue[c], c)]
             \in [Channels -> Nat]
  <1> SUFFICES ASSUME NEW c \in Channels
               PROVE  core.buffered_requests[c] + NumRequests(core.wait_queue[c], c) \in Nat
    OBVIOUS
  <1>1. core.buffered_requests[c] \in Nat /\ core.wait_queue[c] \in Seq(Items(W))
    BY DEF CoreOK, CoreStates
  <1> QED
    BY <1>1, CountType

\* inject_error
LEMMA InjectErrorOK ==
  ASSUME NEW W, NEW core, CoreOK(W, core), NEW kind \in ErrorKind, NEW c \in Channels,
         NEW id \in Ids, NEW payload \in Nat \cup {NoPayload}
  PROVE  LET core2 == InjectError(core, Header(kind, c, id), payload)
         IN  /\ CoreOK(W, core2) /\ Aside(core, core2) /\ Fails(core, core2)
             /\ core2.result = core.result
  <1> DEFINE h == Header(kind, c, id)
             core2 == InjectError(core, h, payload)
             b == [d \in Channels |-> core.buffered_requests[d]
                                        + NumRequests(core.wait_queue[d], d)]
             w == [d \in Channels |-> <<>>]
             f == NextFrame(Frames(h, payload))
             e == [frame |-> f, final |-> TRUE]
  <1>1. b \in [Channels -> Nat]
    BY ReleasedPermits
  <1>2. w \in [Channels -> Seq(Items(W))] /\ \A d \in Channels : w[d] \in Seq(WaitItems(W, d))
    BY EmptySeq
  <1>3. f \in FramesOf(ErrorKind)
    <2>1. h \in MessageHeaders(ErrorKind)
      BY DEF Header, MessageHeaders
    <2>2. f = NextFrame([header |-> h, payload |-> payload, processed |-> 0])
      BY DEF Frames
    <2>3. 0 \in Int
      OBVIOUS
    <2> HIDE DEF h, f
    <2> QED
      BY <2>1, <2>2, <2>3, MessageFrames, Zenon
  <1> HIDE DEF f
  <1>4. e \in [frame : FramesOf(ErrorKind), final : BOOLEAN] /\ e # NoFrame
    BY <1>3, NoFrameFacts DEF ErrorKind
  <1>5. core2 = [core EXCEPT !.closed = TRUE, !.ready_queue = <<>>, !.request_map = {},
                             !.buffered_requests = b, !.wait_queue = w, !.pending_error = e]
    BY DEF InjectError, CoreOK, CoreStates, NumRequests, f
  <1>6. <<>> \in Seq(Messages)
    BY EmptySeq
  <1> HIDE DEF core2, b, w, e, h
  <1>7. /\ core2 \in CoreStates(W) /\ core2.juliet = core.juliet /\ core2.wait_queue = w
        /\ core2.buffered_requests = b /\ core2.pending_error = e /\ core2.closed
        /\ core2.result = core.result
        /\ Aside(core, core2)
    BY <1>1, <1>2, <1>4, <1>5, <1>6 DEF CoreOK, CoreStates, Aside
  <1>8. CoreOK(W, core2)
    BY <1>2, <1>7 DEF CoreOK
  <1>9. Fails(core, core2)
    BY <1>4, <1>7 DEF Fails, b, w
  <1> QED
    BY <1>7, <1>8, <1>9 DEF core2, h

\* custom_error, and what send_to_ready_queue does with the error.
LEMMA SendErrorOK ==
  ASSUME NEW W, NEW core, CoreOK(W, core), NEW item \in Items(W), item.kind = "Error"
  PROVE  SendOK(W, core, item, SendError(core, item))
  <1>1. /\ item.channel \in Channels /\ item.id \in Ids
        /\ item.payload \in Nat \cup {NoPayload} /\ "Other" \in ErrorKind
    BY ItemFacts DEF ErrorKind
  <1>2. CASE PayloadIsMultiFrame(item.payload)
    <2>1. SendError(core, item) = Ended(core, "LocalProtocolViolation")
      BY <1>2 DEF SendError
    <2>2. Aside(core, core)
      BY DEF Aside
    <2> QED
      BY <2>1, <2>2, EndedSendOK
  <1>3. CASE ~PayloadIsMultiFrame(item.payload)
    <2>1. SendError(core, item) =
            InjectError(core, Header("Other", item.channel, item.id), item.payload)
      BY <1>3 DEF SendError
    <2> DEFINE kind == "Other"
               c == item.channel
               id == item.id
               payload == item.payload
    <2>2. /\ kind \in ErrorKind /\ c \in Channels /\ id \in Ids
          /\ payload \in Nat \cup {NoPayload}
          /\ SendError(core, item) = InjectError(core, Header(kind, c, id), payload)
      BY <1>1, <2>1
    <2> HIDE DEF kind, c, id, payload
    <2>3. /\ CoreOK(W, SendError(core, item)) /\ Aside(core, SendError(core, item))
          /\ Fails(core, SendError(core, item))
      BY <2>2, InjectErrorOK
    <2> QED
      BY <2>3 DEF SendOK, SendEffect
  <1> QED
    BY <1>2, <1>3

\* send_to_ready_queue
LEMMA SendToReadyQueueOK ==
  ASSUME NEW W, NEW core, CoreOK(W, core), NEW item \in Items(W)
  PROVE  SendOK(W, core, item, SendToReadyQueue(core, item))
  <1>1. item.kind \in ItemKinds
    BY ItemFacts
  <1>2. SendToReadyQueue(core, item) =
          CASE item.kind = "Request"              -> SendRequest(core, item)
            [] item.kind = "RequestCancellation"  -> SendRequestCancellation(core, item)
            [] item.kind = "Response"             -> SendResponse(core, item)
            [] item.kind = "ResponseCancellation" -> SendResponseCancellation(core, item)
            [] item.kind = "Error"                -> SendError(core, item)
    BY DEF SendToReadyQueue
  <1>3. CASE item.kind = "Request"
    BY <1>2, <1>3, SendRequestOK
  <1>4. CASE item.kind = "RequestCancellation"
    BY <1>2, <1>4, SendRequestCancellationOK
  <1>5. CASE item.kind = "Response"
    BY <1>2, <1>5, SendResponseOK
  <1>6. CASE item.kind = "ResponseCancellation"
    BY <1>2, <1>6, SendResponseCancellationOK
  <1>7. CASE item.kind = "Error"
    BY <1>2, <1>7, SendErrorOK
  <1> QED
    BY <1>1, <1>3, <1>4, <1>5, <1>6, <1>7 DEF ItemKinds

-----------------------------------------------------------------------------
(* The books: what the fields of a core say about its requests together.   *)
(* A ledger l says what they are compared with:                            *)
(*                                                                         *)
(*   num, io_ids   the requests that were taken from the handles and are   *)
(*                 not in a queue of the core: how many per channel, and   *)
(*                 their IoIds                                             *)
(*   open          the requests for which no event was produced            *)
(*   limit         how many requests have been made                        *)
(*   gap           the request that was answered and is still mapped       *)

Ledgers(W) ==
    [num : [Channels -> Nat], io_ids : SUBSET W, open : SUBSET W, limit : Nat,
     gap : SUBSET (Channels \X Ids)]

\* Every permit that is missing is held by a request that has not been sent.
Permits(l, core) ==
    \A c \in Channels :
        core.buffered_requests[c] + l.num[c] + NumRequests(core.wait_queue[c], c) = BufferSize[c]

\* No IoId is in two places.
OnePlace(l, core) ==
    /\ \A c \in Channels :
         /\ Distinct(core.wait_queue[c])
         /\ QueuedIoIds(core.wait_queue[c]) \cap l.io_ids = {}
         /\ \A d \in Channels \ {c} :
              QueuedIoIds(core.wait_queue[c]) \cap QueuedIoIds(core.wait_queue[d]) = {}
    /\ \A m \in core.request_map :
         /\ m.io_id \notin l.io_ids
         /\ \A c \in Channels : m.io_id \notin QueuedIoIds(core.wait_queue[c])

\* Every open request is in one place, and nothing else is.
Accounted(l, core) ==
    \A x : x \in l.open <=> \/ x \in l.io_ids
                            \/ \E c \in Channels : x \in QueuedIoIds(core.wait_queue[c])
                            \/ \E m \in core.request_map : m.io_id = x

\* request_map is one to one.
OneToOne(core) ==
    \A m, n \in core.request_map :
        m.io_id = n.io_id \/ (m.channel = n.channel /\ m.id = n.id) => m = n

IsMapped(core, c, id) == \E m \in core.request_map : m.channel = c /\ m.id = id

\* The requests in flight are the ones that are mapped.
InFlight(l, core) ==
    /\ \A c \in Channels, id \in Ids :
         id \in core.juliet[c].outgoing_requests <=>
             IsMapped(core, c, id) /\ <<c, id>> \notin l.gap
    /\ \A g \in l.gap : IsMapped(core, g[1], g[2])

\* IDs have been given out in order, without wrapping around.
InOrder(l, core) ==
    /\ \A c \in Channels :
         core.juliet[c].prev_request_id + l.num[c] + NumRequests(core.wait_queue[c], c) <= l.limit
    /\ \A m \in core.request_map : m.id \in 1 .. core.juliet[m.channel].prev_request_id

Books(l, core) ==
    OnePlace(l, core) /\ Accounted(l, core) /\ OneToOne(core) /\ InFlight(l, core)
        /\ InOrder(l, core)

\* The books are kept until an error is injected, and as long as no ID had to be
\* used a second time.
Kept(l, core) == core.pending_error = NoFrame /\ l.limit < IdCount

Consistent(W, l, core) ==
    /\ CoreOK(W, core)
    /\ core.result = "Running" => Permits(l, core)
    /\ core.result = "Running" /\ Kept(l, core) => Books(l, core)
    /\ l.limit < IdCount => core.result # "InternalError"

\* The ledger l of a core becomes l2 once an item has been dealt with.
Takes(l, core, item, l2) ==
    /\ \A c \in Channels : l.num[c] = l2.num[c] + Counts(item, c)
    /\ l.io_ids = l2.io_ids \cup IoIdOf(item)
    /\ core.result = "Running" /\ Kept(l, core) => IoIdOf(item) \cap l2.io_ids = {}
    /\ l2.open = l.open /\ l2.limit = l.limit /\ l2.gap = l.gap

\* An item that is no request is not in the ledger.
LEMMA TakesNothing ==
  ASSUME NEW W, NEW l \in Ledgers(W), NEW l2 \in Ledgers(W), NEW core, NEW item,
         Takes(l, core, item, l2), ~IsRequest(item)
  PROVE  l2.io_ids = l.io_ids /\ \A c \in Channels : l2.num[c] = l.num[c]
  BY DEF Takes, Counts, IoIdOf, Ledgers

\* If the fields the books are about stay as they are, so do the books.
LEMMA OnlyQueuedConsistent ==
  ASSUME NEW W, NEW l \in Ledgers(W), NEW l2 \in Ledgers(W), NEW core, NEW core2,
         Consistent(W, l, core), CoreOK(W, core2), OnlyQueued(core, core2),
         l2.io_ids = l.io_ids, l2.open = l.open, l2.limit = l.limit, l2.gap = l.gap,
         \A c \in Channels : l2.num[c] = l.num[c]
  PROVE  Consistent(W, l2, core2)
  <1>1. core2.result = "Running" => Permits(l2, core2)
    BY DEF Consistent, Permits, OnlyQueued
  <1>2. ASSUME core2.result = "Running", Kept(l2, core2)
        PROVE  Books(l2, core2)
    <2>1. Books(l, core)
      BY <1>2 DEF Consistent, Kept, OnlyQueued
    <2>2. OnePlace(l2, core2) /\ Accounted(l2, core2) /\ OneToOne(core2)
      BY <2>1 DEF Books, OnePlace, Accounted, OneToOne, OnlyQueued
    <2>3. InFlight(l2, core2)
      BY <2>1 DEF Books, InFlight, IsMapped, OnlyQueued
    <2>4. InOrder(l2, core2)
      <3>1. \A m \in core.request_map : m.channel \in Channels
        BY DEF Consistent, CoreOK, CoreStates, Mappings
      <3> QED
        BY <2>1, <3>1 DEF Books, InOrder, OnlyQueued
    <2> QED
      BY <2>2, <2>3, <2>4 DEF Books
  <1> QED
    BY <1>1, <1>2 DEF Consistent, OnlyQueued

\* A remainder that is zero.
LEMMA ZeroRemainder ==
  ASSUME NEW n \in Nat \ {0}, NEW x \in Int, - n < x, x < n
  PROVE  /\ x % n \in Nat
         /\ x % n = 0 => x = 0
         /\ 0 % n = 0
  OBVIOUS

\* As long as no ID has been used twice, generate_request_id counts up.
LEMMA NextIdCountsUp ==
  ASSUME NEW c \in Channels, NEW ch, ChannelOK(c, ch), AllowedToSendRequest(c, ch),
         NEW id \in Ids, IsNextRequestId(ch, id),
         ch.prev_request_id + 1 < IdCount,
         \A i \in ch.outgoing_requests : i <= ch.prev_request_id
  PROVE  id = ch.prev_request_id + 1
  <1> DEFINE next == ch.prev_request_id + 1
  <1>1. ch.outgoing_requests \in SUBSET Ids /\ ch.prev_request_id \in Ids
    BY DEF ChannelOK, ChannelStates
  <1>2. next \in Ids /\ next \notin ch.outgoing_requests /\ IdCount \in Nat \ {0}
        /\ id \in Int /\ ch.prev_request_id \in Int
    BY <1>1, WireAssumption DEF Ids
  <1>3. Cardinality(ch.outgoing_requests) # IdCount - 1
    <2>1. Cardinality(ch.outgoing_requests) \in Nat
      BY <1>1, <1>2, IdSetChange
    <2> QED
      BY <2>1, <1>2, LimitFacts DEF AllowedToSendRequest
  <1>4. ~(Probes(ch, next) < Probes(ch, id))
    BY <1>2, <1>3 DEF IsNextRequestId
  <1>5. Probes(ch, next) = 0
    BY <1>2, ZeroRemainder DEF Probes
  <1>6. /\ - IdCount < id - ch.prev_request_id - 1
        /\ id - ch.prev_request_id - 1 < IdCount
        /\ id - ch.prev_request_id - 1 \in Int
    BY <1>1, WireAssumption DEF Ids
  <1>7. Probes(ch, id) \in Nat /\ (Probes(ch, id) = 0 => id - ch.prev_request_id - 1 = 0)
    BY <1>2, <1>6, ZeroRemainder DEF Probes
  <1>8. id - ch.prev_request_id - 1 = 0
    BY <1>4, <1>5, <1>7
  <1> QED
    BY <1>2, <1>8

\* The numbers that the books are about are numbers.
LEMMA BookNumbers ==
  ASSUME NEW W, NEW l \in Ledgers(W), NEW core, CoreOK(W, core), NEW c \in Channels
  PROVE  /\ l.num[c] \in Nat /\ l.limit \in Nat
         /\ core.juliet[c].prev_request_id \in Nat
         /\ core.buffered_requests[c] \in Nat
         /\ core.wait_queue[c] \in Seq(WaitItems(W, c))
         /\ NumRequests(core.wait_queue[c], c) \in Nat
         /\ BufferSize[c] \in Nat
  <1>1. /\ core.juliet[c] \in ChannelStates /\ core.buffered_requests[c] \in Nat
        /\ core.wait_queue[c] \in Seq(WaitItems(W, c))
    BY DEF CoreOK, CoreStates
  <1>2. core.juliet[c].prev_request_id \in Nat
    BY <1>1, IdsFinite DEF ChannelStates
  <1>3. NumRequests(core.wait_queue[c], c) \in Nat
    BY <1>1, CountType
  <1> QED
    BY <1>1, <1>2, <1>3, IoAssumption DEF Ledgers

\* What is in flight or mapped on a channel was given out by it.
LEMMA GivenOut ==
  ASSUME NEW W, NEW l \in Ledgers(W), NEW core, CoreOK(W, core), Books(l, core),
         NEW c \in Channels
  PROVE  /\ \A i \in core.juliet[c].outgoing_requests :
              i \in Nat /\ i <= core.juliet[c].prev_request_id
         /\ \A m \in core.request_map : m.channel = c =>
              m.id \in Nat /\ m.id <= core.juliet[c].prev_request_id
         /\ \A i \in Ids : <<c, i>> \in l.gap => i <= core.juliet[c].prev_request_id
  <1>1. core.juliet[c].outgoing_requests \subseteq Ids
    BY DEF CoreOK, CoreStates, ChannelStates
  <1>2. core.juliet[c].prev_request_id \in Nat
    BY BookNumbers
  <1>3. \A m \in core.request_map : m.channel = c =>
            m.id \in Nat /\ m.id <= core.juliet[c].prev_request_id
    BY <1>2 DEF Books, InOrder
  <1>4. \A i \in core.juliet[c].outgoing_requests : IsMapped(core, c, i)
    BY <1>1 DEF Books, InFlight
  <1>5. \A i \in Ids : <<c, i>> \in l.gap => IsMapped(core, c, i)
    BY DEF Books, InFlight
  <1> QED
    BY <1>3, <1>4, <1>5 DEF IsMapped

\* Sending a request keeps the permits and the books.
LEMMA SendsConsistent ==
  ASSUME NEW W, NEW l \in Ledgers(W), NEW l2 \in Ledgers(W), NEW core, NEW core2,
         NEW item \in Items(W), Consistent(W, l, core), CoreOK(W, core2),
         core.result = "Running", Takes(l, core, item, l2),
         NEW id \in Ids, Sends(core, item, id, core2)
  PROVE  Consistent(W, l2, core2)
  <1> DEFINE c == item.channel
             prev == core.juliet[c].prev_request_id
             new == [io_id |-> item.io_id, channel |-> c, id |-> id]
  <1>1. /\ c \in Channels /\ IsRequest(item) /\ IoIdOf(item) = {item.io_id}
        /\ \A d \in Channels : Counts(item, d) = IF d = c THEN 1 ELSE 0
    BY DEF Sends, IoIdOf, Counts
  <1>2. CoreOK(W, core)
    BY DEF Consistent
  <1>3. Permits(l2, core2)
    <2> SUFFICES ASSUME NEW d \in Channels
                 PROVE  core2.buffered_requests[d] + l2.num[d]
                          + NumRequests(core2.wait_queue[d], d) = BufferSize[d]
      BY DEF Permits
    <2>1. core2.buffered_requests[d] = core.buffered_requests[d] + Counts(item, d)
      BY <1>1, <1>2, BookNumbers DEF Sends, CoreOK, CoreStates
    <2>2. l.num[d] = l2.num[d] + Counts(item, d) /\ core2.wait_queue = core.wait_queue
      BY DEF Takes, Sends
    <2>3. core.buffered_requests[d] + l.num[d] + NumRequests(core.wait_queue[d], d)
            = BufferSize[d]
      BY DEF Consistent, Permits
    <2>4. /\ l.num[d] \in Nat /\ l2.num[d] \in Nat /\ core.buffered_requests[d] \in Nat
          /\ NumRequests(core.wait_queue[d], d) \in Nat /\ Counts(item, d) \in Nat
      BY <1>1, <1>2, BookNumbers
    <2> QED
      BY <2>1, <2>2, <2>3, <2>4
  <1>4. ASSUME Kept(l2, core2) PROVE Books(l2, core2)
    <2>1. Books(l, core)
      BY <1>4 DEF Kept, Consistent, Takes, Sends
    <2>2. /\ prev \in Nat /\ l.num[c] \in Nat /\ l2.num[c] \in Nat
          /\ l.num[c] = l2.num[c] + 1 /\ l.limit \in Nat
          /\ NumRequests(core.wait_queue[c], c) \in Nat
      BY <1>1, <1>2, BookNumbers DEF Takes
    <2>3. prev + 1 < IdCount
      <3>1. prev + l.num[c] + NumRequests(core.wait_queue[c], c) <= l.limit
        BY <1>1, <2>1 DEF Books, InOrder
      <3>2. l.limit < IdCount
        BY <1>4 DEF Kept, Takes
      <3> QED
        BY <2>2, <3>1, <3>2, WireAssumption
    <2>4. id = prev + 1
      <3>1. \A i \in core.juliet[c].outgoing_requests : i <= prev
        BY <1>1, <1>2, <2>1, GivenOut
      <3>2. ChannelOK(c, core.juliet[c])
        BY <1>1, <1>2 DEF CoreOK
      <3>3. AllowedToSendRequest(c, core.juliet[c]) /\ IsNextRequestId(core.juliet[c], id)
        BY DEF Sends
      <3> QED
        BY <1>1, <2>3, <3>1, <3>2, <3>3, NextIdCountsUp
    <2>5. \A m \in core.request_map : m.channel = c => m.id # id
      BY <1>1, <1>2, <2>1, <2>2, <2>4, GivenOut
    <2>6. item.io_id \in l.io_ids /\ item.io_id \notin l2.io_ids
          /\ l2.io_ids = l.io_ids \ {item.io_id}
      <3>1. Kept(l, core)
        BY <1>4 DEF Kept, Takes, Sends
      <3> QED
        BY <1>1, <3>1 DEF Takes
    <2>7. \A m \in core.request_map : m.io_id # item.io_id
      BY <2>1, <2>6 DEF Books, OnePlace
    <2>8. core2.request_map = core.request_map \cup {new}
      BY <2>5, <2>7 DEF Sends, MapInsert
    <2>9. core2.wait_queue = core.wait_queue
      BY DEF Sends
    <2>10. new.io_id = item.io_id /\ new.channel = c /\ new.id = id
      OBVIOUS
    <2> HIDE DEF c
    <2>11. OnePlace(l2, core2)
      BY <2>1, <2>6, <2>8, <2>9 DEF Books, OnePlace
    <2>12. Accounted(l2, core2)
      <3>1. l2.open = l.open
        BY DEF Takes
      <3>2. \A x : (\E m \in core2.request_map : m.io_id = x) <=>
                     (x = item.io_id \/ \E m \in core.request_map : m.io_id = x)
        <4> HIDE DEF new
        <4> QED
          BY <2>8, <2>10
      <3> QED
        BY <2>1, <2>6, <2>9, <3>1, <3>2 DEF Books, Accounted
    <2>13. OneToOne(core2)
      BY <2>1, <2>5, <2>7, <2>8 DEF Books, OneToOne
    <2>14. InFlight(l2, core2)
      <3>1. \A d \in Channels, i \in Ids :
              IsMapped(core2, d, i) <=> (IsMapped(core, d, i) \/ (d = c /\ i = id))
        <4> HIDE DEF new
        <4> QED
          BY <2>8, <2>10 DEF IsMapped
      <3>2. <<c, id>> \notin l.gap
        BY <1>1, <1>2, <2>1, <2>2, <2>4, GivenOut DEF c
      <3>3. \A d \in Channels, i \in Ids :
              i \in core2.juliet[d].outgoing_requests <=>
                 (i \in core.juliet[d].outgoing_requests \/ (d = c /\ i = id))
        BY DEF Sends, c
      <3>4. l2.gap = l.gap
        BY DEF Takes
      <3>5. ASSUME NEW d \in Channels, NEW i \in Ids
            PROVE  i \in core2.juliet[d].outgoing_requests <=>
                     IsMapped(core2, d, i) /\ <<d, i>> \notin l2.gap
        <4>1. i \in core.juliet[d].outgoing_requests <=>
                     IsMapped(core, d, i) /\ <<d, i>> \notin l.gap
          BY <2>1 DEF Books, InFlight
        <4> QED
          BY <3>1, <3>2, <3>3, <3>4, <4>1
      <3>6. \A g \in l2.gap : IsMapped(core2, g[1], g[2])
        BY <2>1, <2>8, <3>4 DEF Books, InFlight, IsMapped
      <3> QED
        BY <3>5, <3>6 DEF InFlight
    <2>15. InOrder(l2, core2)
      <3>1. \A d \in Channels :
              core2.juliet[d].prev_request_id =
                IF d = c THEN id ELSE core.juliet[d].prev_request_id
        BY DEF Sends, c
      <3>2. ASSUME NEW d \in Channels
            PROVE  core2.juliet[d].prev_request_id + l2.num[d]
                      + NumRequests(core2.wait_queue[d], d) <= l2.limit
        <4>1. core.juliet[d].prev_request_id + l.num[d]
                  + NumRequests(core.wait_queue[d], d) <= l.limit
          BY <2>1 DEF Books, InOrder
        <4>2. /\ core.juliet[d].prev_request_id \in Nat /\ l2.num[d] \in Nat
              /\ NumRequests(core.wait_queue[d], d) \in Nat /\ l2.limit = l.limit
          BY <1>2, BookNumbers DEF Takes
        <4>3. CASE d = c
          BY <2>2, <2>4, <2>9, <3>1, <4>1, <4>2, <4>3
        <4>4. CASE d # c
          <5>1. l2.num[d] = l.num[d]
            BY <1>1, <4>4, <4>2 DEF Takes, c
          <5> QED
            BY <2>9, <3>1, <4>1, <4>2, <4>4, <5>1
        <4> QED
          BY <4>3, <4>4
      <3>3. ASSUME NEW m \in core2.request_map
            PROVE  m.id \in 1 .. core2.juliet[m.channel].prev_request_id
        <4>1. CASE m = new
          BY <1>1, <2>2, <2>4, <3>1, <4>1 DEF c
        <4>2. CASE m \in core.request_map
          <5>1. m.channel \in Channels /\ core.juliet[m.channel].prev_request_id \in Nat
            <6>1. m.channel \in Channels
              BY <1>2, <4>2 DEF CoreOK, CoreStates, Mappings
            <6> QED
              BY <1>2, <6>1, BookNumbers
          <5>2. m.id \in 1 .. core.juliet[m.channel].prev_request_id
            BY <2>1, <4>2 DEF Books, InOrder
          <5> QED
            BY <2>2, <2>4, <3>1, <5>1, <5>2
        <4> QED
          BY <2>8, <4>1, <4>2
      <3> QED
        BY <3>2, <3>3 DEF InOrder
    <2> QED
      BY <2>11, <2>12, <2>13, <2>14, <2>15 DEF Books
  <1> QED
    BY <1>3, <1>4 DEF Consistent, Sends

\* Injecting an error keeps the permits.
LEMMA FailsConsistent ==
  ASSUME NEW W, NEW l \in Ledgers(W), NEW l2 \in Ledgers(W), NEW core, NEW core2,
         Consistent(W, l, core), CoreOK(W, core2), core.result = "Running",
         \A c \in Channels : l2.num[c] = l.num[c], Fails(core, core2)
  PROVE  Consistent(W, l2, core2)
  <1>1. ASSUME NEW c \in Channels
        PROVE  core2.buffered_requests[c] + l2.num[c] + NumRequests(core2.wait_queue[c], c)
                 = BufferSize[c]
    <2>1. core.buffered_requests[c] + l.num[c] + NumRequests(core.wait_queue[c], c)
            = BufferSize[c]
      BY DEF Consistent, Permits
    <2>2. NumRequests(core2.wait_queue[c], c) = 0
      BY CountEmpty DEF Fails
    <2>3. core2.buffered_requests[c] =
            core.buffered_requests[c] + NumRequests(core.wait_queue[c], c)
      BY DEF Fails
    <2>4. /\ l.num[c] \in Nat /\ core.buffered_requests[c] \in Nat
          /\ NumRequests(core.wait_queue[c], c) \in Nat
      BY BookNumbers DEF Consistent
    <2> QED
      BY <2>1, <2>2, <2>3, <2>4
  <1> QED
    BY <1>1 DEF Consistent, Permits, Kept, Fails

\* send_to_ready_queue keeps the permits and the books; only an error becomes the
\* pending error.
LEMMA SendConsistent ==
  ASSUME NEW W, NEW l \in Ledgers(W), NEW l2 \in Ledgers(W), NEW core,
         NEW item \in Items(W), Consistent(W, l, core), core.result = "Running",
         Takes(l, core, item, l2)
  PROVE  LET core2 == SendToReadyQueue(core, item)
         IN  /\ Consistent(W, l2, core2)
             /\ Aside(core, core2)
             /\ core2.result = "Running" /\ item.kind # "Error" =>
                  core2.pending_error = core.pending_error
  <1> DEFINE core2 == SendToReadyQueue(core, item)
  <1>1. CoreOK(W, core2) /\ SendEffect(core, item, core2)
    BY SendToReadyQueueOK DEF Consistent, SendOK
  <1> HIDE DEF core2
  <1>2. CASE core2.result \notin {"Running", "InternalError"}
    BY <1>1, <1>2 DEF Consistent, SendEffect, core2
  <1>3. CASE ~IsRequest(item) /\ OnlyQueued(core, core2)
    <2>1. l2.io_ids = l.io_ids /\ \A c \in Channels : l2.num[c] = l.num[c]
      BY <1>3, TakesNothing
    <2>2. l2.open = l.open /\ l2.limit = l.limit /\ l2.gap = l.gap
      BY DEF Takes
    <2>3. Consistent(W, l2, core2)
      BY <1>1, <1>3, <2>1, <2>2, OnlyQueuedConsistent
    <2> QED
      BY <1>1, <1>3, <2>3 DEF SendEffect, OnlyQueued, core2
  <1>4. CASE \E id \in Ids : Sends(core, item, id, core2)
    <2>1. PICK id \in Ids : Sends(core, item, id, core2)
      BY <1>4
    <2>2. Consistent(W, l2, core2)
      BY <1>1, <2>1, SendsConsistent
    <2> QED
      BY <1>1, <2>1, <2>2 DEF SendEffect, Sends, core2
  <1>5. CASE item.kind = "Error" /\ Fails(core, core2)
    <2>1. l2.io_ids = l.io_ids /\ \A c \in Channels : l2.num[c] = l.num[c]
      BY <1>5, TakesNothing DEF IsRequest
    <2>2. Consistent(W, l2, core2)
      BY <1>1, <1>5, <2>1, FailsConsistent
    <2> QED
      BY <1>1, <1>5, <2>2 DEF SendEffect, core2
  <1> QED
    BY <1>1, <1>2, <1>3, <1>4, <1>5 DEF SendEffect

\* A core with another wait queue for channel c.
Requeue(core, c, q) == [core EXCEPT !.wait_queue[c] = q]

\* Replacing the wait queue of a channel.
LEMMA NewWaitQueue ==
  ASSUME NEW W, NEW core, CoreOK(W, core), NEW c \in Channels, NEW q \in Seq(WaitItems(W, c))
  PROVE  LET core2 == Requeue(core, c, q)
         IN  /\ CoreOK(W, core2)
             /\ Aside(core, core2)
             /\ core2.juliet = core.juliet
             /\ core2.request_map = core.request_map
             /\ core2.buffered_requests = core.buffered_requests
             /\ core2.pending_error = core.pending_error
             /\ core2.result = core.result
             /\ core2.wait_queue[c] = q
             /\ \A d \in Channels \ {c} : core2.wait_queue[d] = core.wait_queue[d]
  <1> DEFINE core2 == Requeue(core, c, q)
             w == [core.wait_queue EXCEPT ![c] = q]
  <1>1. q \in Seq(Items(W))
    <2>1. WaitItems(W, c) \subseteq Items(W)
      BY DEF WaitItems
    <2> QED
      BY <2>1
  <1>2. /\ w \in [Channels -> Seq(Items(W))]
        /\ \A d \in Channels : w[d] \in Seq(WaitItems(W, d))
        /\ w[c] = q /\ \A d \in Channels \ {c} : w[d] = core.wait_queue[d]
    BY <1>1 DEF CoreOK, CoreStates
  <1>3. core2 = [core EXCEPT !.wait_queue = w]
    BY DEF CoreOK, CoreStates, Requeue
  <1> HIDE DEF core2, w
  <1> QED
    BY <1>2, <1>3 DEF CoreOK, CoreStates, Aside, core2

\* With q in the place of the wait queue of channel c and l2 in that of the ledger
\* l, the same requests are there.
Moves(l, core, c, q, l2) ==
    /\ l2.num[c] + NumRequests(q, c) = l.num[c] + NumRequests(core.wait_queue[c], c)
    /\ \A d \in Channels \ {c} : l2.num[d] = l.num[d]
    /\ l2.io_ids \cup QueuedIoIds(q) = l.io_ids \cup QueuedIoIds(core.wait_queue[c])
    /\ core.result = "Running" /\ Kept(l, core) =>
         Distinct(q) /\ QueuedIoIds(q) \cap l2.io_ids = {}
    /\ l2.open = l.open /\ l2.limit = l.limit /\ l2.gap = l.gap

\* Requests may move between the wait queue of a channel and the ledger.
LEMMA Requeued ==
  ASSUME NEW W, NEW l \in Ledgers(W), NEW l2 \in Ledgers(W), NEW core, Consistent(W, l, core),
         NEW c \in Channels, NEW q \in Seq(WaitItems(W, c)), Moves(l, core, c, q, l2)
  PROVE  LET core2 == Requeue(core, c, q)
         IN  /\ Consistent(W, l2, core2)
             /\ Aside(core, core2)
             /\ core2.pending_error = core.pending_error
             /\ core2.result = core.result
             /\ core2.wait_queue[c] = q
  <1> DEFINE core2 == Requeue(core, c, q)
  <1>1. CoreOK(W, core)
    BY DEF Consistent
  <1>2. /\ CoreOK(W, core2)
        /\ Aside(core, core2)
        /\ core2.juliet = core.juliet
        /\ core2.request_map = core.request_map
        /\ core2.buffered_requests = core.buffered_requests
        /\ core2.pending_error = core.pending_error
        /\ core2.result = core.result
        /\ core2.wait_queue[c] = q
        /\ \A d \in Channels \ {c} : core2.wait_queue[d] = core.wait_queue[d]
    BY <1>1, NewWaitQueue
  <1> HIDE DEF core2
  <1>3. ASSUME NEW d \in Channels
        PROVE  /\ l2.num[d] + NumRequests(core2.wait_queue[d], d)
                    = l.num[d] + NumRequests(core.wait_queue[d], d)
               /\ l.num[d] \in Nat /\ l2.num[d] \in Nat
               /\ core.buffered_requests[d] \in Nat
               /\ core.juliet[d].prev_request_id \in Nat
               /\ NumRequests(core2.wait_queue[d], d) \in Nat
               /\ NumRequests(core.wait_queue[d], d) \in Nat
    BY <1>1, <1>2, BookNumbers DEF Moves
  <1>4. ASSUME core.result = "Running" PROVE Permits(l2, core2)
    <2> SUFFICES ASSUME NEW d \in Channels
                 PROVE  core2.buffered_requests[d] + l2.num[d]
                          + NumRequests(core2.wait_queue[d], d) = BufferSize[d]
      BY DEF Permits
    <2>1. core.buffered_requests[d] + l.num[d] + NumRequests(core.wait_queue[d], d)
            = BufferSize[d]
      BY <1>4 DEF Consistent, Permits
    <2>2. core2.buffered_requests[d] = core.buffered_requests[d]
      BY <1>2
    <2>3. /\ l2.num[d] + NumRequests(core2.wait_queue[d], d)
               = l.num[d] + NumRequests(core.wait_queue[d], d)
          /\ l.num[d] \in Nat /\ l2.num[d] \in Nat /\ core.buffered_requests[d] \in Nat
          /\ NumRequests(core2.wait_queue[d], d) \in Nat
          /\ NumRequests(core.wait_queue[d], d) \in Nat
      BY <1>3
    <2>4. /\ BufferSize[d] \in Nat
          /\ core.buffered_requests[d] + (l2.num[d] + NumRequests(core2.wait_queue[d], d))
               = BufferSize[d]
      BY <2>1, <2>3, IoAssumption
    <2>5. core.buffered_requests[d] + l2.num[d] + NumRequests(core2.wait_queue[d], d)
            = BufferSize[d]
      BY <2>3, <2>4
    <2> QED
      BY <2>2, <2>5
  <1>5. ASSUME core.result = "Running", Kept(l2, core2) PROVE Books(l2, core2)
    <2>1. Books(l, core) /\ Distinct(q) /\ QueuedIoIds(q) \cap l2.io_ids = {}
      BY <1>2, <1>5 DEF Consistent, Kept, Moves
    <2>2. OnePlace(l2, core2)
      <3>1. ASSUME NEW d \in Channels
            PROVE  /\ Distinct(core2.wait_queue[d])
                   /\ QueuedIoIds(core2.wait_queue[d]) \cap l2.io_ids = {}
        BY <1>2, <2>1 DEF Books, OnePlace, Moves
      <3>2. ASSUME NEW d \in Channels, NEW e \in Channels \ {d}
            PROVE  QueuedIoIds(core2.wait_queue[d]) \cap QueuedIoIds(core2.wait_queue[e]) = {}
        <4>1. \A x \in Channels \ {c} :
                /\ core2.wait_queue[x] = core.wait_queue[x]
                /\ QueuedIoIds(q) \cap QueuedIoIds(core.wait_queue[x]) = {}
          BY <1>2, <2>1 DEF Books, OnePlace, Moves
        <4>2. CASE d = c
          BY <1>2, <4>1, <4>2
        <4>3. CASE e = c
          BY <1>2, <4>1, <4>3
        <4>4. CASE d # c /\ e # c
          BY <2>1, <4>1, <4>4 DEF Books, OnePlace, Moves
        <4> QED
          BY <4>2, <4>3, <4>4
      <3>3. ASSUME NEW m \in core2.request_map
            PROVE  /\ m.io_id \notin l2.io_ids
                   /\ \A d \in Channels : m.io_id \notin QueuedIoIds(core2.wait_queue[d])
        BY <1>2, <2>1 DEF Books, OnePlace, Moves
      <3> QED
        BY <3>1, <3>2, <3>3 DEF OnePlace
    <2>3. Accounted(l2, core2)
      <3>1. ASSUME NEW x
            PROVE  (x \in l2.io_ids \/ \E d \in Channels : x \in QueuedIoIds(core2.wait_queue[d]))
                     <=> (x \in l.io_ids \/ \E d \in Channels : x \in QueuedIoIds(core.wait_queue[d]))
        BY <1>2 DEF Moves
      <3> QED
        BY <1>2, <2>1, <3>1 DEF Books, Accounted, Moves
    <2>4. OneToOne(core2) /\ InFlight(l2, core2)
      BY <1>2, <2>1 DEF Books, OneToOne, InFlight, IsMapped, Moves
    <2>5. InOrder(l2, core2)
      <3>1. l.limit \in Nat
        BY DEF Ledgers
      <3>2. ASSUME NEW d \in Channels
            PROVE  core2.juliet[d].prev_request_id + l2.num[d]
                      + NumRequests(core2.wait_queue[d], d) <= l2.limit
        <4>1. core.juliet[d].prev_request_id + l.num[d]
                  + NumRequests(core.wait_queue[d], d) <= l.limit
          BY <2>1 DEF Books, InOrder
        <4>2. /\ l2.num[d] + NumRequests(core2.wait_queue[d], d)
                   = l.num[d] + NumRequests(core.wait_queue[d], d)
              /\ l.num[d] \in Nat /\ l2.num[d] \in Nat
              /\ core.juliet[d].prev_request_id \in Nat
              /\ NumRequests(core2.wait_queue[d], d) \in Nat
              /\ NumRequests(core.wait_queue[d], d) \in Nat
          BY <1>3
        <4>3. core2.juliet[d].prev_request_id = core.juliet[d].prev_request_id
              /\ l2.limit = l.limit
          BY <1>2 DEF Moves
        <4> QED
          BY <3>1, <4>1, <4>2, <4>3
      <3> QED
        BY <1>2, <2>1, <3>2 DEF Books, InOrder
    <2> QED
      BY <2>2, <2>3, <2>4, <2>5 DEF Books
  <1>6. Consistent(W, l2, core2)
    BY <1>2, <1>4, <1>5 DEF Consistent, Moves
  <1> QED
    BY <1>2, <1>6 DEF core2

\* An item goes to the end of the wait queue of its channel.
LEMMA WaitConsistent ==
  ASSUME NEW W, NEW l \in Ledgers(W), NEW l2 \in Ledgers(W), NEW core, NEW c \in Channels,
         NEW item \in WaitItems(W, c), Consistent(W, l, core), Takes(l, core, item, l2)
  PROVE  LET core2 == Requeue(core, c, Append(core.wait_queue[c], item))
         IN  /\ Consistent(W, l2, core2)
             /\ Aside(core, core2)
             /\ core2.pending_error = core.pending_error
             /\ core2.result = core.result
  <1> DEFINE w == core.wait_queue[c]
             q == Append(w, item)
             core2 == Requeue(core, c, q)
  <1>1. w \in Seq(WaitItems(W, c)) /\ q \in Seq(WaitItems(W, c))
    BY AppendProperties, BookNumbers DEF Consistent
  <1>2. NumRequests(q, c) = NumRequests(w, c) + Counts(item, c)
    BY <1>1, CountAppend
  <1>3. /\ QueuedIoIds(q) = QueuedIoIds(w) \cup IoIdOf(item)
        /\ Distinct(w) /\ IoIdOf(item) \cap QueuedIoIds(w) = {} => Distinct(q)
    BY <1>1, IoIdsAppend
  <1>4. /\ l2.num[c] \in Nat /\ l.num[c] = l2.num[c] + Counts(item, c)
        /\ NumRequests(w, c) \in Nat /\ Counts(item, c) \in Nat
        /\ \A d \in Channels \ {c} : l2.num[d] = l.num[d]
    <2>1. \A d \in Channels : l2.num[d] \in Nat /\ l.num[d] = l2.num[d] + Counts(item, d)
      BY DEF Takes, Ledgers
    <2>2. Counts(item, c) \in Nat /\ \A d \in Channels \ {c} : Counts(item, d) = 0
      BY DEF Counts, WaitItems
    <2>3. NumRequests(w, c) \in Nat
      BY BookNumbers DEF Consistent
    <2> QED
      BY <2>1, <2>2, <2>3
  <1>5. ASSUME core.result = "Running", Kept(l, core)
        PROVE  Distinct(q) /\ QueuedIoIds(q) \cap l2.io_ids = {}
    <2>1. /\ Distinct(w) /\ QueuedIoIds(w) \cap l.io_ids = {}
          /\ l.io_ids = l2.io_ids \cup IoIdOf(item) /\ IoIdOf(item) \cap l2.io_ids = {}
      BY <1>5 DEF Consistent, Books, OnePlace, Takes
    <2> HIDE DEF w, q
    <2> QED
      BY <1>3, <2>1
  <1>6. l2.io_ids \cup QueuedIoIds(q) = l.io_ids \cup QueuedIoIds(w)
    BY <1>3 DEF Takes
  <1>7. l2.open = l.open /\ l2.limit = l.limit /\ l2.gap = l.gap
    BY DEF Takes
  <1>8. l2.num[c] + NumRequests(q, c) = l.num[c] + NumRequests(w, c)
    BY <1>2, <1>4
  <1> HIDE DEF q
  <1>9. /\ Consistent(W, l2, core2)
        /\ Aside(core, core2)
        /\ core2.pending_error = core.pending_error
        /\ core2.result = core.result
        /\ core2.wait_queue[c] = q
    <2>1. Moves(l, core, c, q, l2)
      BY <1>4, <1>5, <1>6, <1>7, <1>8 DEF Moves
    <2> QED
      BY <1>1, <2>1, Requeued
  <1> QED
    BY <1>9 DEF q

\* The ledger with an item of channel c added.
Put(l, c, item) ==
    [l EXCEPT !.num = [d \in Channels |-> l.num[d] + Counts(item, d)],
              !.io_ids = l.io_ids \cup IoIdOf(item)]

\* The item at the front of a wait queue is taken out.
LEMMA PopConsistent ==
  ASSUME NEW W, NEW l \in Ledgers(W), NEW core, NEW c \in Channels,
         Consistent(W, l, core), core.wait_queue[c] # <<>>
  PROVE  LET item  == Head(core.wait_queue[c])
             core2 == Requeue(core, c, Tail(core.wait_queue[c]))
             l2    == Put(l, c, item)
         IN  /\ item \in WaitItems(W, c) /\ l2 \in Ledgers(W)
             /\ Consistent(W, l2, core2)
             /\ Takes(l2, core2, item, l)
             /\ Aside(core, core2)
             /\ core2.pending_error = core.pending_error
             /\ core2.result = core.result
             /\ core2.wait_queue[c] = Tail(core.wait_queue[c])
  <1> DEFINE w == core.wait_queue[c]
             q == Tail(w)
             item == Head(w)
             core2 == Requeue(core, c, q)
             l2 == Put(l, c, item)
  <1>1. w \in Seq(WaitItems(W, c))
    BY BookNumbers DEF Consistent
  <1>2. q \in Seq(WaitItems(W, c)) /\ item \in WaitItems(W, c)
    BY <1>1, HeadTailProperties
  <1>3. NumRequests(w, c) = NumRequests(q, c) + Counts(item, c)
    BY <1>1, CountTail
  <1>4. /\ QueuedIoIds(w) = QueuedIoIds(q) \cup IoIdOf(item)
        /\ Distinct(w) => Distinct(q) /\ IoIdOf(item) \cap QueuedIoIds(q) = {}
    BY <1>1, IoIdsTail
  <1>5. NumRequests(q, c) \in Nat
    BY <1>2, CountType
  <1> HIDE DEF w, q, item
  <1>6. /\ \A d \in Channels : Counts(item, d) \in {0, 1}
        /\ \A d \in Channels \ {c} : Counts(item, d) = 0
        /\ IoIdOf(item) \subseteq W
    BY <1>2 DEF Counts, WaitItems, IoIdOf, Items
  <1>7. /\ l2 \in Ledgers(W) /\ \A d \in Channels : l2.num[d] = l.num[d] + Counts(item, d)
        /\ l2.io_ids = l.io_ids \cup IoIdOf(item)
        /\ l2.open = l.open /\ l2.limit = l.limit /\ l2.gap = l.gap
    <2>1. l \in [num : [Channels -> Nat], io_ids : SUBSET W, open : SUBSET W, limit : Nat,
                 gap : SUBSET (Channels \X Ids)]
      BY DEF Ledgers
    <2>2. [d \in Channels |-> l.num[d] + Counts(item, d)] \in [Channels -> Nat]
      BY <1>6, <2>1
    <2>3. l.io_ids \cup IoIdOf(item) \in SUBSET W
      BY <1>6, <2>1
    <2> QED
      BY <2>1, <2>2, <2>3 DEF Put, Ledgers
  <1> HIDE DEF l2
  <1>8. l2.num[c] + NumRequests(q, c) = l.num[c] + NumRequests(w, c)
        /\ \A d \in Channels \ {c} : l2.num[d] = l.num[d]
    <2>1. \A d \in Channels : l.num[d] \in Nat
      BY DEF Ledgers
    <2> QED
      BY <1>3, <1>5, <1>6, <1>7, <2>1
  <1>9. core.result = "Running" /\ Kept(l, core) =>
            /\ Distinct(q) /\ QueuedIoIds(q) \cap l2.io_ids = {}
            /\ IoIdOf(item) \cap l.io_ids = {}
    <2> SUFFICES ASSUME core.result = "Running", Kept(l, core)
                 PROVE  /\ Distinct(q) /\ QueuedIoIds(q) \cap l2.io_ids = {}
                        /\ IoIdOf(item) \cap l.io_ids = {}
      OBVIOUS
    <2>1. Distinct(w) /\ QueuedIoIds(w) \cap l.io_ids = {}
      BY DEF Consistent, Books, OnePlace, w
    <2> QED
      BY <1>4, <1>7, <2>1
  <1>10. l2.io_ids \cup QueuedIoIds(q) = l.io_ids \cup QueuedIoIds(w)
    BY <1>4, <1>7
  <1>11. /\ Consistent(W, l2, core2)
         /\ Aside(core, core2)
         /\ core2.pending_error = core.pending_error
         /\ core2.result = core.result
         /\ core2.wait_queue[c] = q
    <2>1. Moves(l, core, c, q, l2)
      BY <1>7, <1>8, <1>9, <1>10 DEF Moves, w
    <2> QED
      BY <1>2, <1>7, <2>1, Requeued
  <1> HIDE DEF core2
  <1>12. Takes(l2, core2, item, l)
    BY <1>7, <1>9, <1>11 DEF Takes, Kept
  <1> QED
    BY <1>2, <1>7, <1>11, <1>12 DEF core2, l2, item, w, q

\* handle_incoming_item keeps the permits and the books.
LEMMA HandleIncomingItemOK ==
  ASSUME NEW W, NEW l \in Ledgers(W), NEW l2 \in Ledgers(W), NEW core, NEW item \in Items(W),
         Consistent(W, l, core), Takes(l, core, item, l2)
  PROVE  LET core2 == HandleIncomingItem(core, item)
         IN  Consistent(W, l2, core2) /\ Aside(core, core2)
  <1> DEFINE c == item.channel
             core2 == HandleIncomingItem(core, item)
  <1>1. CASE core.result # "Running"
    <2>1. core2 = core
      BY <1>1 DEF HandleIncomingItem
    <2> HIDE DEF core2
    <2> QED
      BY <1>1, <2>1 DEF Consistent, Takes, Aside, core2
  <1>2. CASE core.result = "Running" /\ ItemShouldWait(core, item)
    <2>1. core2 = Requeue(core, c, Append(core.wait_queue[c], item))
      BY <1>2 DEF HandleIncomingItem, Requeue
    <2>2. c \in Channels /\ item \in WaitItems(W, c)
      BY <1>2, ItemFacts DEF ItemShouldWait, WaitItems
    <2> HIDE DEF core2, c
    <2> QED
      BY <2>1, <2>2, WaitConsistent DEF core2
  <1>3. CASE core.result = "Running" /\ ~ItemShouldWait(core, item)
    <2>1. core2 = SendToReadyQueue(core, item)
      BY <1>3 DEF HandleIncomingItem
    <2> HIDE DEF core2
    <2> QED
      BY <1>3, <2>1, SendConsistent DEF core2
  <1> QED
    BY <1>1, <1>2, <1>3

\* The states process_wait_queue goes through from core.
Turns(W, l, core) ==
    {turn \in [core : CoreStates(W), done : BOOLEAN] :
        /\ Consistent(W, l, turn.core)
        /\ Aside(core, turn.core)
        /\ turn.core.result = "Running" => turn.core.pending_error = core.pending_error
        /\ ~turn.done => turn.core.result = "Running"}

\* A turn of process_wait_queue keeps the permits and the books.
LEMMA WaitQueueTurnOK ==
  ASSUME NEW W, NEW l \in Ledgers(W), NEW core, NEW c \in Channels,
         NEW turn \in Turns(W, l, core)
  PROVE  WaitQueueTurn(turn, c) \in Turns(W, l, core)
  <1> DEFINE k == turn.core
             item == Head(k.wait_queue[c])
             popped == Requeue(k, c, Tail(k.wait_queue[c]))
             sent == SendToReadyQueue(popped, item)
             l2 == Put(l, c, item)
             next == WaitQueueTurn(turn, c)
  <1>1. /\ k \in CoreStates(W) /\ turn.done \in BOOLEAN
        /\ Consistent(W, l, k)
        /\ Aside(core, k)
        /\ k.result = "Running" => k.pending_error = core.pending_error
        /\ ~turn.done => k.result = "Running"
        /\ turn = [core |-> k, done |-> turn.done]
    BY DEF Turns
  <1>2. CASE turn.done \/ k.wait_queue[c] = <<>>
    BY <1>2 DEF WaitQueueTurn
  <1>3. CASE ~turn.done /\ k.wait_queue[c] # <<>>
    <2>1. /\ item \in WaitItems(W, c) /\ l2 \in Ledgers(W)
          /\ Consistent(W, l2, popped)
          /\ Takes(l2, popped, item, l)
          /\ Aside(k, popped)
          /\ popped.pending_error = k.pending_error
          /\ popped.result = k.result
          /\ popped.wait_queue[c] = Tail(k.wait_queue[c])
      BY <1>1, <1>3, PopConsistent
    <2>2. item \in Items(W) /\ item.kind # "Error"
      BY <2>1 DEF WaitItems
    <2> HIDE DEF item, l2
    <2>3. CASE ItemShouldWait(popped, item)
      <3> DEFINE queued == Requeue(popped, c, Append(popped.wait_queue[c], item))
      <3>1. next = [core |-> queued, done |-> turn.done]
        <4>1. next = [turn EXCEPT !.core.wait_queue[c] = Append(Tail(k.wait_queue[c]), item)]
          BY <1>3, <2>3 DEF WaitQueueTurn, Requeue, item
        <4>2. queued = [k EXCEPT !.wait_queue[c] = Append(Tail(k.wait_queue[c]), item)]
          BY <1>1 DEF CoreStates, Requeue
        <4> HIDE DEF next, queued
        <4> QED
          BY <1>1, <4>1, <4>2
      <3> HIDE DEF popped, next
      <3>2. /\ Consistent(W, l, queued)
            /\ Aside(popped, queued)
            /\ queued.pending_error = popped.pending_error
            /\ queued.result = popped.result
        BY <2>1, WaitConsistent
      <3> HIDE DEF queued
      <3>3. queued \in CoreStates(W)
        BY <3>2 DEF Consistent, CoreOK
      <3>4. Aside(core, queued)
        BY <1>1, <2>1, <3>2 DEF Aside
      <3> QED
        BY <1>1, <1>3, <2>1, <3>1, <3>2, <3>3, <3>4 DEF Turns, next
    <2>4. CASE ~ItemShouldWait(popped, item)
      <3> DEFINE done == \/ sent.result # "Running"
                         \/ ~AllowedToSendRequest(c, sent.juliet[c])
      <3>1. next = [core |-> sent, done |-> done]
        BY <1>3, <2>4 DEF WaitQueueTurn, Requeue, item
      <3> HIDE DEF popped, next
      <3>2. /\ Consistent(W, l, sent)
            /\ Aside(popped, sent)
            /\ sent.result = "Running" /\ item.kind # "Error" =>
                 sent.pending_error = popped.pending_error
        BY <1>1, <1>3, <2>1, <2>2, SendConsistent
      <3> HIDE DEF sent
      <3>3. sent \in CoreStates(W)
        BY <3>2 DEF Consistent, CoreOK
      <3>4. Aside(core, sent)
        BY <1>1, <2>1, <3>2 DEF Aside
      <3>5. done \in BOOLEAN /\ (~done => sent.result = "Running")
        OBVIOUS
      <3> HIDE DEF done
      <3> QED
        BY <1>1, <1>3, <2>1, <2>2, <3>1, <3>2, <3>3, <3>4, <3>5 DEF Turns, next
    <2> QED
      BY <2>3, <2>4
  <1> QED
    BY <1>2, <1>3

\* process_wait_queue keeps the permits and the books, and injects no error.
LEMMA ProcessWaitQueueOK ==
  ASSUME NEW W, NEW l \in Ledgers(W), NEW core, NEW c \in Channels,
         Consistent(W, l, core), core.result = "Running"
  PROVE  LET core2 == ProcessWaitQueue(core, c)
         IN  /\ Consistent(W, l, core2)
             /\ Aside(core, core2)
             /\ core2.result = "Running" => core2.pending_error = core.pending_error
  <1> DEFINE N == Len(core.wait_queue[c])
             base == [core |-> core, done |-> FALSE]
             T == Turns(W, l, core)
             S == [n \in 0 .. N |-> T]
             F == [n \in 1 .. N |-> [turn \in T |-> WaitQueueTurn(turn, c)]]
             after == CHOOSE g : g = [n \in 0 .. N |-> IF n = 0 THEN base
                                                       ELSE WaitQueueTurn(g[n - 1], c)]
  <1>1. N \in Nat
    <2>1. core.wait_queue[c] \in Seq(WaitItems(W, c))
      BY BookNumbers DEF Consistent
    <2> QED
      BY <2>1, LenProperties
  <1>2. base \in T
    BY DEF Turns, Aside, Consistent, CoreOK
  <1>3. \A turn \in T : WaitQueueTurn(turn, c) \in T
    BY WaitQueueTurnOK
  <1>4. ProcessWaitQueue(core, c) = after[N].core
    BY DEF ProcessWaitQueue
  <1> HIDE DEF N, base, T
  <1>5. /\ base \in S[0]
        /\ \A n \in 1 .. N : \A s \in S[n - 1] : F[n][s] \in S[n]
    BY <1>1, <1>2, <1>3
  <1>6. PICK f : IsLoop(f, N, base, F) /\ \A n \in 0 .. N : f[n] \in S[n]
    <2> HIDE DEF S, F
    <2> QED
      BY <1>1, <1>5, LoopStates
  <1>7. ASSUME NEW n \in 0 .. N
        PROVE  f[n] = IF n = 0 THEN base ELSE WaitQueueTurn(f[n - 1], c)
    <2>1. CASE n = 0
      BY <1>6, <2>1 DEF IsLoop
    <2>2. CASE n \in 1 .. N
      <3>1. f[n] = F[n][f[n - 1]]
        BY <1>6, <2>2, Zenon DEF IsLoop
      <3>2. n - 1 \in 0 .. N
        BY <1>1, <2>2
      <3>3. f[n - 1] \in T
        BY <1>6, <3>2
      <3>4. F[n][f[n - 1]] = WaitQueueTurn(f[n - 1], c)
        BY <2>2, <3>3
      <3> QED
        BY <1>1, <2>2, <3>1, <3>4
    <2> QED
      BY <1>1, <2>1, <2>2
  <1>8. f = [n \in 0 .. N |-> IF n = 0 THEN base ELSE WaitQueueTurn(f[n - 1], c)]
    BY <1>6, <1>7 DEF IsLoop
  <1>9. after = [n \in 0 .. N |-> IF n = 0 THEN base ELSE WaitQueueTurn(after[n - 1], c)]
    BY <1>8
  <1> HIDE DEF after
  <1>10. N \in {n \in 0 .. N : after[n] \in T}
    <2> DEFINE D == {n \in 0 .. N : after[n] \in T}
    <2>1. 0 \in D
      BY <1>1, <1>2, <1>9
    <2>2. \A n \in 1 .. N : n - 1 \in D => n \in D
      BY <1>1, <1>3, <1>9
    <2> HIDE DEF D
    <2>3. N \in D
      BY <1>1, <2>1, <2>2, EveryTurn
    <2> QED
      BY <2>3 DEF D
  <1> QED
    BY <1>4, <1>10 DEF T, Turns

-----------------------------------------------------------------------------
(* The branches of next_event.                                              *)

\* The ledger of a core whose handles have the items in q in its channel.
Ledger(q, open, limit, gap) ==
    [num    |-> [c \in Channels |-> NumRequests(q, c)],
     io_ids |-> QueuedIoIds(q),
     open   |-> open,
     limit  |-> limit,
     gap    |-> gap]

\* Such a ledger has its type.
LEMMA LedgerType ==
  ASSUME NEW W, NEW q \in Seq(Items(W)), NEW open \in SUBSET W, NEW limit \in Nat,
         NEW gap \in SUBSET (Channels \X Ids)
  PROVE  Ledger(q, open, limit, gap) \in Ledgers(W)
  <1>1. \A c \in Channels : NumRequests(q, c) \in Nat
    BY CountType
  <1>2. QueuedIoIds(q) \in SUBSET W
    <2> SUFFICES ASSUME NEW x \in QueuedIoIds(q) PROVE x \in W
      OBVIOUS
    <2>1. PICK i \in DOMAIN q : IsRequest(q[i]) /\ q[i].io_id = x
      BY QueuedByPlace
    <2>2. q[i] \in Items(W)
      OBVIOUS
    <2> QED
      BY <2>1, <2>2, ItemFacts
  <1> QED
    BY <1>1, <1>2 DEF Ledger, Ledgers

\* Receiving the first item.
LEMMA LedgerTakes ==
  ASSUME NEW W, NEW q \in Seq(Items(W)), q # <<>>, Distinct(q), NEW open, NEW limit, NEW gap,
         NEW core
  PROVE  Takes(Ledger(q, open, limit, gap), core, Head(q), Ledger(Tail(q), open, limit, gap))
  <1>1. \A c \in Channels : NumRequests(q, c) = NumRequests(Tail(q), c) + Counts(Head(q), c)
    BY CountTail
  <1>2. /\ QueuedIoIds(q) = QueuedIoIds(Tail(q)) \cup IoIdOf(Head(q))
        /\ IoIdOf(Head(q)) \cap QueuedIoIds(Tail(q)) = {}
    BY IoIdsTail
  <1> DEFINE l == Ledger(q, open, limit, gap)
             l2 == Ledger(Tail(q), open, limit, gap)
  <1>3. /\ \A c \in Channels : l.num[c] = NumRequests(q, c) /\ l2.num[c] = NumRequests(Tail(q), c)
        /\ l.io_ids = QueuedIoIds(q) /\ l2.io_ids = QueuedIoIds(Tail(q))
        /\ l2.open = l.open /\ l2.limit = l.limit /\ l2.gap = l.gap
    BY DEF Ledger
  <1> HIDE DEF l, l2
  <1>4. Takes(l, core, Head(q), l2)
    BY <1>1, <1>2, <1>3 DEF Takes
  <1> QED
    BY <1>4 DEF l, l2

\* The receive branch up to the handling of the items: all requests that were in the
\* channel are in a queue of the core or mapped.
LEMMA HandleItemsOK ==
  ASSUME NEW W, NEW core, NEW open \in SUBSET W, NEW limit \in Nat,
         Consistent(W, Ledger(core.receiver, open, limit, {}), core),
         Distinct(core.receiver)
  PROVE  LET core2 == HandleItems(core)
         IN  /\ Consistent(W, Ledger(<<>>, open, limit, {}), core2)
             /\ core2.receiver = <<>>
             /\ core2.current_frame = core.current_frame
  <1> DEFINE items == core.receiver
             N == Len(items)
             base == [core EXCEPT !.receiver = <<>>, !.fell_through = FALSE]
             rest(n) == SubSeq(items, n + 1, N)
             l(n) == Ledger(rest(n), open, limit, {})
             T(n) == {k \in CoreStates(W) : /\ Consistent(W, l(n), k)
                                            /\ k.receiver = <<>>
                                            /\ k.current_frame = core.current_frame}
             S == [n \in 0 .. N |-> T(n)]
             F == [n \in 1 .. N |-> [k \in T(n - 1) |-> HandleIncomingItem(k, items[n])]]
             after == CHOOSE g : g = [n \in 0 .. N |-> IF n = 0 THEN base
                                          ELSE HandleIncomingItem(g[n - 1], items[n])]
  <1>1. items \in Seq(Items(W)) /\ N \in Nat /\ DOMAIN items = 1 .. N
    <2>1. items \in Seq(Items(W))
      BY DEF Consistent, CoreOK, CoreStates
    <2> QED
      BY <2>1, LenProperties
  <1>2. HandleItems(core) = after[N]
    BY DEF HandleItems
  <1>3. base \in T(0)
    <2>1. rest(0) = items
      BY <1>1, SubSeqFull
    <2>2. <<>> \in Seq(Items(W))
      BY EmptySeq
    <2>3. /\ CoreOK(W, base) /\ base \in CoreStates(W) /\ OnlyQueued(core, base)
          /\ base.receiver = <<>> /\ base.current_frame = core.current_frame
      <3>1. CoreOK(W, core)
        BY DEF Consistent
      <3> QED
        BY <2>2, <3>1 DEF CoreOK, CoreStates, OnlyQueued
    <2>4. l(0) = Ledger(items, open, limit, {}) /\ l(0) \in Ledgers(W)
      BY <1>1, <2>1, LedgerType
    <2> HIDE DEF base, l
    <2>5. Consistent(W, l(0), base)
      BY <2>3, <2>4, OnlyQueuedConsistent
    <2> QED
      BY <2>3, <2>5
  <1>4. ASSUME NEW n \in 1 .. N
        PROVE  /\ rest(n - 1) \in Seq(Items(W)) /\ rest(n - 1) # <<>>
               /\ Head(rest(n - 1)) = items[n] /\ Tail(rest(n - 1)) = rest(n)
    <2>1. n - 1 + 1 = n /\ n \in 1 .. Len(items) /\ N \in n .. Len(items)
      BY <1>1
    <2>2. Head(SubSeq(items, n, N)) = items[n] /\ Tail(SubSeq(items, n, N)) = SubSeq(items, n + 1, N)
      BY <1>1, <2>1, HeadTailOfSubSeq
    <2>3. \A i \in n .. N : items[i] \in Items(W)
      BY <1>1
    <2>4. SubSeq(items, n, N) \in Seq(Items(W)) /\ Len(SubSeq(items, n, N)) = N - n + 1
      BY <1>1, <2>1, <2>3, SubSeqProperties
    <2>5. SubSeq(items, n, N) # <<>>
      <3> DEFINE q == SubSeq(items, n, N)
      <3>1. Len(q) # 0 /\ q \in Seq(Items(W))
        BY <1>1, <2>4
      <3> HIDE DEF q
      <3>2. q # <<>>
        BY <3>1, EmptySeq
      <3> QED
        BY <3>2 DEF q
    <2> QED
      BY <2>1, <2>2, <2>4, <2>5
  <1> HIDE DEF base, rest, items, N, T
  <1>5. \A n \in 0 .. N : Distinct(rest(n))
    <2> DEFINE D == {n \in 0 .. N : Distinct(rest(n))}
    <2>1. 0 \in D
      <3>1. rest(0) = items
        BY <1>1, SubSeqFull DEF rest, N
      <3> QED
        BY <1>1, <3>1 DEF items
    <2>2. ASSUME NEW n \in 1 .. N, n - 1 \in D PROVE n \in D
      <3>1. Distinct(Tail(rest(n - 1)))
        BY <1>4, <2>2, IoIdsTail
      <3>2. Tail(rest(n - 1)) = rest(n) /\ n \in 0 .. N
        BY <1>1, <1>4
      <3> QED
        BY <3>1, <3>2
    <2> HIDE DEF D
    <2>3. 0 .. N \subseteq D
      BY <1>1, <2>1, <2>2, EveryTurn
    <2> QED
      BY <2>3 DEF D
  <1>6. ASSUME NEW n \in 1 .. N, NEW k \in T(n - 1) PROVE HandleIncomingItem(k, items[n]) \in T(n)
    <2>1. /\ Consistent(W, l(n - 1), k) /\ k.receiver = <<>>
          /\ k.current_frame = core.current_frame
      BY DEF T
    <2>2. n - 1 \in 0 .. N /\ items[n] \in Items(W)
      BY <1>1
    <2>3. Distinct(rest(n - 1))
      BY <1>5, <2>2
    <2>4. l(n - 1) \in Ledgers(W)
      BY <1>4, LedgerType
    <2>5. l(n) \in Ledgers(W)
      <3>1. rest(n) \in Seq(Items(W))
        BY <1>4, HeadTailProperties
      <3> QED
        BY <3>1, LedgerType
    <2>6. Takes(l(n - 1), k, items[n], l(n))
      BY <1>4, <2>3, LedgerTakes
    <2> HIDE DEF l
    <2> DEFINE k2 == HandleIncomingItem(k, items[n])
    <2>7. Consistent(W, l(n), k2) /\ Aside(k, k2)
      BY <2>1, <2>2, <2>4, <2>5, <2>6, HandleIncomingItemOK
    <2> HIDE DEF k2
    <2> QED
      BY <2>1, <2>7 DEF T, Aside, Consistent, CoreOK, k2
  <1>7. /\ base \in S[0]
        /\ \A n \in 1 .. N : \A s \in S[n - 1] : F[n][s] \in S[n]
    <2>1. base \in S[0]
      BY <1>1, <1>3
    <2>2. ASSUME NEW n \in 1 .. N, NEW s \in S[n - 1] PROVE F[n][s] \in S[n]
      <3>1. s \in T(n - 1)
        BY <1>1
      <3> QED
        BY <1>1, <1>6, <3>1
    <2> QED
      BY <2>1, <2>2
  <1>8. PICK f : IsLoop(f, N, base, F) /\ \A n \in 0 .. N : f[n] \in S[n]
    <2> HIDE DEF S, F
    <2> QED
      BY <1>1, <1>7, LoopStates
  <1>9. ASSUME NEW n \in 0 .. N
        PROVE  f[n] = IF n = 0 THEN base ELSE HandleIncomingItem(f[n - 1], items[n])
    <2>1. CASE n = 0
      BY <1>8, <2>1 DEF IsLoop
    <2>2. CASE n \in 1 .. N
      <3>1. f[n] = F[n][f[n - 1]]
        BY <1>8, <2>2, Zenon DEF IsLoop
      <3>2. n - 1 \in 0 .. N
        BY <1>1, <2>2
      <3>3. f[n - 1] \in T(n - 1)
        BY <1>8, <3>2
      <3>4. F[n][f[n - 1]] = HandleIncomingItem(f[n - 1], items[n])
        BY <2>2, <3>3
      <3> QED
        BY <1>1, <2>2, <3>1, <3>4
    <2> QED
      BY <1>1, <2>1, <2>2
  <1>10. f = [n \in 0 .. N |-> IF n = 0 THEN base ELSE HandleIncomingItem(f[n - 1], items[n])]
    BY <1>8, <1>9 DEF IsLoop
  <1>11. after = [n \in 0 .. N |-> IF n = 0 THEN base
                                   ELSE HandleIncomingItem(after[n - 1], items[n])]
    BY <1>10
  <1> HIDE DEF after
  <1>12. after[N] \in T(N)
    <2> DEFINE D == {n \in 0 .. N : after[n] \in T(n)}
    <2>1. 0 \in D
      BY <1>1, <1>3, <1>11
    <2>2. ASSUME NEW n \in 1 .. N, n - 1 \in D PROVE n \in D
      <3>1. after[n] = HandleIncomingItem(after[n - 1], items[n])
        BY <1>1, <1>11
      <3> QED
        BY <1>1, <1>6, <2>2, <3>1
    <2> HIDE DEF D
    <2>3. 0 .. N \subseteq D
      BY <1>1, <2>1, <2>2, EveryTurn
    <2> QED
      BY <1>1, <2>3 DEF D
  <1>13. rest(N) = <<>>
    BY <1>1, SubSeqEmpty DEF rest
  <1> QED
    BY <1>2, <1>12, <1>13 DEF T

\* Another frame to be written, and another queue of messages.
WithFrame(core, frame, queue, a, fell) ==
    [core EXCEPT !.current_frame = frame, !.ready_queue = queue,
                 !.active_multi_frame = a, !.fell_through = fell]

\* Taking up or laying down a frame leaves the books as they are.
LEMMA NewCurrentFrame ==
  ASSUME NEW W, NEW l \in Ledgers(W), NEW core, Consistent(W, l, core),
         NEW frame \in {NoFrame} \cup [frame : FramesOf(Kind), final : BOOLEAN],
         NEW queue \in Seq(Messages), NEW a \in [Channels -> Headers], NEW fell \in BOOLEAN,
         NEW core2, core2 = WithFrame(core, frame, queue, a, fell)
  PROVE  /\ Consistent(W, l, core2)
         /\ core2.receiver = core.receiver
         /\ core2.result = core.result
         /\ core2.pending_error = core.pending_error
  <1>1. CoreOK(W, core)
    BY DEF Consistent
  <1>2. /\ CoreOK(W, core2) /\ OnlyQueued(core, core2)
        /\ core2.receiver = core.receiver
        /\ core2.result = core.result
        /\ core2.pending_error = core.pending_error
    BY <1>1 DEF CoreOK, CoreStates, OnlyQueued, WithFrame
  <1>3. Consistent(W, l, core2)
    BY <1>2, OnlyQueuedConsistent
  <1> QED
    BY <1>2, <1>3

\* ready_next_frame
LEMMA ReadyNextFrameOK ==
  ASSUME NEW W, NEW l \in Ledgers(W), NEW core, Consistent(W, l, core)
  PROVE  LET core2 == ReadyNextFrame(core)
         IN  /\ Consistent(W, l, core2)
             /\ core2.receiver = core.receiver
             /\ core2.result = core.result
             /\ core2.pending_error = core.pending_error
  <1> DEFINE iter == Head(core.ready_queue)
             frame == [frame |-> NextFrame(iter), final |-> IsFinalFrame(iter)]
             queue == IF IsFinalFrame(iter) THEN Tail(core.ready_queue)
                      ELSE Append(Tail(core.ready_queue), AfterFrame(iter))
  <1>1. core \in CoreStates(W)
    BY DEF Consistent, CoreOK
  <1>2. CASE core.current_frame # NoFrame \/ core.ready_queue = <<>>
    BY <1>2 DEF ReadyNextFrame
  <1>3. CASE ~(core.current_frame # NoFrame \/ core.ready_queue = <<>>)
    <2>1. /\ core.ready_queue \in Seq(Messages) /\ core.active_multi_frame \in [Channels -> Headers]
          /\ core.fell_through \in BOOLEAN
      BY <1>1 DEF CoreStates
    <2>2. iter \in Messages /\ Tail(core.ready_queue) \in Seq(Messages)
      BY <1>3, <2>1, HeadTailProperties
    <2>3. /\ NextFrame(iter) \in FramesOf(Kind)
          /\ AfterFrame(iter) \in Messages
          /\ IsFinalFrame(iter) \in BOOLEAN
      <3> HIDE DEF iter
      <3> DEFINE h == iter.header
                 pl == iter.payload
                 pr == iter.processed
                 msg == [header |-> h, payload |-> pl, processed |-> pr]
      <3>1. /\ h \in MessageHeaders(Kind) /\ pl \in Nat \cup {NoPayload} /\ pr \in Int
            /\ iter = msg
        BY <2>2 DEF Messages
      <3> HIDE DEF h, pl, pr
      <3>2. /\ NextFrame(msg) \in FramesOf(Kind)
            /\ AfterFrame(msg) = [msg EXCEPT !.processed = pr + NextFrame(msg).seg]
            /\ AfterFrame(msg).processed \in Int
            /\ IsFinalFrame(msg) \in BOOLEAN
        BY <3>1, MessageFrames
      <3>3. AfterFrame(msg) \in Messages
        BY <3>1, <3>2 DEF Messages
      <3> HIDE DEF msg
      <3> QED
        BY <3>1, <3>2, <3>3
    <2> HIDE DEF iter
    <2>4. frame \in [frame : FramesOf(Kind), final : BOOLEAN]
      BY <2>3
    <2>5. queue \in Seq(Messages)
      BY <2>2, <2>3, AppendProperties
    <2> DEFINE core2 == WithFrame(core, frame, queue, core.active_multi_frame,
                                  core.fell_through)
    <2>6. ReadyNextFrame(core) = core2
      <3>1. ReadyNextFrame(core) = [core EXCEPT !.current_frame = frame, !.ready_queue = queue]
        BY <1>3 DEF ReadyNextFrame, iter
      <3> HIDE DEF frame, queue
      <3> QED
        BY <1>1, <3>1 DEF CoreStates, WithFrame
    <2> HIDE DEF frame, queue
    <2>7. /\ Consistent(W, l, core2)
          /\ core2.receiver = core.receiver
          /\ core2.result = core.result
          /\ core2.pending_error = core.pending_error
      BY <2>1, <2>4, <2>5, NewCurrentFrame
    <2> HIDE DEF core2
    <2> QED
      BY <2>6, <2>7
  <1> QED
    BY <1>2, <1>3

\* The write branch: the frame is gone, and what it kept waiting may be sent.
LEMMA FrameWrittenOK ==
  ASSUME NEW W, NEW l \in Ledgers(W), NEW core, Consistent(W, l, core),
         core.result = "Running", core.current_frame # NoFrame
  PROVE  LET core2 == FrameWritten(core)
         IN  /\ Consistent(W, l, core2)
             /\ core2.receiver = core.receiver
             /\ core2.result = "Running" => core2.pending_error = core.pending_error
  <1> DEFINE h == core.current_frame.frame.header
             a == [core.active_multi_frame EXCEPT ![h.channel] =
                     IF core.current_frame.final /\ core.active_multi_frame[h.channel] = h
                     THEN NoHeader ELSE core.active_multi_frame[h.channel]]
             none == NoFrame
             fell == FALSE
             sent == WithFrame(core, none, core.ready_queue, a, fell)
             next == ProcessWaitQueue(sent, h.channel)
  <1>1. core \in CoreStates(W)
    BY DEF Consistent, CoreOK
  <1>2. h.channel \in Channels
    BY <1>1 DEF CoreStates, FramesOf, MessageHeaders
  <1>3. a \in [Channels -> Headers] /\ core.ready_queue \in Seq(Messages)
    <2>1. NoHeader \in Headers
      BY DEF NoHeader, Headers, Header
    <2>2. core.active_multi_frame \in [Channels -> Headers] /\ core.ready_queue \in Seq(Messages)
      BY <1>1 DEF CoreStates
    <2> HIDE DEF h
    <2> QED
      BY <1>2, <2>1, <2>2
  <1>4. FrameWritten(core) = ReadyNextFrame(next)
    <2>1. sent = [core EXCEPT
                    !.current_frame = NoFrame,
                    !.fell_through = FALSE,
                    !.active_multi_frame[h.channel] =
                        IF core.current_frame.final /\ @ = h THEN NoHeader ELSE @]
      BY <1>1 DEF CoreStates, WithFrame
    <2> HIDE DEF sent
    <2> QED
      BY <2>1 DEF FrameWritten
  <1> HIDE DEF a, h, none, fell
  <1>5. /\ Consistent(W, l, sent)
        /\ sent.receiver = core.receiver
        /\ sent.result = core.result
        /\ sent.pending_error = core.pending_error
    <2>1. none \in {NoFrame} \cup [frame : FramesOf(Kind), final : BOOLEAN] /\ fell \in BOOLEAN
      BY DEF none, fell
    <2> QED
      BY <1>3, <2>1, NewCurrentFrame
  <1> HIDE DEF sent
  <1>6. /\ Consistent(W, l, next)
        /\ Aside(sent, next)
        /\ next.result = "Running" => next.pending_error = sent.pending_error
    BY <1>2, <1>5, ProcessWaitQueueOK
  <1> HIDE DEF next
  <1>7. /\ Consistent(W, l, ReadyNextFrame(next))
        /\ ReadyNextFrame(next).receiver = next.receiver
        /\ ReadyNextFrame(next).result = next.result
        /\ ReadyNextFrame(next).pending_error = next.pending_error
    BY <1>6, ReadyNextFrameOK
  <1> QED
    BY <1>4, <1>5, <1>6, <1>7 DEF Aside

\* The receive branch.
LEMMA ItemsReceivedOK ==
  ASSUME NEW W, NEW core, NEW open \in SUBSET W, NEW limit \in Nat,
         Consistent(W, Ledger(core.receiver, open, limit, {}), core),
         Distinct(core.receiver), NEW dropped
  PROVE  LET core2 == ItemsReceived(core, dropped)
         IN  /\ Consistent(W, Ledger(<<>>, open, limit, {}), core2)
             /\ core2.receiver = <<>>
  <1> DEFINE handled == HandleItems(core)
             l == Ledger(<<>>, open, limit, {})
             core2 == ItemsReceived(core, dropped)
  <1>1. Consistent(W, l, handled) /\ handled.receiver = <<>>
    BY HandleItemsOK
  <1>2. l \in Ledgers(W)
    <2>1. <<>> \in Seq(Items(W))
      BY EmptySeq
    <2> QED
      BY <2>1, LedgerType
  <1>3. \/ core2 = Ended(handled, "Shutdown")
        \/ core2 = handled
        \/ core2 = ReadyNextFrame(handled)
    BY DEF ItemsReceived
  <1> HIDE DEF handled, l, core2
  <1>4. CASE core2 = Ended(handled, "Shutdown")
    <2> DEFINE result == "Shutdown"
    <2>1. result \in Results /\ result \notin {"Running", "InternalError"} /\ core2 = Ended(handled, result)
      BY <1>4 DEF Results
    <2> HIDE DEF result
    <2>2. CoreOK(W, core2) /\ core2.result = result /\ Aside(handled, core2)
      BY <1>1, <2>1, EndedOK DEF Consistent
    <2> QED
      BY <1>1, <2>1, <2>2 DEF Consistent, Aside, core2, l
  <1>5. CASE core2 = handled
    BY <1>1, <1>5 DEF core2, l
  <1>6. CASE core2 = ReadyNextFrame(handled)
    BY <1>1, <1>2, <1>6, ReadyNextFrameOK DEF core2, l
  <1> QED
    BY <1>3, <1>4, <1>5, <1>6

\* handle_completed_read, for an answer: the request is found and is no longer mapped.
LEMMA AnswerReadOK ==
  ASSUME NEW W, NEW q \in Seq(Items(W)), NEW open \in SUBSET W, NEW limit \in Nat,
         NEW c \in Channels, NEW id \in Ids, NEW core,
         Consistent(W, Ledger(q, open, limit, {<<c, id>>}), core),
         core.result = "Running", core.pending_error = NoFrame, NEW kind
  PROVE  LET read == AnswerRead(core, kind, c, id)
         IN  /\ Aside(core, read.core)
             /\ \/ /\ read.event = NoEvent
                   /\ Consistent(W, Ledger(q, open, limit, {}), read.core)
                \/ /\ read.event.kind = kind
                   /\ Consistent(W, Ledger(q, open \ {read.event.io_id}, limit, {}), read.core)
  <1> DEFINE l == Ledger(q, open, limit, {<<c, id>>})
             read == AnswerRead(core, kind, c, id)
  <1>1. CoreOK(W, core)
    BY DEF Consistent
  <1>2. CASE Mapped(core, c, id) = {}
    <2> DEFINE result == "InternalError"
               l2 == Ledger(q, open, limit, {})
    <2>1. read.core = Ended(core, result) /\ read.event = NoEvent
      BY <1>2 DEF AnswerRead
    <2>2. result \in Results /\ result # "Running"
      BY DEF Results
    <2>3. CoreOK(W, Ended(core, result)) /\ Ended(core, result).result = result
          /\ Aside(core, Ended(core, result))
      <3> HIDE DEF result
      <3> QED
        BY <1>1, <2>2, EndedOK
    <2>4. ~ (limit < IdCount)
      <3> SUFFICES ASSUME limit < IdCount PROVE FALSE
        OBVIOUS
      <3>1. l.limit = limit /\ <<c, id>> \in l.gap
        BY DEF Ledger
      <3>2. InFlight(l, core)
        BY <3>1 DEF Consistent, Kept, Books
      <3>3. IsMapped(core, c, id)
        BY <3>1, <3>2 DEF InFlight
      <3> QED
        BY <1>2, <3>3 DEF IsMapped, Mapped
    <2>5. l2.limit = limit
      BY DEF Ledger
    <2> HIDE DEF l2, result
    <2>6. Consistent(W, l2, Ended(core, result))
      BY <2>2, <2>3, <2>4, <2>5 DEF Consistent
    <2> HIDE DEF read
    <2> QED
      BY <2>1, <2>3, <2>6 DEF read, l2
  <1>3. CASE Mapped(core, c, id) # {}
    <2> DEFINE m == CHOOSE n \in Mapped(core, c, id) : TRUE
               core2 == [core EXCEPT !.request_map = core.request_map \ {m}]
               l2 == Ledger(q, open \ {m.io_id}, limit, {})
    <2>1. m \in core.request_map /\ m.channel = c /\ m.id = id
      BY <1>3 DEF Mapped
    <2>2. read.core = core2 /\ read.event.kind = kind /\ read.event.io_id = m.io_id
      BY <1>3 DEF AnswerRead, Event
    <2> HIDE DEF m
    <2>3. /\ CoreOK(W, core2) /\ Aside(core, core2)
          /\ core2.request_map = core.request_map \ {m}
          /\ core2.juliet = core.juliet /\ core2.wait_queue = core.wait_queue
          /\ core2.buffered_requests = core.buffered_requests
          /\ core2.result = core.result /\ core2.pending_error = core.pending_error
      BY <1>1 DEF CoreOK, CoreStates, Aside
    <2>4. /\ l2.num = l.num /\ l2.io_ids = l.io_ids /\ l2.open = l.open \ {m.io_id}
          /\ l2.limit = l.limit /\ l2.gap = {} /\ l.gap = {<<c, id>>}
      BY DEF Ledger
    <2> HIDE DEF core2, l2, l
    <2>5. Permits(l2, core2)
      BY <2>3, <2>4 DEF Consistent, Permits, l
    <2>6. ASSUME Kept(l2, core2) PROVE Books(l2, core2)
      <3>1. Books(l, core)
        BY <2>3, <2>4, <2>6 DEF Consistent, Kept, l
      <3>2. OnePlace(l2, core2) /\ OneToOne(core2)
        BY <2>3, <2>4, <3>1 DEF Books, OnePlace, OneToOne
      <3>3. Accounted(l2, core2)
        <4>1. /\ m.io_id \notin l.io_ids
              /\ \A d \in Channels : m.io_id \notin QueuedIoIds(core.wait_queue[d])
              /\ \A n \in core.request_map : n.io_id = m.io_id => n = m
          BY <2>1, <3>1 DEF Books, OnePlace, OneToOne
        <4>2. Accounted(l, core)
          BY <3>1 DEF Books
        <4> QED
          BY <2>3, <2>4, <4>1, <4>2 DEF Accounted
      <3>4. InFlight(l2, core2)
        <4>1. ASSUME NEW d \in Channels, NEW i \in Ids
              PROVE  i \in core2.juliet[d].outgoing_requests <=> IsMapped(core2, d, i)
          <5>1. i \in core.juliet[d].outgoing_requests <=>
                  IsMapped(core, d, i) /\ <<d, i>> # <<c, id>>
            BY <2>4, <3>1 DEF Books, InFlight
          <5>2. \A n \in core.request_map : n.channel = c /\ n.id = id => n = m
            BY <2>1, <3>1 DEF Books, OneToOne
          <5> QED
            BY <2>1, <2>3, <5>1, <5>2 DEF IsMapped
        <4> QED
          BY <2>4, <4>1 DEF InFlight
      <3>5. InOrder(l2, core2)
        BY <2>3, <2>4, <3>1 DEF Books, InOrder
      <3> QED
        BY <3>2, <3>3, <3>4, <3>5 DEF Books
    <2>7. Consistent(W, l2, core2)
      BY <2>3, <2>5, <2>6 DEF Consistent
    <2> HIDE DEF read
    <2> QED
      BY <2>2, <2>3, <2>7 DEF read, l2
  <1> QED
    BY <1>2, <1>3

\* A core with another state of channel c.
WithChannel(core, c, ch) == [core EXCEPT !.juliet[c] = ch]

\* The request that a frame with this outcome has answered.
Answered(c, id, outcome) == IF IsAnswer(outcome) THEN {<<c, id>>} ELSE {}

\* A frame f for channel c has been handled, which makes core the core parsed.
Parses(core, c, f, step, parsed) ==
    /\ HandledOK(c, core.juliet[c], f, step)
    /\ parsed = WithChannel(core, c, step.chan)

\* process_incoming has changed the state of a channel: a request that was answered
\* is still mapped.
LEMMA ParsedConsistent ==
  ASSUME NEW W, NEW q \in Seq(Items(W)), NEW open \in SUBSET W, NEW limit \in Nat, NEW core,
         Consistent(W, Ledger(q, open, limit, {}), core),
         NEW c \in Channels, NEW id \in Ids, NEW f, f.header.id = id, NEW step, NEW parsed,
         Parses(core, c, f, step, parsed),
         NEW gap, gap = Answered(c, id, step.outcome)
  PROVE  /\ Consistent(W, Ledger(q, open, limit, gap), parsed)
         /\ Aside(core, parsed)
         /\ parsed.result = core.result
         /\ parsed.pending_error = core.pending_error
  <1> DEFINE l == Ledger(q, open, limit, {})
             l2 == Ledger(q, open, limit, gap)
             ch == step.chan
  <1>1. CoreOK(W, core) /\ ChannelOK(c, ch) /\ parsed = [core EXCEPT !.juliet[c] = ch]
    BY DEF Consistent, HandledOK, WithChannel, Parses
  <1>2. /\ ch.prev_request_id = core.juliet[c].prev_request_id
        /\ ch.outgoing_requests = {i \in core.juliet[c].outgoing_requests : <<c, i>> \notin gap}
        /\ gap # {} => gap = {<<c, id>>} /\ id \in core.juliet[c].outgoing_requests
    BY DEF HandledOK, Answered, Parses
  <1> HIDE DEF ch
  <1>3. /\ CoreOK(W, parsed)
        /\ Aside(core, parsed)
        /\ parsed.wait_queue = core.wait_queue
        /\ parsed.request_map = core.request_map
        /\ parsed.buffered_requests = core.buffered_requests
        /\ parsed.pending_error = core.pending_error
        /\ parsed.result = core.result
        /\ parsed.juliet[c] = ch
        /\ \A d \in Channels \ {c} : parsed.juliet[d] = core.juliet[d]
    <2> DEFINE k == [core EXCEPT !.juliet[c] = ch]
    <2>1. /\ CoreOK(W, k)
          /\ Aside(core, k)
          /\ k.wait_queue = core.wait_queue
          /\ k.request_map = core.request_map
          /\ k.buffered_requests = core.buffered_requests
          /\ k.pending_error = core.pending_error
          /\ k.result = core.result
          /\ k.juliet[c] = ch
          /\ \A d \in Channels \ {c} : k.juliet[d] = core.juliet[d]
      BY <1>1, NewChannelState
    <2>2. parsed = k
      BY <1>1
    <2> HIDE DEF k
    <2> QED
      BY <2>1, <2>2
  <1>4. /\ l2.num = l.num /\ l2.io_ids = l.io_ids /\ l2.open = l.open /\ l2.limit = l.limit
        /\ l2.gap = gap /\ l.gap = {}
    BY DEF Ledger
  <1>5. Consistent(W, l, core)
    OBVIOUS
  <1> HIDE DEF l, l2
  <1>6. parsed.result = "Running" => Permits(l2, parsed)
    BY <1>3, <1>4, <1>5 DEF Consistent, Permits
  <1>7. ASSUME parsed.result = "Running", Kept(l2, parsed) PROVE Books(l2, parsed)
    <2>1. Books(l, core)
      BY <1>3, <1>4, <1>5, <1>7 DEF Consistent, Kept
    <2>2. OnePlace(l2, parsed) /\ Accounted(l2, parsed) /\ OneToOne(parsed)
      BY <1>3, <1>4, <2>1 DEF Books, OnePlace, Accounted, OneToOne
    <2>3. \A d \in Channels, i \in Ids :
             IsMapped(parsed, d, i) <=> i \in core.juliet[d].outgoing_requests
      BY <1>3, <1>4, <2>1 DEF Books, InFlight, IsMapped
    <2>4. \A d \in Channels, i \in Ids :
             i \in parsed.juliet[d].outgoing_requests <=>
                 i \in core.juliet[d].outgoing_requests /\ <<d, i>> \notin gap
      BY <1>2, <1>3
    <2>6. InFlight(l2, parsed)
      <3>1. ASSUME NEW g \in gap PROVE IsMapped(parsed, g[1], g[2])
        <4>1. g = <<c, id>> /\ id \in core.juliet[c].outgoing_requests
          BY <1>2, <3>1
        <4> QED
          BY <2>3, <4>1
      <3> QED
        BY <1>4, <2>3, <2>4, <3>1 DEF InFlight
    <2>7. InOrder(l2, parsed)
      <3>1. \A d \in Channels :
               parsed.juliet[d].prev_request_id = core.juliet[d].prev_request_id
        BY <1>2, <1>3
      <3>2. \A m \in core.request_map : m.channel \in Channels
        BY <1>1 DEF CoreOK, CoreStates, Mappings
      <3> QED
        BY <1>3, <1>4, <2>1, <3>1, <3>2 DEF Books, InOrder
    <2> QED
      BY <2>2, <2>6, <2>7 DEF Books
  <1>8. Consistent(W, l2, parsed)
    BY <1>3, <1>4, <1>5, <1>6, <1>7 DEF Consistent
  <1> QED
    BY <1>3, <1>8 DEF l2

\* The events that answer a request of ours, and what is left open.
IsReply(event) == event.kind \in {"ReceivedResponse", "ReceivedCancellationResponse"}

StillOpen(open, event) == IF IsReply(event) THEN open \ {event.io_id} ELSE open

\* What reading a frame does to a core that is running.
ReadOK(W, open, limit, core, read) ==
    /\ read.core.receiver = core.receiver
    /\ read.event.kind = "NewRequest" =>
         read.event.channel \in Channels /\ read.event.id \in Ids
    /\ Consistent(W, Ledger(core.receiver, StillOpen(open, read.event), limit, {}), read.core)

\* A frame that is read without an event for the requests of the core.
LEMMA PlainReadOK ==
  ASSUME NEW W, NEW open, NEW limit, NEW core, NEW core2, Aside(core, core2),
         Consistent(W, Ledger(core.receiver, open, limit, {}), core2),
         NEW event, ~IsReply(event),
         event.kind = "NewRequest" => event.channel \in Channels /\ event.id \in Ids
  PROVE  ReadOK(W, open, limit, core, [core |-> core2, event |-> event])
  BY DEF ReadOK, StillOpen, Aside

\* A frame ends the core.
LEMMA EndedReadOK ==
  ASSUME NEW W, NEW open \in SUBSET W, NEW limit \in Nat, NEW core,
         Consistent(W, Ledger(core.receiver, open, limit, {}), core),
         NEW result \in Results, result \notin {"Running", "InternalError"}
  PROVE  ReadOK(W, open, limit, core, [core |-> Ended(core, result), event |-> NoEvent])
  <1>1. /\ CoreOK(W, Ended(core, result)) /\ Ended(core, result).result = result
        /\ Aside(core, Ended(core, result))
    BY EndedOK DEF Consistent
  <1>2. Consistent(W, Ledger(core.receiver, open, limit, {}), Ended(core, result))
    BY <1>1 DEF Consistent
  <1>3. ~IsReply(NoEvent) /\ NoEvent.kind # "NewRequest"
    BY DEF IsReply, NoEvent, Event
  <1> QED
    BY <1>1, <1>2, <1>3, PlainReadOK

\* A frame that is read where it begins is one process_incoming can handle.
LEMMA ReadableLegible ==
  ASSUME NEW ch, NEW f \in FramesOf(Kind \cup ErrorKind), f.header.kind \in Kind,
         Readable(ch, f)
  PROVE  Legible(ch, f)
  <1>1. f.header \in FrameHeaders
    BY MessageHeaderFacts DEF FramesOf, MessageHeaders, FrameHeaders, Channels
  <1>2. f.len \in Nat \cup {NoLen} /\ (f.len # NoLen => f.off \in 1 .. VarintMaxLen)
    BY DEF FramesOf
  <1> QED
    BY <1>1, <1>2 DEF Legible, Readable, Prefixed, BadLen, NoLen

\* A frame that breaks the protocol: an error is injected.
LEMMA FatalReadOK ==
  ASSUME NEW W, NEW open \in SUBSET W, NEW limit \in Nat, NEW core, NEW parsed,
         Aside(core, parsed), parsed.result = "Running",
         Consistent(W, Ledger(core.receiver, open, limit, {}), parsed),
         NEW kind \in ErrorKind, NEW c \in Channels, NEW id \in Ids
  PROVE  ReadOK(W, open, limit, core,
                [core |-> [InjectError(parsed, Header(kind, c, id), NoPayload)
                              EXCEPT !.fell_through = TRUE],
                 event |-> NoEvent])
  <1> DEFINE l == Ledger(core.receiver, open, limit, {})
             none == NoPayload
             k == InjectError(parsed, Header(kind, c, id), none)
             core2 == [k EXCEPT !.fell_through = TRUE]
  <1>1. none \in Nat \cup {NoPayload} /\ CoreOK(W, parsed)
    BY DEF Consistent
  <1>2. parsed.receiver \in Seq(Items(W)) /\ parsed.receiver = core.receiver
    BY <1>1 DEF CoreOK, CoreStates, Aside
  <1>3. l \in Ledgers(W)
    BY <1>2, LedgerType
  <1> HIDE DEF l, none
  <1>4. CoreOK(W, k) /\ Aside(parsed, k) /\ Fails(parsed, k)
    BY <1>1, InjectErrorOK
  <1> HIDE DEF k
  <1>5. Consistent(W, l, k)
    <2>1. Consistent(W, l, parsed)
      BY DEF l
    <2> QED
      BY <1>3, <1>4, <2>1, FailsConsistent
  <1>6. CoreOK(W, core2) /\ OnlyQueued(k, core2) /\ core2.receiver = k.receiver
    BY <1>4 DEF CoreOK, CoreStates, OnlyQueued
  <1> HIDE DEF core2
  <1>7. Consistent(W, l, core2)
    BY <1>3, <1>5, <1>6, OnlyQueuedConsistent
  <1>8. core2.receiver = core.receiver
    BY <1>2, <1>4, <1>6 DEF Aside
  <1>9. ReadOK(W, open, limit, core, [core |-> core2, event |-> NoEvent])
    BY <1>7, <1>8 DEF ReadOK, StillOpen, IsReply, NoEvent, Event, l
  <1> QED
    BY <1>9 DEF core2, k, none

\* An answer is read, after the wait queue has been processed or not.
LEMMA AnsweredReadOK ==
  ASSUME NEW W, NEW open \in SUBSET W, NEW limit \in Nat, NEW core, NEW core2,
         Aside(core, core2), core2.result = "Running", core2.pending_error = NoFrame,
         NEW c \in Channels, NEW id \in Ids,
         Consistent(W, Ledger(core.receiver, open, limit, {<<c, id>>}), core2),
         NEW kind \in {"ReceivedResponse", "ReceivedCancellationResponse"}
  PROVE  ReadOK(W, open, limit, core, AnswerRead(core2, kind, c, id))
  <1> DEFINE read == AnswerRead(core2, kind, c, id)
             q == core.receiver
  <1>1. q \in Seq(Items(W))
    BY DEF Consistent, CoreOK, CoreStates, Aside
  <1> HIDE DEF q
  <1>2. /\ Aside(core2, read.core)
        /\ \/ /\ read.event = NoEvent
              /\ Consistent(W, Ledger(q, open, limit, {}), read.core)
           \/ /\ read.event.kind = kind
              /\ Consistent(W, Ledger(q, open \ {read.event.io_id}, limit, {}), read.core)
    <2>1. Consistent(W, Ledger(q, open, limit, {<<c, id>>}), core2)
      BY DEF q
    <2> QED
      BY <1>1, <2>1, AnswerReadOK
  <1> HIDE DEF read
  <1>3. read.core.receiver = q
    BY <1>2 DEF Aside, q
  <1>4. CASE read.event = NoEvent /\ Consistent(W, Ledger(q, open, limit, {}), read.core)
    <2>1. read.event.kind # "NewRequest" /\ ~IsReply(read.event)
      BY <1>4 DEF NoEvent, Event, IsReply
    <2> QED
      BY <1>3, <1>4, <2>1 DEF ReadOK, StillOpen, read, q
  <1>5. CASE /\ read.event.kind = kind
             /\ Consistent(W, Ledger(q, open \ {read.event.io_id}, limit, {}), read.core)
    <2>1. read.event.kind # "NewRequest" /\ IsReply(read.event)
      BY <1>5 DEF IsReply
    <2> QED
      BY <1>3, <1>5, <2>1 DEF ReadOK, StillOpen, read, q
  <1> QED
    BY <1>2, <1>4, <1>5

\* A frame has been read.
LEMMA FrameReadOK ==
  ASSUME NEW W, NEW open \in SUBSET W, NEW limit \in Nat, NEW core,
         Consistent(W, Ledger(core.receiver, open, limit, {}), core),
         core.result = "Running", core.pending_error = NoFrame,
         NEW f \in FramesOf(Kind \cup ErrorKind)
  PROVE  ReadOK(W, open, limit, core, FrameRead(core, f))
  <1> DEFINE c == f.header.channel
             id == f.header.id
             step == ProcessFrame(c, core.juliet[c], f)
             parsed == [core EXCEPT !.juliet[c] = step.chan]
             q == core.receiver
             gap == Answered(c, id, step.outcome)
  <1>1. c \in Channels /\ id \in Ids /\ f.header.kind \in Kind \cup ErrorKind
    BY DEF FramesOf, MessageHeaders
  <1>2. CoreOK(W, core) /\ q \in Seq(Items(W))
    BY DEF Consistent, CoreOK, CoreStates
  <1>3. Kind \cap ErrorKind = {}
    BY DEF Kind, ErrorKind
  <1>4. CASE f.header.kind \in ErrorKind
    <2> DEFINE result == "RemoteReportedError"
    <2>1. FrameRead(core, f) = [core |-> Ended(core, result), event |-> NoEvent]
      BY <1>3, <1>4 DEF FrameRead
    <2>2. result \in Results /\ result \notin {"Running", "InternalError"}
      BY DEF Results
    <2> HIDE DEF result
    <2> QED
      BY <2>1, <2>2, EndedReadOK
  <1>5. CASE f.header.kind \in Kind /\ ~Readable(core.juliet[c], f)
    <2> DEFINE result == "Misread"
    <2>1. FrameRead(core, f) = [core |-> Ended(core, result), event |-> NoEvent]
      BY <1>3, <1>5 DEF FrameRead
    <2>2. result \in Results /\ result \notin {"Running", "InternalError"}
      BY DEF Results
    <2> HIDE DEF result
    <2> QED
      BY <2>1, <2>2, EndedReadOK
  <1>6. CASE f.header.kind \in Kind /\ Readable(core.juliet[c], f)
    <2>1. HandledOK(c, core.juliet[c], f, step)
      BY <1>1, <1>2, <1>6, ReadableLegible, ProcessFrameOK DEF CoreOK
    <2>2. /\ Consistent(W, Ledger(q, open, limit, gap), parsed)
          /\ Aside(core, parsed)
          /\ parsed.result = core.result
          /\ parsed.pending_error = core.pending_error
      <3>1. /\ gap = Answered(c, id, step.outcome)
            /\ Parses(core, c, f, step, parsed)
            /\ f.header.id = id
            /\ Consistent(W, Ledger(q, open, limit, {}), core)
        BY <2>1 DEF WithChannel, Parses
      <3> HIDE DEF step, gap, parsed, c, q, id
      <3> QED
        BY <1>1, <1>2, <3>1, ParsedConsistent
    <2>3. step.outcome \in ErrorKind \cup {"Continue", "NewRequest", "RequestCancellation",
                                           "ReceivedResponse", "ResponseCancellation"}
      BY <2>1 DEF HandledOK, FrameEffect, Admits, Completes, Progresses, Answers, Aborts
    <2>4. CASE step.outcome \in ErrorKind
      <3> DEFINE kind == step.outcome
      <3>1. gap = {}
        BY <2>4 DEF IsAnswer, Answered, ErrorKind
      <3>2. FrameRead(core, f) =
              [core |-> [InjectError(parsed, Header(kind, c, id), NoPayload)
                            EXCEPT !.fell_through = TRUE],
               event |-> NoEvent]
        BY <1>3, <1>6, <2>4 DEF FrameRead, ErrorKind
      <3> HIDE DEF kind, parsed, gap, c, id
      <3> QED
        BY <1>1, <2>2, <2>4, <3>1, <3>2, FatalReadOK DEF kind
    <2>5. CASE step.outcome \in {"Continue", "NewRequest", "RequestCancellation"}
      <3> DEFINE event == IF step.outcome = "Continue" THEN NoEvent
                          ELSE IF step.outcome = "NewRequest" THEN Event("NewRequest", c, id, 0)
                          ELSE Event("RequestCancelled", c, id, 0)
      <3>1. gap = {}
        BY <2>5 DEF IsAnswer, Answered
      <3>2. FrameRead(core, f) = [core |-> parsed, event |-> event]
        BY <1>3, <1>6, <2>5 DEF FrameRead, ErrorKind
      <3>3. ~IsReply(event) /\ (event.kind = "NewRequest" => event.channel \in Channels
                                                            /\ event.id \in Ids)
        BY <1>1, <2>5 DEF Event, NoEvent, IsReply
      <3> HIDE DEF event, parsed, gap
      <3> QED
        BY <2>2, <3>1, <3>2, <3>3, PlainReadOK
    <2>6. CASE step.outcome = "ReceivedResponse"
      <3> DEFINE promoted == ProcessWaitQueue(parsed, c)
                 kind == "ReceivedResponse"
                 l == Ledger(q, open, limit, gap)
      <3>1. gap = {<<c, id>>}
        BY <2>6 DEF IsAnswer, Answered
      <3>2. FrameRead(core, f) = IF promoted.result # "Running"
                                 THEN [core |-> promoted, event |-> NoEvent]
                                 ELSE AnswerRead(promoted, kind, c, id)
        BY <1>3, <1>6, <2>6 DEF FrameRead, ErrorKind
      <3>3. l \in Ledgers(W)
        BY <1>1, <1>2, <3>1, LedgerType
      <3> HIDE DEF parsed, step, l, gap
      <3>4. /\ Consistent(W, l, promoted)
            /\ Aside(parsed, promoted)
            /\ promoted.result = "Running" => promoted.pending_error = parsed.pending_error
        BY <1>1, <2>2, <3>3, ProcessWaitQueueOK DEF l
      <3> HIDE DEF promoted
      <3>5. Aside(core, promoted)
        BY <2>2, <3>4 DEF Aside
      <3>6. CASE promoted.result # "Running"
        <4>1. Consistent(W, Ledger(q, open, limit, {}), promoted)
          BY <3>4, <3>6 DEF Consistent, l, Ledger
        <4>2. ~IsReply(NoEvent) /\ NoEvent.kind # "NewRequest"
          BY DEF IsReply, NoEvent, Event
        <4> QED
          BY <3>2, <3>5, <3>6, <4>1, <4>2, PlainReadOK
      <3>7. CASE promoted.result = "Running"
        <4>1. kind \in {"ReceivedResponse", "ReceivedCancellationResponse"}
          OBVIOUS
        <4>2. Consistent(W, Ledger(core.receiver, open, limit, {<<c, id>>}), promoted)
          BY <3>1, <3>4 DEF l
        <4> HIDE DEF kind, c, id
        <4> QED
          BY <1>1, <2>2, <3>2, <3>4, <3>5, <3>7, <4>1, <4>2, AnsweredReadOK
      <3> QED
        BY <3>6, <3>7
    <2>7. CASE step.outcome = "ResponseCancellation"
      <3> DEFINE kind == "ReceivedCancellationResponse"
      <3>1. gap = {<<c, id>>}
        BY <2>7 DEF IsAnswer, Answered
      <3>2. FrameRead(core, f) = AnswerRead(parsed, kind, c, id)
        BY <1>3, <1>6, <2>7 DEF FrameRead, ErrorKind
      <3>3. kind \in {"ReceivedResponse", "ReceivedCancellationResponse"}
        OBVIOUS
      <3> HIDE DEF parsed, kind, gap, c, id
      <3> QED
        BY <1>1, <2>2, <3>1, <3>2, <3>3, AnsweredReadOK
    <2> QED
      BY <2>3, <2>4, <2>5, <2>6, <2>7
  <1> QED
    BY <1>1, <1>4, <1>5, <1>6

\* A new core.
LEMMA NewCoreOK ==
  ASSUME NEW W
  PROVE  /\ Consistent(W, Ledger(NewCore.receiver, {}, 0, {}), NewCore)
         /\ NewCore.receiver = <<>> /\ NewCore.result = "Running"
  <1> DEFINE l == Ledger(<<>>, {}, 0, {})
  <1>1. \A c \in Channels : ChannelOK(c, NewChannel)
    BY NewChannelOK
  <1>2. /\ NewCore \in CoreStates(W)
        /\ \A c \in Channels : NewCore.juliet[c] = NewChannel
        /\ \A c \in Channels : NewCore.wait_queue[c] = <<>>
        /\ NewCore.receiver = <<>> /\ NewCore.request_map = {}
        /\ NewCore.buffered_requests = BufferSize /\ NewCore.result = "Running"
    <2>1. <<>> \in Seq(Items(W)) /\ <<>> \in Seq(Messages)
      BY EmptySeq
    <2>2. NoHeader \in Headers
      BY DEF NoHeader, Headers, Header
    <2>3. \A c \in Channels : NewChannel \in ChannelStates
      BY <1>1 DEF ChannelOK
    <2>4. "Running" \in Results
      BY DEF Results
    <2> QED
      BY <2>1, <2>2, <2>3, <2>4, IoAssumption DEF NewCore, CoreStates
  <1> HIDE DEF NewCore
  <1>3. CoreOK(W, NewCore)
    <2>1. \A c \in Channels : <<>> \in Seq(WaitItems(W, c))
      BY EmptySeq
    <2> QED
      BY <1>1, <1>2, <2>1 DEF CoreOK
  <1>4. /\ \A c \in Channels : l.num[c] = 0 /\ NumRequests(NewCore.wait_queue[c], c) = 0
        /\ l.io_ids = {} /\ l.open = {} /\ l.limit = 0 /\ l.gap = {}
    BY <1>2, CountEmpty, IoIdsEmpty DEF Ledger
  <1>5. \A c \in Channels : QueuedIoIds(NewCore.wait_queue[c]) = {}
                            /\ Distinct(NewCore.wait_queue[c])
    BY <1>2, IoIdsEmpty
  <1> HIDE DEF l
  <1>6. Permits(l, NewCore)
    BY <1>2, <1>4, IoAssumption DEF Permits
  <1>7. Books(l, NewCore)
    <2>1. \A c \in Channels : NewCore.juliet[c].outgoing_requests = {}
                              /\ NewCore.juliet[c].prev_request_id = 0
      BY <1>2 DEF NewChannel
    <2>2. OnePlace(l, NewCore) /\ Accounted(l, NewCore) /\ OneToOne(NewCore)
      BY <1>2, <1>4, <1>5 DEF OnePlace, Accounted, OneToOne
    <2>3. InFlight(l, NewCore)
      BY <1>2, <1>4, <2>1 DEF InFlight, IsMapped
    <2>4. InOrder(l, NewCore)
      BY <1>2, <1>4, <2>1 DEF InOrder
    <2> QED
      BY <2>2, <2>3, <2>4 DEF Books
  <1> QED
    BY <1>2, <1>3, <1>6, <1>7 DEF Consistent, l

-----------------------------------------------------------------------------
(* A core and its handles.                                                  *)

\* The handles of a core have made n requests, whose IoIds are the numbers below
\* n; for those in open no event was produced.
Serves(W, core, n, open) ==
    /\ n \in Nat
    /\ open \in SUBSET W
    /\ open \subseteq 0 .. n - 1
    /\ Distinct(core.receiver)
    /\ QueuedIoIds(core.receiver) \subseteq 0 .. n - 1
    /\ Consistent(W, Ledger(core.receiver, open, n, {}), core)

\* An item is put in the channel by a handle, with the permit that request needs.
WithItem(core, item) == [core EXCEPT !.receiver = Append(core.receiver, item)]

WithRequest(core, item, c) ==
    [core EXCEPT !.receiver = Append(core.receiver, item),
                 !.buffered_requests[c] = core.buffered_requests[c] - 1]

\* UnboundedSender::send, for an item that is no request.
LEMMA ItemSentOK ==
  ASSUME NEW W, NEW core, NEW n, NEW open, Serves(W, core, n, open),
         NEW item \in Items(W), ~IsRequest(item)
  PROVE  Serves(W, WithItem(core, item), n, open)
  <1> DEFINE core2 == WithItem(core, item)
             q == core.receiver
             q2 == core2.receiver
             l == Ledger(q, open, n, {})
             l2 == Ledger(q2, open, n, {})
  <1>1. /\ n \in Nat /\ open \in SUBSET W /\ open \subseteq 0 .. n - 1 /\ Distinct(q)
        /\ QueuedIoIds(q) \subseteq 0 .. n - 1 /\ Consistent(W, l, core) /\ CoreOK(W, core)
    BY DEF Serves, Consistent
  <1>2. q \in Seq(Items(W)) /\ q2 = Append(q, item)
    BY <1>1 DEF CoreOK, CoreStates, WithItem
  <1>3. q2 \in Seq(Items(W))
    BY <1>2, AppendProperties
  <1>4. CoreOK(W, core2) /\ OnlyQueued(core, core2)
    BY <1>1, <1>2, <1>3 DEF CoreOK, CoreStates, OnlyQueued, WithItem
  <1> HIDE DEF core2, q, q2
  <1>5. /\ \A c \in Channels : NumRequests(q2, c) = NumRequests(q, c)
        /\ QueuedIoIds(q2) = QueuedIoIds(q) /\ Distinct(q2)
    <2>1. IoIdOf(item) = {} /\ \A c \in Channels : Counts(item, c) = 0
      BY DEF IoIdOf, Counts
    <2>2. \A c \in Channels : NumRequests(q2, c) = NumRequests(q, c) + Counts(item, c)
                              /\ NumRequests(q, c) \in Nat
      BY <1>2, CountAppend, CountType
    <2>3. QueuedIoIds(q2) = QueuedIoIds(q) \cup IoIdOf(item)
          /\ (Distinct(q) /\ IoIdOf(item) \cap QueuedIoIds(q) = {} => Distinct(q2))
      BY <1>2, IoIdsAppend
    <2> QED
      BY <1>1, <2>1, <2>2, <2>3
  <1>6. l \in Ledgers(W) /\ l2 \in Ledgers(W)
    BY <1>1, <1>2, <1>3, LedgerType
  <1>7. /\ l2.io_ids = l.io_ids /\ l2.open = l.open /\ l2.limit = l.limit /\ l2.gap = l.gap
        /\ \A c \in Channels : l2.num[c] = l.num[c]
    BY <1>5 DEF Ledger
  <1> HIDE DEF l, l2
  <1>8. Consistent(W, l2, core2)
    BY <1>1, <1>4, <1>6, <1>7, OnlyQueuedConsistent
  <1> QED
    BY <1>1, <1>5, <1>8 DEF Serves, l2, q2, core2

\* enqueue_request: the permit the request was given goes with it, and its IoId is
\* one that no request had before.
LEMMA RequestSentOK ==
  ASSUME NEW W, NEW core, NEW n, NEW open, Serves(W, core, n, open),
         core.result = "Running", NEW c \in Channels, core.buffered_requests[c] > 0,
         NEW item \in Items(W), IsRequest(item), item.channel = c, item.io_id = n
  PROVE  Serves(W, WithRequest(core, item, c), n + 1, open \cup {n})
  <1> DEFINE core2 == WithRequest(core, item, c)
             q == core.receiver
             q2 == core2.receiver
             l == Ledger(q, open, n, {})
             l2 == Ledger(q2, open \cup {n}, n + 1, {})
             b == [core.buffered_requests EXCEPT ![c] = core.buffered_requests[c] - 1]
  <1>1. /\ n \in Nat /\ open \in SUBSET W /\ open \subseteq 0 .. n - 1 /\ Distinct(q)
        /\ QueuedIoIds(q) \subseteq 0 .. n - 1 /\ Consistent(W, l, core) /\ CoreOK(W, core)
        /\ n \in W
    BY ItemFacts DEF Serves, Consistent
  <1>2. /\ q \in Seq(Items(W)) /\ core.buffered_requests \in [Channels -> Nat]
        /\ core2 = [core EXCEPT !.receiver = Append(q, item), !.buffered_requests = b]
        /\ q2 = Append(q, item)
    BY <1>1 DEF CoreOK, CoreStates, WithRequest
  <1>3. q2 \in Seq(Items(W)) /\ Append(q, item) \in Seq(Items(W))
    BY <1>2, AppendProperties
  <1>4. /\ b \in [Channels -> Nat] /\ b[c] = core.buffered_requests[c] - 1
        /\ \A d \in Channels \ {c} : b[d] = core.buffered_requests[d]
    BY <1>2
  <1> HIDE DEF core2, q, q2, b
  <1>5. /\ CoreOK(W, core2) /\ core2.juliet = core.juliet
        /\ core2.wait_queue = core.wait_queue /\ core2.request_map = core.request_map
        /\ core2.buffered_requests = b /\ core2.pending_error = core.pending_error
        /\ core2.result = core.result
    BY <1>1, <1>2, <1>3, <1>4 DEF CoreOK, CoreStates
  <1>6. IoIdOf(item) = {n} /\ \A d \in Channels : Counts(item, d) = IF d = c THEN 1 ELSE 0
    BY DEF IoIdOf, Counts
  <1>7. \A d \in Channels : NumRequests(q2, d) = NumRequests(q, d) + Counts(item, d)
                            /\ NumRequests(q, d) \in Nat
    BY <1>2, CountAppend, CountType
  <1>8. QueuedIoIds(q2) = QueuedIoIds(q) \cup {n} /\ Distinct(q2)
    <2>1. QueuedIoIds(q2) = QueuedIoIds(q) \cup IoIdOf(item)
          /\ (Distinct(q) /\ IoIdOf(item) \cap QueuedIoIds(q) = {} => Distinct(q2))
      BY <1>2, IoIdsAppend
    <2>2. n \notin QueuedIoIds(q)
      BY <1>1
    <2> QED
      BY <1>1, <1>6, <2>1, <2>2
  <1>9. l \in Ledgers(W) /\ l2 \in Ledgers(W)
    <2>1. n + 1 \in Nat /\ open \cup {n} \in SUBSET W
      BY <1>1
    <2> QED
      BY <1>1, <1>2, <1>3, <2>1, LedgerType
  <1>10. /\ l2.io_ids = l.io_ids \cup {n} /\ l2.open = l.open \cup {n} /\ l.open = open
         /\ l2.limit = n + 1 /\ l.limit = n /\ l2.gap = l.gap
         /\ l.io_ids = QueuedIoIds(q)
         /\ \A d \in Channels : l2.num[d] = l.num[d] + Counts(item, d)
    BY <1>7, <1>8 DEF Ledger
  <1> HIDE DEF l, l2
  <1>11. Permits(l2, core2)
    <2> SUFFICES ASSUME NEW d \in Channels
                 PROVE  core2.buffered_requests[d] + l2.num[d]
                          + NumRequests(core2.wait_queue[d], d) = BufferSize[d]
      BY DEF Permits
    <2>1. core.buffered_requests[d] + l.num[d] + NumRequests(core.wait_queue[d], d)
            = BufferSize[d]
      BY <1>1 DEF Consistent, Permits
    <2>2. /\ l.num[d] \in Nat /\ core.buffered_requests[d] \in Nat
          /\ NumRequests(core.wait_queue[d], d) \in Nat /\ BufferSize[d] \in Nat
      BY <1>1, <1>9, BookNumbers
    <2>3. core2.buffered_requests[d] = core.buffered_requests[d] - Counts(item, d)
      BY <1>4, <1>5, <1>6, <2>2
    <2>4. l2.num[d] = l.num[d] + Counts(item, d) /\ Counts(item, d) \in {0, 1}
      BY <1>6, <1>10
    <2> QED
      BY <1>5, <2>1, <2>2, <2>3, <2>4
  <1>12. ASSUME Kept(l2, core2) PROVE Books(l2, core2)
    <2>1. Books(l, core)
      <3>1. n < IdCount
        BY <1>1, <1>10, <1>12, WireAssumption DEF Kept
      <3> QED
        BY <1>1, <1>5, <1>10, <1>12, <3>1 DEF Consistent, Kept
    <2>2. n \notin l.open
      BY <1>1, <1>10
    <2>3. /\ \A d \in Channels : n \notin QueuedIoIds(core.wait_queue[d])
          /\ \A m \in core.request_map : m.io_id # n
      BY <2>1, <2>2 DEF Books, Accounted
    <2>4. OnePlace(l2, core2) /\ OneToOne(core2)
      BY <1>5, <1>10, <2>1, <2>3 DEF Books, OnePlace, OneToOne
    <2>5. Accounted(l2, core2)
      BY <1>5, <1>10, <2>1 DEF Books, Accounted
    <2>6. InFlight(l2, core2)
      BY <1>5, <1>10, <2>1 DEF Books, InFlight, IsMapped
    <2>7. InOrder(l2, core2)
      <3>1. ASSUME NEW d \in Channels
            PROVE  core2.juliet[d].prev_request_id + l2.num[d]
                     + NumRequests(core2.wait_queue[d], d) <= l2.limit
        <4>1. core.juliet[d].prev_request_id + l.num[d] + NumRequests(core.wait_queue[d], d)
                <= n
          BY <1>10, <2>1 DEF Books, InOrder
        <4>2. /\ l.num[d] \in Nat /\ core.juliet[d].prev_request_id \in Nat
              /\ NumRequests(core.wait_queue[d], d) \in Nat
          BY <1>1, <1>9, BookNumbers
        <4>3. l2.num[d] = l.num[d] + Counts(item, d) /\ Counts(item, d) \in {0, 1}
          BY <1>6, <1>10
        <4> QED
          BY <1>1, <1>5, <1>10, <4>1, <4>2, <4>3
      <3> QED
        BY <1>5, <2>1, <3>1 DEF Books, InOrder
    <2> QED
      BY <2>4, <2>5, <2>6, <2>7 DEF Books
  <1>13. Consistent(W, l2, core2)
    BY <1>5, <1>11, <1>12 DEF Consistent
  <1>14. open \cup {n} \subseteq 0 .. n /\ QueuedIoIds(q2) \subseteq 0 .. n
    BY <1>1, <1>8
  <1> QED
    BY <1>1, <1>8, <1>13, <1>14 DEF Serves, l2, q2, core2

\* The ledger of a core that serves its handles.
LEMMA ServesLedger ==
  ASSUME NEW W, NEW core, NEW n, NEW open, Serves(W, core, n, open)
  PROVE  /\ Ledger(core.receiver, open, n, {}) \in Ledgers(W)
         /\ Consistent(W, Ledger(core.receiver, open, n, {}), core)
         /\ CoreOK(W, core)
  <1>1. CoreOK(W, core)
    BY DEF Serves, Consistent
  <1>2. core.receiver \in Seq(Items(W))
    BY <1>1 DEF CoreOK, CoreStates
  <1> QED
    BY <1>1, <1>2, LedgerType DEF Serves

\* A core ends for a reason that is no fault of its books.
LEMMA EndedServes ==
  ASSUME NEW W, NEW core, NEW n, NEW open, Serves(W, core, n, open),
         NEW result \in Results, result \notin {"Running", "InternalError"}
  PROVE  Serves(W, Ended(core, result), n, open)
  <1>1. /\ CoreOK(W, Ended(core, result)) /\ Ended(core, result).result = result
        /\ Aside(core, Ended(core, result))
    BY ServesLedger, EndedOK
  <1> QED
    BY <1>1 DEF Serves, Aside, Consistent

\* The write branch, and the preparation of a frame.
LEMMA WriteServes ==
  ASSUME NEW W, NEW core, NEW n, NEW open, Serves(W, core, n, open)
  PROVE  /\ Serves(W, ReadyNextFrame(core), n, open)
         /\ core.result = "Running" /\ core.current_frame # NoFrame =>
              Serves(W, FrameWritten(core), n, open)
  <1> DEFINE l == Ledger(core.receiver, open, n, {})
  <1>1. l \in Ledgers(W) /\ Consistent(W, l, core)
    BY ServesLedger
  <1> HIDE DEF l
  <1>2. Consistent(W, l, ReadyNextFrame(core)) /\ ReadyNextFrame(core).receiver = core.receiver
    BY <1>1, ReadyNextFrameOK
  <1>3. core.result = "Running" /\ core.current_frame # NoFrame =>
          Consistent(W, l, FrameWritten(core)) /\ FrameWritten(core).receiver = core.receiver
    BY <1>1, FrameWrittenOK
  <1> QED
    BY <1>2, <1>3 DEF Serves, l

\* The receive branch.
LEMMA ReceiveServes ==
  ASSUME NEW W, NEW core, NEW n, NEW open, Serves(W, core, n, open), NEW dropped
  PROVE  Serves(W, ItemsReceived(core, dropped), n, open)
  <1> DEFINE core2 == ItemsReceived(core, dropped)
  <1>1. Consistent(W, Ledger(<<>>, open, n, {}), core2) /\ core2.receiver = <<>>
    BY ItemsReceivedOK DEF Serves
  <1>2. QueuedIoIds(<<>>) = {} /\ Distinct(<<>>)
    BY IoIdsEmpty
  <1> HIDE DEF core2
  <1> QED
    BY <1>1, <1>2 DEF Serves, core2

\* A frame that is read.
LEMMA ReadServes ==
  ASSUME NEW W, NEW core, NEW n, NEW open, Serves(W, core, n, open),
         core.result = "Running", core.pending_error = NoFrame,
         NEW f \in FramesOf(Kind \cup ErrorKind)
  PROVE  LET read == FrameRead(core, f)
         IN  /\ Serves(W, read.core, n, StillOpen(open, read.event))
             /\ read.event.kind = "NewRequest" =>
                  read.event.channel \in Channels /\ read.event.id \in Ids
  <1> DEFINE read == FrameRead(core, f)
  <1>1. ReadOK(W, open, n, core, read)
    BY FrameReadOK DEF Serves
  <1> HIDE DEF read
  <1>2. StillOpen(open, read.event) \subseteq open
    BY DEF StillOpen
  <1> QED
    BY <1>1, <1>2 DEF Serves, ReadOK, read

\* What the books say, in the words of the properties: the open requests wait or are
\* mapped, and the mapped ones are in flight.
LEMMA BooksKept ==
  ASSUME NEW W, NEW core, NEW n, NEW open, Serves(W, core, n, open),
         core.result = "Running", core.pending_error = NoFrame, n < IdCount
  PROVE  LET waiting == QueuedIoIds(core.receiver)
                            \cup UNION {QueuedIoIds(core.wait_queue[c]) : c \in Channels}
             mapped  == {m.io_id : m \in core.request_map}
         IN  /\ open = waiting \cup mapped
             /\ waiting \cap mapped = {}
             /\ {<<m.channel, m.id>> : m \in core.request_map} =
                  UNION {{<<c, id>> : id \in core.juliet[c].outgoing_requests} : c \in Channels}
  <1> DEFINE l == Ledger(core.receiver, open, n, {})
  <1>1. /\ l.io_ids = QueuedIoIds(core.receiver) /\ l.open = open /\ l.gap = {} /\ l.limit = n
    BY DEF Ledger
  <1>2. CoreOK(W, core) /\ Consistent(W, l, core)
    BY ServesLedger
  <1> HIDE DEF l
  <1>3. Books(l, core)
    BY <1>1, <1>2 DEF Consistent, Kept
  <1> DEFINE waiting == QueuedIoIds(core.receiver)
                            \cup UNION {QueuedIoIds(core.wait_queue[c]) : c \in Channels}
             mapped == {m.io_id : m \in core.request_map}
  <1>4. \A x : x \in waiting <=> \/ x \in l.io_ids
                                 \/ \E c \in Channels : x \in QueuedIoIds(core.wait_queue[c])
    BY <1>1
  <1>5. \A x : x \in mapped <=> \E m \in core.request_map : m.io_id = x
    OBVIOUS
  <1> HIDE DEF waiting, mapped
  <1>6. \A x : x \in open <=> x \in waiting \cup mapped
    BY <1>1, <1>3, <1>4, <1>5 DEF Books, Accounted
  <1>7. \A x : ~(x \in waiting /\ x \in mapped)
    BY <1>3, <1>4, <1>5 DEF Books, OnePlace
  <1>8. \A m \in core.request_map : m.channel \in Channels /\ m.id \in Ids
    BY <1>2 DEF CoreOK, CoreStates, Mappings
  <1>9. \A c \in Channels : core.juliet[c].outgoing_requests \subseteq Ids
    BY <1>2 DEF CoreOK, CoreStates, ChannelStates
  <1>10. \A c \in Channels, id \in Ids :
            id \in core.juliet[c].outgoing_requests <=> IsMapped(core, c, id)
    BY <1>1, <1>3 DEF Books, InFlight
  <1>11. {<<m.channel, m.id>> : m \in core.request_map} =
           UNION {{<<c, id>> : id \in core.juliet[c].outgoing_requests} : c \in Channels}
    BY <1>8, <1>9, <1>10 DEF IsMapped
  <1>12. open = waiting \cup mapped /\ waiting \cap mapped = {}
    BY <1>6, <1>7
  <1> QED
    BY <1>11, <1>12 DEF waiting, mapped

\* A new core serves its handles.
LEMMA NewServes ==
  ASSUME NEW W
  PROVE  Serves(W, NewCore, 0, {})
  <1>1. QueuedIoIds(<<>>) = {} /\ Distinct(<<>>)
    BY IoIdsEmpty
  <1>2. Consistent(W, Ledger(NewCore.receiver, {}, 0, {}), NewCore) /\ NewCore.receiver = <<>>
    BY NewCoreOK
  <1> QED
    BY <1>1, <1>2 DEF Serves

=============================================================================
