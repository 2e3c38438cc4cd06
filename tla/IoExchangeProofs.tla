-------------------------- MODULE IoExchangeProofs --------------------------
(***************************************************************************)
(* Proofs that two cores which cooperate never make each other fail, agree *)
(* on the requests in flight and send one multi-frame message at a time,   *)
(* for every number of channels and IDs, every configuration, and every    *)
(* number of requests and frames in transit.                               *)
(*                                                                         *)
(* The invariant follows the messages from one core to the other: those of *)
(* which a frame is on the transport or about to be written, in order, and *)
(* then those in the queue.  Each frame finds the receivers of the peer in *)
(* the state it needs, which is the one that the frames before it lead to; *)
(* and every slot of a channel is taken by a request that is on its way,   *)
(* held by the peer or on its way back as an answer.                       *)
(***************************************************************************)
EXTENDS IoPeersProofs

-----------------------------------------------------------------------------
(* Messages on their way.                                                   *)

AskKinds    == {"Request", "RequestPl"}
AnswerKinds == {"Response", "ResponsePl", "CancelResp"}

\* Messages that take more than one frame.
Long(m) == PayloadIsMultiFrame(m.payload)

\* The messages that the two peers send each other, as far as they have been cut.
Traffic ==
    {m \in Messages :
        /\ m.header.kind # "CancelReq"
        /\ m.header.kind \in {"RequestPl", "ResponsePl"} <=> m.payload # NoPayload
        /\ m.payload # NoPayload => m.payload <= MaxPayload(m.header)
        /\ m.processed = 0 \/ (Long(m) /\ m.processed \in 1 .. m.payload - 1)}

\* Two requests, or two answers, with the same channel and ID.
Alike(m, n) ==
    /\ m.header.kind \in AskKinds <=> n.header.kind \in AskKinds
    /\ m.header.channel = n.header.channel
    /\ m.header.id = n.header.id

\* Where a receiver has to be to go on with a message.
At(m) == IF m.processed = 0 THEN Ready ELSE InProgress(m.header, m.processed, m.payload)

ReceiverStates == [Channels -> Receivers]

\* The receivers after the next frame of a message.
Past(r, m) ==
    IF Long(m)
    THEN [r EXCEPT ![m.header.channel] = IF IsFinalFrame(m) THEN Ready ELSE At(AfterFrame(m))]
    ELSE r

\* The next frame of m is understood by receivers r, and leads to r2.
Follows(r, m, r2) ==
    /\ IF Long(m) THEN r[m.header.channel] = At(m)
                  ELSE m.header # r[m.header.channel].header
    /\ r2 = Past(r, m)

\* A line T of messages and what receivers R go through when they read them: one frame
\* of each of the first is on its way, the others are still in the queue.
Links(T, R) == \A i \in 1 .. Len(R) - 1 : Follows(R[i], T[i], R[i + 1])

\* What was begun goes on.
GoesOn(T, R) ==
    \A i \in 1 .. Len(R) : \A c \in Channels :
        R[i][c] # Ready =>
            \E j \in i .. Len(T) : /\ T[j].header.channel = c /\ Long(T[j])
                                   /\ At(T[j]) = R[i][c]

\* A message of several frames in the queue is the one that was begun, if one was.
Resumes(T, R) ==
    \A j \in Len(R) .. Len(T) : Long(T[j]) => R[Len(R)][T[j].header.channel] = At(T[j])

\* Nothing follows the last frame of a message, and nothing goes before its first.
InTurn(T) ==
    \A i, j \in 1 .. Len(T) :
        i < j /\ Alike(T[i], T[j]) => ~IsFinalFrame(T[i]) /\ T[j].processed # 0

\* Two messages of several frames on one channel.
Clash(m, n) == Long(m) /\ Long(n) /\ m.header.channel = n.header.channel

\* The messages in the queue are different ones, and do not clash.
Apart(T, R) ==
    \A i, j \in Len(R) .. Len(T) : i # j => ~Alike(T[i], T[j]) /\ ~Clash(T[i], T[j])

Ordered(T, R) ==
    /\ T \in Seq(Traffic) /\ R \in Seq(ReceiverStates)
    /\ Len(R) \in 1 .. Len(T) + 1
    /\ Links(T, R) /\ GoesOn(T, R) /\ Resumes(T, R) /\ InTurn(T) /\ Apart(T, R)

\* What can be said of every message.
LEMMA TrafficFacts ==
  ASSUME NEW m \in Traffic
  PROVE  /\ m \in Messages /\ m.header.channel \in Channels /\ m.header.id \in Ids
         /\ m.header.kind \in AskKinds \cup AnswerKinds /\ m.header # NoHeader
         /\ m = [header |-> m.header, payload |-> m.payload, processed |-> m.processed]
         /\ ~Long(m) => m.processed = 0
         /\ Long(m) => m.header.kind \in {"RequestPl", "ResponsePl"} /\ m.payload \in Nat
         /\ m.processed \in Nat
         /\ m.header.kind \in {"RequestPl", "ResponsePl"} => m.payload \in Nat
         /\ m.header.kind \notin {"RequestPl", "ResponsePl"} => m.payload = NoPayload
  BY DEF Traffic, Messages, MessageHeaders, Kind, AskKinds, AnswerKinds, NoHeader, Header, Long,
     PayloadIsMultiFrame

\* Such a message is an iterator with something left to cut.
LEMMA TrafficIterators ==
  ASSUME NEW m \in Traffic, m.payload # NoPayload
  PROVE  m \in Iterators /\ Unfinished(m)
  <1>1. Channels \subseteq Nat /\ Ids \subseteq Nat
    BY WireAssumption DEF Channels, Ids
  <1>2. m \in Messages /\ m.payload \in Nat /\ m.processed \in Nat
    BY TrafficFacts DEF Messages
  <1>3. m.header \in [kind : Kind, channel : Nat, id : Nat]
    BY <1>1, <1>2 DEF Messages, MessageHeaders
  <1>4. m = [header |-> m.header, payload |-> m.payload, processed |-> m.processed]
    BY TrafficFacts
  <1>5. m \in Iterators
    BY <1>2, <1>3, <1>4, Zenon DEF Iterators
  <1>6. m.processed = 0 \/ m.processed \in 1 .. m.payload - 1
    BY DEF Traffic
  <1> QED
    BY <1>2, <1>5, <1>6 DEF Unfinished

\* next_owned: a message that fits a frame has one, and one that does not fit has more.
LEMMA FinalFacts ==
  ASSUME NEW m \in Traffic
  PROVE  /\ NextFrame(m).header = m.header
         /\ ~Long(m) => IsFinalFrame(m)
         /\ Long(m) /\ m.processed = 0 => ~IsFinalFrame(m)
         /\ ~IsFinalFrame(m) =>
              /\ Long(m) /\ AfterFrame(m) \in Traffic
              /\ AfterFrame(m).header = m.header /\ AfterFrame(m).payload = m.payload
              /\ AfterFrame(m).processed # 0 /\ Long(AfterFrame(m))
  <1>1. NextFrame(m).header = m.header
    BY DEF NextFrame
  <1>2. CASE m.payload = NoPayload
    BY <1>1, <1>2 DEF IsFinalFrame, Long, PayloadIsMultiFrame
  <1>3. CASE m.payload # NoPayload
    <2>1. m \in Iterators /\ Unfinished(m) /\ m \in Messages
      BY <1>3, TrafficIterators, TrafficFacts
    <2> DEFINE f == NextFrame(m)
               off == IF m.processed = 0 THEN LengthOf(m.payload) ELSE 0
               p == m.processed
               a == AfterFrame(m)
    <2>2. /\ f.seg = Least(MaxFrameSize - HeaderSize - off, m.payload - p)
          /\ f.seg \in Nat
          /\ IsFinalFrame(m) <=> p + f.seg = m.payload
      BY <2>1, FrameFacts
    <2>3. /\ a.processed \in p .. m.payload
          /\ m.payload > 0 => a.processed > p
      BY <2>1, FramesFit
    <2>4. a = [m EXCEPT !.processed = p + f.seg]
      BY DEF AfterFrame
    <2> HIDE DEF f, a
    <2>5. a.processed = p + f.seg /\ a.header = m.header /\ a.payload = m.payload
      BY <2>1, <2>4 DEF Messages
    <2>6. m.payload \in Nat /\ p \in Nat /\ LengthOf(m.payload) \in 1 .. VarintMaxLen
      BY <2>1, LengthOfFacts DEF Iterators
    <2>7. Long(m) <=> MaxFrameSize - HeaderSize - LengthOf(m.payload) < m.payload
      BY <1>3 DEF Long, PayloadIsMultiFrame
    <2>8. ~Long(m) => p = 0
      BY TrafficFacts
    <2>9. MaxFrameSize \in Nat /\ HeaderSize = 4
      BY WireAssumption DEF HeaderSize
    <2>10. ~Long(m) => IsFinalFrame(m)
      BY <2>2, <2>6, <2>7, <2>8, <2>9 DEF Least
    <2>11. Long(m) /\ p = 0 => ~IsFinalFrame(m)
      BY <2>2, <2>6, <2>7, <2>9 DEF Least
    <2>12. ASSUME ~IsFinalFrame(m)
           PROVE  Long(m) /\ a \in Traffic /\ a.processed # 0 /\ Long(a)
      <3>1. Long(m) /\ Long(a)
        BY <2>5, <2>10, <2>12 DEF Long
      <3>2. a.processed \in 1 .. a.payload - 1
        BY <2>2, <2>3, <2>5, <2>6, <2>12
      <3>3. a \in Messages
        BY <2>1, <2>2, <2>4, <2>6 DEF Messages
      <3> QED
        BY <2>5, <3>1, <3>2, <3>3 DEF Traffic
    <2> QED
      BY <1>1, <2>5, <2>10, <2>11, <2>12 DEF a
  <1> QED
    BY <1>2, <1>3

\* Where a receiver has to be is a state of a receiver.
LEMMA AtFacts ==
  ASSUME NEW m \in Traffic
  PROVE  /\ At(m) \in Receivers
         /\ At(m) = Ready <=> m.processed = 0
         /\ m.processed # 0 => At(m).header = m.header
         /\ At(m).header \in {m.header, NoHeader}
  <1>1. /\ m.header # NoHeader /\ m.header \in MessageHeaders(Kind) /\ m.processed \in Nat
        /\ ~Long(m) => m.processed = 0
        /\ Long(m) => m.payload \in Nat
    BY TrafficFacts DEF Messages
  <1>2. m.header \in Headers
    BY <1>1, MessageHeaderFacts
  <1>3. Ready \in Receivers /\ Ready.header = NoHeader
    BY DEF Ready, Receivers, NoHeader, Header, Headers
  <1> QED
    BY <1>1, <1>2, <1>3 DEF At, InProgress, Receivers

\* The receivers after a frame.
LEMMA PastFacts ==
  ASSUME NEW r \in ReceiverStates, NEW m \in Traffic
  PROVE  LET c == m.header.channel IN
         /\ Past(r, m) \in ReceiverStates
         /\ Long(m) => Past(r, m)[c] = IF IsFinalFrame(m) THEN Ready ELSE At(AfterFrame(m))
         /\ \A d \in Channels \ {c} : Past(r, m)[d] = r[d]
         /\ ~Long(m) => Past(r, m) = r
  <1>1. ~IsFinalFrame(m) => At(AfterFrame(m)) \in Receivers
    BY FinalFacts, AtFacts
  <1>2. Ready \in Receivers /\ m.header.channel \in Channels
    BY TrafficFacts DEF Ready, Receivers, NoHeader, Header, Headers
  <1> QED
    BY <1>1, <1>2 DEF Past, ReceiverStates

\* A sequence given by its elements.
LEMMA ListedSeq ==
  ASSUME NEW S, NEW n \in Nat, NEW f, \A i \in 1 .. n : f[i] \in S
  PROVE  LET s == [i \in 1 .. n |-> f[i]] IN
         s \in Seq(S) /\ Len(s) = n /\ \A i \in 1 .. n : s[i] = f[i]
  OBVIOUS

\* What is left of a sequence without its first d elements.
Rest(s, d) == [i \in 1 .. Len(s) - d |-> s[i + d]]

\* What is left is a sequence of the same kind, shifted by d.
LEMMA RestFacts ==
  ASSUME NEW S, NEW s \in Seq(S), NEW d \in 0 .. Len(s)
  PROVE  /\ Rest(s, d) \in Seq(S) /\ Len(Rest(s, d)) = Len(s) - d
         /\ \A i \in 1 .. Len(s) - d : i + d \in 1 .. Len(s) /\ Rest(s, d)[i] = s[i + d]
  <1>1. Len(s) \in Nat /\ \A i \in 1 .. Len(s) : s[i] \in S
    BY LenProperties, ElementOfSeq
  <1> DEFINE n == Len(s) - d
             t == [i \in 1 .. n |-> s[i + d]]
  <1>2. n \in Nat /\ \A i \in 1 .. n : i + d \in 1 .. Len(s)
    BY <1>1
  <1>3. t = Rest(s, d)
    BY DEF Rest
  <1>4. \A i \in 1 .. n : t[i] = s[i + d] /\ s[i + d] \in S
    BY <1>1, <1>2
  <1>5. t \in Seq(S) /\ Len(t) = n
    <2> HIDE DEF n
    <2>1. t = [i \in 1 .. n |-> t[i]] /\ \A i \in 1 .. n : t[i] \in S
      BY <1>4
    <2> HIDE DEF t
    <2>2. LET u == [i \in 1 .. n |-> t[i]] IN u \in Seq(S) /\ Len(u) = n
      BY <1>2, <2>1, ListedSeq, Zenon
    <2> QED
      BY <2>1, <2>2, Zenon
  <1> QED
    BY <1>2, <1>3, <1>4, <1>5

\* The first frames have arrived, or are lost.
LEMMA FirstGone ==
  ASSUME NEW T, NEW R, Ordered(T, R), NEW d \in 0 .. Len(R) - 1
  PROVE  Ordered(Rest(T, d), Rest(R, d))
  <1> DEFINE t == Rest(T, d)
             r == Rest(R, d)
  <1>1. /\ T \in Seq(Traffic) /\ R \in Seq(ReceiverStates) /\ Len(R) \in 1 .. Len(T) + 1
        /\ Len(T) \in Nat /\ Len(R) \in Nat /\ d \in 0 .. Len(T) /\ d \in 0 .. Len(R)
    BY LenProperties DEF Ordered
  <1>2. /\ t \in Seq(Traffic) /\ Len(t) = Len(T) - d
        /\ \A i \in 1 .. Len(T) - d : i + d \in 1 .. Len(T) /\ t[i] = T[i + d]
    BY <1>1, RestFacts, Zenon
  <1>3. /\ r \in Seq(ReceiverStates) /\ Len(r) = Len(R) - d
        /\ \A i \in 1 .. Len(R) - d : i + d \in 1 .. Len(R) /\ r[i] = R[i + d]
    BY <1>1, RestFacts, Zenon
  <1> HIDE DEF t, r
  <1>4. Len(r) \in 1 .. Len(t) + 1
    BY <1>1, <1>2, <1>3
  <1>5. Links(t, r)
    <2> SUFFICES ASSUME NEW i \in 1 .. Len(r) - 1 PROVE Follows(r[i], t[i], r[i + 1])
      BY DEF Links
    <2>1. /\ i + d \in 1 .. Len(R) - 1 /\ r[i] = R[i + d] /\ r[i + 1] = R[(i + d) + 1]
          /\ t[i] = T[i + d]
      <3>1. /\ i + d \in 1 .. Len(R) - 1 /\ i \in 1 .. Len(R) - d /\ i + 1 \in 1 .. Len(R) - d
            /\ i \in 1 .. Len(T) - d /\ (i + 1) + d = (i + d) + 1
        <4>1. /\ Len(r) = Len(R) - d /\ Len(R) \in Nat /\ Len(T) \in Nat /\ d \in Nat
              /\ Len(R) <= Len(T) + 1
          BY <1>1, <1>3
        <4> QED
          BY <4>1
      <3>2. r[i] = R[i + d] /\ r[i + 1] = R[(i + 1) + d] /\ t[i] = T[i + d]
        BY <1>2, <1>3, <3>1, Zenon
      <3> QED
        BY <3>1, <3>2, Zenon
    <2> QED
      BY <2>1, Zenon DEF Ordered, Links
  <1>6. GoesOn(t, r)
    <2> SUFFICES ASSUME NEW i \in 1 .. Len(r), NEW c \in Channels, r[i][c] # Ready
                 PROVE  \E j \in i .. Len(t) : /\ t[j].header.channel = c /\ Long(t[j])
                                               /\ At(t[j]) = r[i][c]
      BY DEF GoesOn
    <2>1. i + d \in 1 .. Len(R) /\ r[i] = R[i + d]
      BY <1>1, <1>3
    <2>2. PICK j \in i + d .. Len(T) : /\ T[j].header.channel = c /\ Long(T[j])
                                       /\ At(T[j]) = R[i + d][c]
      BY <2>1 DEF Ordered, GoesOn
    <2>3. j - d \in i .. Len(t) /\ t[j - d] = T[j]
      BY <1>1, <1>2, <1>3, <2>2
    <2> QED
      BY <2>1, <2>2, <2>3
  <1>7. Resumes(t, r)
    <2> SUFFICES ASSUME NEW j \in Len(r) .. Len(t), Long(t[j])
                 PROVE  r[Len(r)][t[j].header.channel] = At(t[j])
      BY DEF Resumes
    <2>1. /\ j + d \in Len(R) .. Len(T) /\ t[j] = T[j + d]
          /\ r[Len(r)] = R[Len(R)]
      <3>1. /\ j + d \in Len(R) .. Len(T) /\ j \in 1 .. Len(T) - d
            /\ Len(r) \in 1 .. Len(R) - d /\ Len(r) + d = Len(R)
        BY <1>1, <1>2, <1>3
      <3> QED
        BY <1>2, <1>3, <3>1
    <2> QED
      BY <2>1 DEF Ordered, Resumes
  <1>8. InTurn(t)
    <2> SUFFICES ASSUME NEW i \in 1 .. Len(t), NEW j \in 1 .. Len(t), i < j, Alike(t[i], t[j])
                 PROVE  ~IsFinalFrame(t[i]) /\ t[j].processed # 0
      BY DEF InTurn
    <2>1. /\ i + d \in 1 .. Len(T) /\ j + d \in 1 .. Len(T) /\ i + d < j + d
          /\ t[i] = T[i + d] /\ t[j] = T[j + d]
      BY <1>1, <1>2
    <2> QED
      BY <2>1, Zenon DEF Ordered, InTurn
  <1>9. Apart(t, r)
    <2> SUFFICES ASSUME NEW i \in Len(r) .. Len(t), NEW j \in Len(r) .. Len(t), i # j
                 PROVE  ~Alike(t[i], t[j]) /\ ~Clash(t[i], t[j])
      BY DEF Apart
    <2>1. /\ i + d \in Len(R) .. Len(T) /\ j + d \in Len(R) .. Len(T) /\ i + d # j + d
          /\ t[i] = T[i + d] /\ t[j] = T[j + d]
      BY <1>1, <1>2, <1>3
    <2> QED
      BY <2>1, Zenon DEF Ordered, Apart
  <1> QED
    BY <1>2, <1>3, <1>4, <1>5, <1>6, <1>7, <1>8, <1>9 DEF Ordered, t, r

\* Putting one more element at the end.
LEMMA AppendFacts ==
  ASSUME NEW S, NEW s \in Seq(S), NEW x \in S
  PROVE  /\ Append(s, x) \in Seq(S) /\ Len(Append(s, x)) = Len(s) + 1 /\ Len(s) \in Nat
         /\ Append(s, x)[Len(s) + 1] = x
         /\ \A i \in 1 .. Len(s) : Append(s, x)[i] = s[i]
  BY AppendProperties, LenProperties

\* A new message may join the queue.
Fresh(T, R, m) ==
    /\ m \in Traffic /\ m.processed = 0
    /\ \A i \in 1 .. Len(T) : ~Alike(T[i], m)
    /\ \A i \in Len(R) .. Len(T) : ~Clash(T[i], m)

\* A fresh message joins the line at its end.
LEMMA LastJoins ==
  ASSUME NEW T, NEW R, Ordered(T, R), NEW m, Fresh(T, R, m)
  PROVE  Ordered(Append(T, m), R)
  <1> DEFINE t == Append(T, m)
             n == Len(T) + 1
  <1>1. /\ T \in Seq(Traffic) /\ R \in Seq(ReceiverStates) /\ Len(R) \in 1 .. Len(T) + 1
        /\ Len(R) \in Nat /\ m \in Traffic
    BY LenProperties DEF Ordered, Fresh
  <1>2. /\ t \in Seq(Traffic) /\ Len(t) = n /\ Len(T) \in Nat /\ t[n] = m
        /\ \A i \in 1 .. Len(T) : t[i] = T[i]
    <2>1. /\ t \in Seq(Traffic) /\ Len(t) = Len(T) + 1 /\ Len(T) \in Nat
          /\ t[Len(T) + 1] = m
          /\ \A i \in 1 .. Len(T) : t[i] = T[i]
      BY <1>1, AppendFacts
    <2> QED
      BY <2>1
  <1> HIDE DEF t
  <1>3. Links(t, R)
    <2> SUFFICES ASSUME NEW i \in 1 .. Len(R) - 1 PROVE Follows(R[i], t[i], R[i + 1])
      BY DEF Links
    <2>1. t[i] = T[i]
      BY <1>1, <1>2
    <2> QED
      BY <2>1, Zenon DEF Ordered, Links
  <1>4. GoesOn(t, R)
    <2> SUFFICES ASSUME NEW i \in 1 .. Len(R), NEW c \in Channels, R[i][c] # Ready
                 PROVE  \E j \in i .. Len(t) : /\ t[j].header.channel = c /\ Long(t[j])
                                               /\ At(t[j]) = R[i][c]
      BY DEF GoesOn
    <2>1. PICK j \in i .. Len(T) : /\ T[j].header.channel = c /\ Long(T[j])
                                   /\ At(T[j]) = R[i][c]
      BY DEF Ordered, GoesOn
    <2>2. j \in i .. Len(t) /\ t[j] = T[j]
      BY <1>1, <1>2, <2>1
    <2> QED
      BY <2>1, <2>2
  <1>5. Resumes(t, R)
    <2> SUFFICES ASSUME NEW j \in Len(R) .. Len(t), Long(t[j])
                 PROVE  R[Len(R)][t[j].header.channel] = At(t[j])
      BY DEF Resumes
    <2>1. CASE j = n
      <3> DEFINE c == m.header.channel
      <3>1. c \in Channels /\ At(m) = Ready
        BY <1>1, TrafficFacts, AtFacts DEF Fresh
      <3>2. ASSUME NEW i \in Len(R) .. Len(T), T[i].header.channel = c, Long(T[i]) PROVE FALSE
        BY <1>2, <2>1, <3>2 DEF Fresh, Clash
      <3>3. R[Len(R)][c] = Ready
        BY <1>1, <3>1, <3>2 DEF Ordered, GoesOn
      <3> QED
        BY <1>2, <2>1, <3>1, <3>3
    <2>2. CASE j # n
      <3>1. j \in Len(R) .. Len(T) /\ t[j] = T[j]
        BY <1>1, <1>2, <2>2
      <3> QED
        BY <3>1 DEF Ordered, Resumes
    <2> QED
      BY <2>1, <2>2
  <1>6. InTurn(t)
    <2> SUFFICES ASSUME NEW i \in 1 .. Len(t), NEW j \in 1 .. Len(t), i < j, Alike(t[i], t[j])
                 PROVE  ~IsFinalFrame(t[i]) /\ t[j].processed # 0
      BY DEF InTurn
    <2>1. i \in 1 .. Len(T) /\ t[i] = T[i]
      BY <1>2
    <2>2. j # n
      BY <1>2, <2>1 DEF Fresh
    <2>3. j \in 1 .. Len(T) /\ t[j] = T[j]
      BY <1>2, <2>2
    <2> QED
      BY <2>1, <2>3, Zenon DEF Ordered, InTurn
  <1>7. Apart(t, R)
    <2> SUFFICES ASSUME NEW i \in Len(R) .. Len(t), NEW j \in Len(R) .. Len(t), i # j
                 PROVE  ~Alike(t[i], t[j]) /\ ~Clash(t[i], t[j])
      BY DEF Apart
    <2>1. ASSUME NEW x \in Len(R) .. Len(T)
          PROVE  /\ t[x] = T[x] /\ ~Alike(t[x], m) /\ ~Alike(m, t[x])
                 /\ ~Clash(t[x], m) /\ ~Clash(m, t[x])
      <3>1. x \in 1 .. Len(T) /\ t[x] = T[x]
        BY <1>1, <1>2
      <3>2. ~Alike(T[x], m) /\ ~Clash(T[x], m)
        BY <3>1 DEF Fresh
      <3> QED
        BY <3>1, <3>2 DEF Alike, Clash
    <2>2. CASE i = n
      <3>1. j \in Len(R) .. Len(T)
        BY <1>1, <1>2, <2>2
      <3> QED
        BY <1>2, <2>1, <2>2, <3>1
    <2>3. CASE j = n
      <3>1. i \in Len(R) .. Len(T)
        BY <1>1, <1>2, <2>3
      <3> QED
        BY <1>2, <2>1, <2>3, <3>1
    <2>4. CASE i # n /\ j # n
      <3>1. i \in Len(R) .. Len(T) /\ j \in Len(R) .. Len(T)
        BY <1>1, <1>2, <2>4
      <3> QED
        BY <2>1, <3>1 DEF Ordered, Apart
    <2> QED
      BY <2>2, <2>3, <2>4
  <1>8. Len(R) \in 1 .. Len(t) + 1
    BY <1>1, <1>2
  <1> QED
    BY <1>1, <1>2, <1>3, <1>4, <1>5, <1>6, <1>7, <1>8 DEF Ordered, t

\* ready_next_frame: the message at the front of the queue moves on.
Moved(T, R) ==
    LET m == T[Len(R)] IN IF IsFinalFrame(m) THEN T ELSE Append(T, AfterFrame(m))

\* The message at the front of the queue sends its next frame, and goes to the end.
LEMMA FrontMoves ==
  ASSUME NEW T, NEW R, Ordered(T, R), Len(R) <= Len(T)
  PROVE  Ordered(Moved(T, R), Append(R, Past(R[Len(R)], T[Len(R)])))
  <1> DEFINE n == Len(R)
             m == T[n]
             c == m.header.channel
             t == Moved(T, R)
             r == Append(R, Past(R[n], m))
             a == AfterFrame(m)
  <1>1. /\ T \in Seq(Traffic) /\ R \in Seq(ReceiverStates) /\ Len(T) \in Nat
        /\ n \in Nat /\ n \in 1 .. Len(T)
    BY LenProperties DEF Ordered
  <1>2. /\ m \in Traffic /\ R[n] \in ReceiverStates
        /\ \A i \in 1 .. Len(T) : T[i] \in Traffic
    BY <1>1, ElementOfSeq
  <1>3. Past(R[n], m) \in ReceiverStates /\ c \in Channels
    BY <1>2, PastFacts, TrafficFacts
  <1>4. /\ r \in Seq(ReceiverStates) /\ Len(r) = n + 1 /\ r[n + 1] = Past(R[n], m)
        /\ \A i \in 1 .. n : r[i] = R[i]
    BY <1>1, <1>3, AppendFacts
  <1>5. /\ t \in Seq(Traffic) /\ Len(t) \in Len(T) .. Len(T) + 1
        /\ Len(t) = Len(T) <=> IsFinalFrame(m)
        /\ \A i \in 1 .. Len(T) : t[i] = T[i]
        /\ ~IsFinalFrame(m) => /\ Len(t) = Len(T) + 1 /\ t[Len(T) + 1] = a
                               /\ a \in Traffic /\ a.header = m.header /\ Long(a)
                               /\ a.processed # 0 /\ Long(m)
    <2>1. CASE IsFinalFrame(m)
      BY <1>1, <2>1 DEF Moved
    <2>2. CASE ~IsFinalFrame(m)
      <3>1. /\ a \in Traffic /\ a.header = m.header /\ a.processed # 0 /\ Long(m) /\ Long(a)
        BY <1>2, <2>2, FinalFacts
      <3>2. t = Append(T, a)
        BY <2>2 DEF Moved
      <3> HIDE DEF a, t, m
      <3>3. /\ t \in Seq(Traffic) /\ Len(t) = Len(T) + 1 /\ t[Len(T) + 1] = a
            /\ \A i \in 1 .. Len(T) : t[i] = T[i]
        BY <1>1, <3>1, <3>2, AppendFacts
      <3> QED
        BY <1>1, <2>2, <3>1, <3>3
    <2> QED
      BY <2>1, <2>2
  <1>6. ASSUME NEW j \in n .. Len(T), j # n 
        PROVE  ~Alike(T[j], m) /\ ~Alike(m, T[j]) /\ ~Clash(T[j], m)
    <2>1. n \in n .. Len(T)
      BY <1>1
    <2> QED
      BY <1>6, <2>1 DEF Ordered, Apart
  <1>7. \* what was begun on the channel is this message, or there is nothing
        Long(m) => R[n][c] = At(m)
    <2>1. n \in n .. Len(T)
      BY <1>1
    <2> QED
      BY <2>1 DEF Ordered, Resumes
  <1>8. ~Long(m) => m.header # R[n][c].header
    <2> SUFFICES ASSUME ~Long(m), m.header = R[n][c].header PROVE FALSE
      OBVIOUS
    <2>1. R[n][c] # Ready
      BY <1>2, TrafficFacts DEF Ready
    <2>2. PICK j \in n .. Len(T) : /\ T[j].header.channel = c /\ Long(T[j])
                                   /\ At(T[j]) = R[n][c]
      BY <1>1, <1>3, <2>1 DEF Ordered, GoesOn
    <2>3. T[j] \in Traffic /\ At(T[j]) # Ready
      BY <1>1, <1>2, <2>1, <2>2
    <2>4. T[j].header = m.header
      BY <2>2, <2>3, AtFacts
    <2>5. j # n
      BY <2>2
    <2> QED
      BY <1>6, <2>4, <2>5 DEF Alike
  <1>9. Follows(R[n], m, Past(R[n], m))
    BY <1>7, <1>8 DEF Follows
  <1> HIDE DEF t, r, m, a, c
  <1>10. Links(t, r)
    <2> SUFFICES ASSUME NEW i \in 1 .. Len(r) - 1 PROVE Follows(r[i], t[i], r[i + 1])
      BY DEF Links
    <2>1. CASE i = n
      BY <1>1, <1>4, <1>5, <1>9, <2>1 DEF m
    <2>2. CASE i # n
      <3>1. i \in 1 .. n - 1 /\ r[i] = R[i] /\ r[i + 1] = R[i + 1] /\ t[i] = T[i]
        BY <1>1, <1>4, <1>5, <2>2
      <3> QED
        BY <3>1, Zenon DEF Ordered, Links, n
    <2> QED
      BY <2>1, <2>2
  <1>11. GoesOn(t, r)
    <2> SUFFICES ASSUME NEW i \in 1 .. Len(r), NEW d \in Channels, r[i][d] # Ready
                 PROVE  \E j \in i .. Len(t) : /\ t[j].header.channel = d /\ Long(t[j])
                                               /\ At(t[j]) = r[i][d]
      BY DEF GoesOn
    <2>1. CASE i \in 1 .. n
      <3>1. r[i] = R[i]
        BY <1>4, <2>1
      <3>2. PICK j \in i .. Len(T) : /\ T[j].header.channel = d /\ Long(T[j])
                                     /\ At(T[j]) = R[i][d]
        BY <2>1, <3>1 DEF Ordered, GoesOn
      <3>3. j \in i .. Len(t) /\ t[j] = T[j]
        BY <1>1, <1>5, <2>1, <3>2
      <3> QED
        BY <3>1, <3>2, <3>3
    <2>2. CASE i = n + 1 /\ d = c /\ Long(m)
      <3>1. r[i][d] = IF IsFinalFrame(m) THEN Ready ELSE At(a)
        BY <1>2, <1>4, <2>2, PastFacts DEF a, c
      <3>2. ~IsFinalFrame(m) /\ r[i][d] = At(a)
        BY <3>1
      <3>3. Len(t) \in i .. Len(t) /\ t[Len(t)] = a
        BY <1>1, <1>5, <2>2, <3>2
      <3> QED
        BY <1>5, <2>2, <3>2, <3>3 DEF c
    <2>3. CASE i = n + 1 /\ ~(d = c /\ Long(m))
      <3>1. r[i][d] = R[n][d]
        BY <1>2, <1>4, <2>3, PastFacts DEF c
      <3>2. PICK j \in n .. Len(T) : /\ T[j].header.channel = d /\ Long(T[j])
                                     /\ At(T[j]) = R[n][d]
        BY <1>1, <3>1 DEF Ordered, GoesOn
      <3>3. j # n
        BY <2>3, <3>2 DEF m, c
      <3>4. j \in i .. Len(t) /\ t[j] = T[j]
        BY <1>1, <1>5, <2>3, <3>2, <3>3
      <3> QED
        BY <3>1, <3>2, <3>4
    <2> QED
      BY <1>1, <1>4, <2>1, <2>2, <2>3
  <1>12. ASSUME NEW j \in n + 1 .. Len(t)
         PROVE  \/ j = Len(T) + 1 /\ ~IsFinalFrame(m) /\ t[j] = a
                \/ j \in n + 1 .. Len(T) /\ j \in n .. Len(T) /\ j # n /\ t[j] = T[j]
    BY <1>1, <1>5
  <1>13. ASSUME NEW j \in n + 1 .. Len(T)
         PROVE  \/ ~Alike(T[j], a) /\ ~Alike(a, T[j]) /\ ~Clash(T[j], a) /\ ~Clash(a, T[j])
                \/ IsFinalFrame(m)
    <2>1. ~Alike(T[j], m) /\ ~Alike(m, T[j]) /\ ~Clash(T[j], m)
      BY <1>1, <1>6
    <2> QED
      BY <1>5, <2>1 DEF Alike, Clash
  <1>14. Resumes(t, r)
    <2> SUFFICES ASSUME NEW j \in n + 1 .. Len(t), Long(t[j])
                 PROVE  r[n + 1][t[j].header.channel] = At(t[j])
      BY <1>4 DEF Resumes
    <2>1. CASE j = Len(T) + 1 /\ ~IsFinalFrame(m) /\ t[j] = a
      <3>1. Long(m) /\ a.header = m.header
        BY <1>5, <2>1
      <3>2. Past(R[n], m)[m.header.channel] = At(AfterFrame(m))
        BY <1>2, <2>1, <3>1, PastFacts
      <3>3. r[n + 1][m.header.channel] = At(a)
        BY <1>4, <3>2 DEF a
      <3> QED
        BY <2>1, <3>1, <3>3
    <2>2. CASE j \in n .. Len(T) /\ j # n /\ t[j] = T[j]
      <3>1. R[n][t[j].header.channel] = At(t[j])
        BY <2>2 DEF Ordered, Resumes, n
      <3>2. ~Clash(t[j], m)
        BY <1>6, <2>2
      <3>3. t[j].header.channel \in Channels
        BY <1>1, <1>2, <2>2, TrafficFacts
      <3>4. r[n + 1][t[j].header.channel] = R[n][t[j].header.channel]
        BY <1>2, <1>4, <3>2, <3>3, PastFacts DEF Clash
      <3> QED
        BY <3>1, <3>4
    <2> QED
      BY <1>12, <2>1, <2>2
  <1>15. InTurn(t)
    <2> SUFFICES ASSUME NEW i \in 1 .. Len(t), NEW j \in 1 .. Len(t), i < j, Alike(t[i], t[j])
                 PROVE  ~IsFinalFrame(t[i]) /\ t[j].processed # 0
      BY DEF InTurn
    <2>1. CASE j \in 1 .. Len(T)
      <3>1. i \in 1 .. Len(T) /\ t[i] = T[i] /\ t[j] = T[j]
        BY <1>1, <1>5, <2>1
      <3> QED
        BY <2>1, <3>1, Zenon DEF Ordered, InTurn
    <2>2. CASE j \notin 1 .. Len(T)
      <3>1. i \in 1 .. Len(T) /\ t[i] = T[i] /\ ~IsFinalFrame(m) /\ t[j] = a
        BY <1>1, <1>5, <2>2
      <3>2. a.processed # 0 /\ a.header = m.header
        BY <1>5, <3>1
      <3>3. Alike(T[i], m)
        BY <3>1, <3>2 DEF Alike
      <3>4. CASE i < n
        <4>1. n \in 1 .. Len(T) /\ Alike(T[i], T[n])
          BY <1>1, <3>3 DEF m
        <4>2. ~IsFinalFrame(T[i])
          BY <3>1, <3>4, <4>1, Zenon DEF Ordered, InTurn
        <4> QED
          BY <3>1, <3>2, <4>2
      <3>5. CASE i = n
        BY <3>1, <3>2, <3>5 DEF m
      <3>6. CASE i > n
        BY <1>1, <1>6, <3>1, <3>3, <3>6
      <3> QED
        BY <1>1, <3>4, <3>5, <3>6
    <2> QED
      BY <2>1, <2>2
  <1>16. Apart(t, r)
    <2> SUFFICES ASSUME NEW i \in n + 1 .. Len(t), NEW j \in n + 1 .. Len(t), i # j
                 PROVE  ~Alike(t[i], t[j]) /\ ~Clash(t[i], t[j])
      BY <1>4 DEF Apart
    <2>1. CASE i \in n .. Len(T) /\ j \in n .. Len(T) /\ t[i] = T[i] /\ t[j] = T[j]
      BY <2>1 DEF Ordered, Apart, n
    <2>2. CASE j = Len(T) + 1 /\ ~IsFinalFrame(m) /\ t[j] = a
      <3>1. i \in n + 1 .. Len(T) /\ t[i] = T[i]
        BY <1>1, <1>12, <2>2
      <3> QED
        BY <1>13, <2>2, <3>1
    <2>3. CASE i = Len(T) + 1 /\ ~IsFinalFrame(m) /\ t[i] = a
      <3>1. j \in n + 1 .. Len(T) /\ t[j] = T[j]
        BY <1>1, <1>12, <2>3
      <3> QED
        BY <1>13, <2>3, <3>1
    <2> QED
      BY <1>12, <2>1, <2>2, <2>3
  <1>17. Len(r) \in 1 .. Len(t) + 1
    BY <1>1, <1>4, <1>5
  <1> QED
    BY <1>4, <1>5, <1>10, <1>11, <1>14, <1>15, <1>16, <1>17 DEF Ordered, t, r, m

-----------------------------------------------------------------------------
(* The IDs of messages on their way.                                        *)

\* The places of messages of some kinds on channel c.
Places(T, c, K) == {i \in 1 .. Len(T) : T[i].header.channel = c /\ T[i].header.kind \in K}

\* The IDs of such messages, and of those that have not begun.
Underway(T, c, K) == {T[i].header.id : i \in Places(T, c, K)}
Unopened(T, c, K) == {T[i].header.id : i \in {j \in Places(T, c, K) : T[j].processed = 0}}

\* The message at place i is one of them, and has ID x.
IsAt(T, i, c, K, x) ==
    T[i].header.channel = c /\ T[i].header.kind \in K /\ T[i].header.id = x

\* An ID is on its way if the message at some place has it.
LEMMA UnderwayIff ==
  \A T, c, K, x :
     /\ x \in Underway(T, c, K) <=> \E i \in 1 .. Len(T) : IsAt(T, i, c, K, x)
     /\ x \in Unopened(T, c, K) <=>
          \E i \in 1 .. Len(T) : IsAt(T, i, c, K, x) /\ T[i].processed = 0
  BY DEF Underway, Unopened, Places, IsAt

\* The ID of a message, if it is one of these.
IdIn(m, c, K) == IF m.header.channel = c /\ m.header.kind \in K THEN {m.header.id} ELSE {}

\* A new message joins the line.
LEMMA UnderwayAppend ==
  ASSUME NEW T \in Seq(Traffic), NEW m \in Traffic, NEW c, NEW K
  PROVE  /\ Underway(Append(T, m), c, K) = Underway(T, c, K) \cup IdIn(m, c, K)
         /\ m.processed = 0 =>
              Unopened(Append(T, m), c, K) = Unopened(T, c, K) \cup IdIn(m, c, K)
         /\ m.processed # 0 => Unopened(Append(T, m), c, K) = Unopened(T, c, K)
  <1> DEFINE t == Append(T, m)
  <1>1. /\ Len(t) = Len(T) + 1 /\ Len(T) \in Nat /\ t[Len(T) + 1] = m
        /\ \A i \in 1 .. Len(T) : t[i] = T[i]
    BY AppendFacts
  <1>2. /\ \A i \in 1 .. Len(T) : i \in 1 .. Len(t) /\ t[i] = T[i]
        /\ Len(t) \in 1 .. Len(t) /\ t[Len(t)] = m
        /\ \A i \in 1 .. Len(t) : i \in 1 .. Len(T) \/ i = Len(t)
    BY <1>1
  <1> HIDE DEF t
  <1>3. ASSUME NEW x PROVE x \in Underway(t, c, K) <=> x \in Underway(T, c, K) \cup IdIn(m, c, K)
    <2>1. ASSUME x \in Underway(t, c, K) PROVE x \in Underway(T, c, K) \cup IdIn(m, c, K)
      <3>1. PICK i \in 1 .. Len(t) : IsAt(t, i, c, K, x)
        BY <2>1, UnderwayIff, Zenon
      <3>2. CASE i \in 1 .. Len(T)
        <4>1. IsAt(T, i, c, K, x) /\ T[i].processed = t[i].processed
          BY <1>2, <3>1, <3>2 DEF IsAt
        <4> QED
          BY <3>1, <3>2, <4>1, UnderwayIff, Zenon
      <3>3. CASE i = Len(t)
        BY <1>2, <3>1, <3>3 DEF IdIn, IsAt
      <3> QED
        BY <1>2, <3>2, <3>3
    <2>2. ASSUME x \in Underway(T, c, K) PROVE x \in Underway(t, c, K)
      <3>1. PICK i \in 1 .. Len(T) : IsAt(T, i, c, K, x)
        BY <2>2, UnderwayIff, Zenon
      <3>2. i \in 1 .. Len(t) /\ IsAt(t, i, c, K, x)
        BY <1>2, <3>1 DEF IsAt
      <3> QED
        BY <3>2, UnderwayIff, Zenon
    <2>3. ASSUME x \in IdIn(m, c, K) PROVE x \in Underway(t, c, K)
      <3>1. IsAt(t, Len(t), c, K, x) /\ t[Len(t)] = m
        BY <1>2, <2>3 DEF IdIn, IsAt
      <3> QED
        BY <1>2, <2>3, <3>1, UnderwayIff, Zenon
    <2> QED
      BY <2>1, <2>2, <2>3
  <1>4. ASSUME NEW x
        PROVE  x \in Unopened(t, c, K) <=>
                 x \in Unopened(T, c, K) \/ (m.processed = 0 /\ x \in IdIn(m, c, K))
    <2>1. ASSUME x \in Unopened(t, c, K)
          PROVE  x \in Unopened(T, c, K) \/ (m.processed = 0 /\ x \in IdIn(m, c, K))
      <3>1. PICK i \in 1 .. Len(t) : IsAt(t, i, c, K, x) /\ t[i].processed = 0
        BY <2>1, UnderwayIff, Zenon
      <3>2. CASE i \in 1 .. Len(T)
        <4>1. IsAt(T, i, c, K, x) /\ T[i].processed = t[i].processed
          BY <1>2, <3>1, <3>2 DEF IsAt
        <4> QED
          BY <3>1, <3>2, <4>1, UnderwayIff, Zenon
      <3>3. CASE i = Len(t)
        BY <1>2, <3>1, <3>3 DEF IdIn, IsAt
      <3> QED
        BY <1>2, <3>2, <3>3
    <2>2. ASSUME x \in Unopened(T, c, K) PROVE x \in Unopened(t, c, K)
      <3>1. PICK i \in 1 .. Len(T) : IsAt(T, i, c, K, x) /\ T[i].processed = 0
        BY <2>2, UnderwayIff, Zenon
      <3>2. i \in 1 .. Len(t) /\ IsAt(t, i, c, K, x) /\ t[i].processed = 0
        BY <1>2, <3>1 DEF IsAt
      <3> QED
        BY <3>2, UnderwayIff, Zenon
    <2>3. ASSUME m.processed = 0 /\ x \in IdIn(m, c, K) PROVE x \in Unopened(t, c, K)
      <3>1. IsAt(t, Len(t), c, K, x) /\ t[Len(t)] = m
        BY <1>2, <2>3 DEF IdIn, IsAt
      <3> QED
        BY <1>2, <2>3, <3>1, UnderwayIff, Zenon
    <2> QED
      BY <2>1, <2>2, <2>3
  <1> QED
    BY <1>3, <1>4 DEF t

\* The IDs stay when the front of the queue moves on.
LEMMA UnderwayMoved ==
  ASSUME NEW T, NEW R, Ordered(T, R), Len(R) <= Len(T), NEW c, NEW K
  PROVE  /\ Underway(Moved(T, R), c, K) = Underway(T, c, K)
         /\ Unopened(Moved(T, R), c, K) = Unopened(T, c, K)
  <1> DEFINE m == T[Len(R)]
             a == AfterFrame(m)
  <1>1. T \in Seq(Traffic) /\ Len(R) \in 1 .. Len(T)
    BY LenProperties DEF Ordered
  <1>2. m \in Traffic
    BY <1>1, ElementOfSeq
  <1>3. CASE IsFinalFrame(m)
    BY <1>3 DEF Moved
  <1>4. CASE ~IsFinalFrame(m)
    <2>1. a \in Traffic /\ a.header = m.header /\ a.processed # 0
      BY <1>2, <1>4, FinalFacts
    <2>2. Moved(T, R) = Append(T, a)
      BY <1>4 DEF Moved
    <2>3. IdIn(a, c, K) \subseteq Underway(T, c, K)
      BY <1>1, <2>1, UnderwayIff DEF IdIn, IsAt
    <2> HIDE DEF a
    <2>4. /\ Underway(Append(T, a), c, K) = Underway(T, c, K) \cup IdIn(a, c, K)
          /\ Unopened(Append(T, a), c, K) = Unopened(T, c, K)
      BY <1>1, <2>1, UnderwayAppend
    <2> QED
      BY <2>2, <2>3, <2>4
  <1> QED
    BY <1>3, <1>4

\* When frames are gone there are no new IDs.
LEMMA UnderwayGone ==
  ASSUME NEW T \in Seq(Traffic), NEW d \in 0 .. Len(T), NEW c, NEW K
  PROVE  /\ Underway(Rest(T, d), c, K) \subseteq Underway(T, c, K)
         /\ Unopened(Rest(T, d), c, K) \subseteq Unopened(T, c, K)
  <1>1. /\ Len(Rest(T, d)) = Len(T) - d
        /\ \A i \in 1 .. Len(T) - d : i + d \in 1 .. Len(T) /\ Rest(T, d)[i] = T[i + d]
    BY RestFacts
  <1> DEFINE t == Rest(T, d)
  <1>2. \A i \in 1 .. Len(t) : i + d \in 1 .. Len(T) /\ t[i] = T[i + d]
    BY <1>1
  <1> HIDE DEF t
  <1>3. ASSUME NEW x \in Underway(t, c, K) PROVE x \in Underway(T, c, K)
    <2>1. PICK i \in 1 .. Len(t) : IsAt(t, i, c, K, x)
      BY UnderwayIff, Zenon
    <2>2. i + d \in 1 .. Len(T) /\ IsAt(T, i + d, c, K, x)
      BY <1>2, <2>1 DEF IsAt
    <2> QED
      BY <2>2, UnderwayIff, Zenon
  <1>4. ASSUME NEW x \in Unopened(t, c, K) PROVE x \in Unopened(T, c, K)
    <2>1. PICK i \in 1 .. Len(t) : IsAt(t, i, c, K, x) /\ t[i].processed = 0
      BY UnderwayIff, Zenon
    <2>2. i + d \in 1 .. Len(T) /\ IsAt(T, i + d, c, K, x) /\ T[i + d].processed = 0
      BY <1>2, <2>1 DEF IsAt
    <2> QED
      BY <2>2, UnderwayIff, Zenon
  <1> QED
    BY <1>3, <1>4 DEF t

\* The kinds of frames that ask, or that answer.
Side(K) == K = AskKinds \/ K = AnswerKinds

\* Once its first frame was read, a message has begun; once its last was, it is over.
LEMMA UnderwayRead ==
  ASSUME NEW T, NEW R, Ordered(T, R), Len(R) > 1, NEW c \in Channels, NEW K, Side(K)
  PROVE  LET m == T[1] IN
         /\ m \in Traffic
         /\ Underway(Rest(T, 1), c, K) =
              Underway(T, c, K) \ (IF IsFinalFrame(m) THEN IdIn(m, c, K) ELSE {})
         /\ Unopened(Rest(T, 1), c, K) =
              Unopened(T, c, K) \ (IF m.processed = 0 THEN IdIn(m, c, K) ELSE {})
         /\ m.processed # 0 => Unopened(T, c, K) \cap IdIn(m, c, K) = {}
         /\ IdIn(m, c, K) \subseteq Underway(T, c, K)
         /\ m.processed = 0 => IdIn(m, c, K) \subseteq Unopened(T, c, K)
  <1> DEFINE m == T[1]
             t == Rest(T, 1)
  <1>1. /\ T \in Seq(Traffic) /\ Len(T) \in Nat /\ Len(T) >= 1 /\ Len(R) \in Nat
        /\ 1 \in 1 .. Len(T) /\ m \in Traffic
        /\ R \in Seq(ReceiverStates) /\ 1 \in 1 .. Len(R) /\ 2 \in 1 .. Len(R)
        /\ 1 \in 0 .. Len(T)
    BY LenProperties, ElementOfSeq DEF Ordered
  <1>2. /\ Len(t) = Len(T) - 1
        /\ \A i \in 1 .. Len(T) - 1 : i + 1 \in 1 .. Len(T) /\ t[i] = T[i + 1]
    BY <1>1, RestFacts
  <1>3. /\ \A i \in 1 .. Len(t) : i + 1 \in 1 .. Len(T) /\ i + 1 > 1 /\ t[i] = T[i + 1]
        /\ \A i \in 1 .. Len(T) : i = 1 \/ (i > 1 /\ i - 1 \in 1 .. Len(t) /\ t[i - 1] = T[i])
    BY <1>1, <1>2
  <1> HIDE DEF t
  <1>4. ASSUME NEW i \in 1 .. Len(T), i > 1, T[i].header.channel = c, T[i].header.kind \in K,
               T[i].header.id \in IdIn(m, c, K)
        PROVE  ~IsFinalFrame(m) /\ T[i].processed # 0
    <2>1. m.header.channel = c /\ m.header.kind \in K /\ m.header.id = T[i].header.id
      BY <1>4 DEF IdIn
    <2>2. Alike(T[1], T[i])
      BY <1>4, <2>1 DEF Alike, Side, AskKinds, AnswerKinds
    <2> QED
      BY <1>1, <1>4, <2>2 DEF Ordered, InTurn
  <1>5. ASSUME ~IsFinalFrame(m)
        PROVE  \E i \in 1 .. Len(T) : i > 1 /\ T[i].header = m.header
    <2> DEFINE d == m.header.channel
               a == AfterFrame(m)
    <2>1. /\ Long(m) /\ a \in Traffic /\ a.header = m.header /\ a.processed # 0
          /\ d \in Channels
      BY <1>1, <1>5, FinalFacts, TrafficFacts
    <2>2. Follows(R[1], T[1], R[2]) /\ R[1] \in ReceiverStates
      <3>1. 1 \in 1 .. Len(R) - 1 /\ 1 + 1 = 2
        BY <1>1
      <3>2. Follows(R[1], T[1], R[1 + 1])
        BY <3>1, Zenon DEF Ordered, Links
      <3> QED
        BY <1>1, <3>1, <3>2, ElementOfSeq
    <2>3. R[2][d] = At(a)
      BY <1>1, <1>5, <2>1, <2>2, PastFacts DEF Follows
    <2> HIDE DEF a
    <2>4. R[2][d] # Ready /\ At(a).header = m.header
      BY <2>1, <2>3, AtFacts
    <2>5. PICK j \in 2 .. Len(T) : At(T[j]) = R[2][d]
      BY <1>1, <2>1, <2>4 DEF Ordered, GoesOn
    <2>6. j \in 1 .. Len(T) /\ j > 1 /\ T[j] \in Traffic
      BY <1>1, <2>5, ElementOfSeq
    <2>7. T[j].header = m.header
      BY <2>3, <2>4, <2>5, <2>6, AtFacts
    <2> QED
      BY <2>6, <2>7
  <1>6. ASSUME NEW x, NEW i \in 1 .. Len(t), IsAt(t, i, c, K, x)
        PROVE  /\ i + 1 \in 1 .. Len(T) /\ i + 1 > 1 /\ IsAt(T, i + 1, c, K, x)
               /\ T[i + 1].processed = t[i].processed
    BY <1>3, <1>6 DEF IsAt
  <1>7. ASSUME NEW x, NEW i \in 1 .. Len(T), i # 1, IsAt(T, i, c, K, x)
        PROVE  /\ i - 1 \in 1 .. Len(t) /\ IsAt(t, i - 1, c, K, x)
               /\ t[i - 1].processed = T[i].processed
    BY <1>3, <1>7 DEF IsAt
  <1>8. Underway(t, c, K) = Underway(T, c, K) \ (IF IsFinalFrame(m) THEN IdIn(m, c, K) ELSE {})
    <2>1. ASSUME NEW x \in Underway(t, c, K)
          PROVE  x \in Underway(T, c, K) /\ ~(IsFinalFrame(m) /\ x \in IdIn(m, c, K))
      <3>1. PICK i \in 1 .. Len(t) : IsAt(t, i, c, K, x)
        BY UnderwayIff, Zenon
      <3>2. i + 1 \in 1 .. Len(T) /\ i + 1 > 1 /\ IsAt(T, i + 1, c, K, x)
        BY <1>6, <3>1
      <3> QED
        BY <1>4, <3>2, UnderwayIff DEF IsAt
    <2>2. ASSUME NEW x \in Underway(T, c, K), ~(IsFinalFrame(m) /\ x \in IdIn(m, c, K))
          PROVE  x \in Underway(t, c, K)
      <3>1. PICK i \in 1 .. Len(T) : IsAt(T, i, c, K, x)
        BY UnderwayIff, Zenon
      <3>2. PICK j \in 1 .. Len(T) : j # 1 /\ IsAt(T, j, c, K, x)
        <4>1. CASE i # 1
          BY <3>1, <4>1
        <4>2. CASE i = 1
          <5>1. x \in IdIn(m, c, K)
            BY <3>1, <4>2 DEF IdIn, IsAt
          <5>2. PICK j \in 1 .. Len(T) : j > 1 /\ T[j].header = m.header
            BY <1>5, <2>2, <5>1
          <5> QED
            BY <3>1, <4>2, <5>2 DEF IsAt
        <4> QED
          BY <4>1, <4>2
      <3>3. j - 1 \in 1 .. Len(t) /\ IsAt(t, j - 1, c, K, x)
        BY <1>7, <3>2
      <3> QED
        BY <3>3, UnderwayIff, Zenon
    <2> QED
      BY <2>1, <2>2
  <1>9. Unopened(t, c, K) = Unopened(T, c, K) \ (IF m.processed = 0 THEN IdIn(m, c, K) ELSE {})
    <2>1. ASSUME NEW x \in Unopened(t, c, K)
          PROVE  x \in Unopened(T, c, K) /\ ~(x \in IdIn(m, c, K))
      <3>1. PICK i \in 1 .. Len(t) : IsAt(t, i, c, K, x) /\ t[i].processed = 0
        BY UnderwayIff, Zenon
      <3>2. /\ i + 1 \in 1 .. Len(T) /\ i + 1 > 1 /\ IsAt(T, i + 1, c, K, x)
            /\ T[i + 1].processed = 0
        BY <1>6, <3>1
      <3> QED
        BY <1>4, <3>2, UnderwayIff DEF IsAt
    <2>2. ASSUME NEW x \in Unopened(T, c, K), ~(m.processed = 0 /\ x \in IdIn(m, c, K))
          PROVE  x \in Unopened(t, c, K)
      <3>1. PICK i \in 1 .. Len(T) : IsAt(T, i, c, K, x) /\ T[i].processed = 0
        BY UnderwayIff, Zenon
      <3>2. i # 1
        BY <2>2, <3>1 DEF IdIn, IsAt
      <3>3. i - 1 \in 1 .. Len(t) /\ IsAt(t, i - 1, c, K, x) /\ t[i - 1].processed = 0
        BY <1>7, <3>1, <3>2
      <3> QED
        BY <3>3, UnderwayIff, Zenon
    <2> QED
      BY <2>1, <2>2
  <1>10. m.processed # 0 => Unopened(T, c, K) \cap IdIn(m, c, K) = {}
    <2> SUFFICES ASSUME m.processed # 0, NEW x \in Unopened(T, c, K), x \in IdIn(m, c, K)
                 PROVE  FALSE
      OBVIOUS
    <2>1. PICK i \in 1 .. Len(T) : IsAt(T, i, c, K, x) /\ T[i].processed = 0
      BY UnderwayIff, Zenon
    <2> QED
      BY <1>4, <2>1 DEF IsAt
  <1>11. /\ IdIn(m, c, K) \subseteq Underway(T, c, K)
         /\ m.processed = 0 => IdIn(m, c, K) \subseteq Unopened(T, c, K)
    BY <1>1, UnderwayIff DEF IdIn, IsAt
  <1> QED
    BY <1>1, <1>8, <1>9, <1>10, <1>11 DEF t

-----------------------------------------------------------------------------
(* The slots of a channel, for the requests of one peer.                    *)

\* The requests Y that are in flight are out on the line (Ask: not begun yet), held by the
\* reader, or answered (Ans).  X are those of the held ones whose answer is due.  h1: the
\* reader still reads; h2: so does the other one.
Slots(h1, h2, Y, Out, Ask, held, Ans, X) ==
    /\ Out \cup held \cup Ans \subseteq Y
    /\ Ask \cap held = {}
    /\ Ans \cap (Out \cup held) = {}
    /\ X \subseteq held \ Out
    /\ h1 => Out \subseteq Ask \cup held
    /\ h2 => Y \subseteq Out \cup held \cup Ans

\* Requests I are sent.
LEMMA SlotTaken ==
  ASSUME NEW h1, NEW h2, NEW Y, NEW Out, NEW Ask, NEW held, NEW Ans, NEW X,
         Slots(h1, h2, Y, Out, Ask, held, Ans, X), NEW I, I \cap Y = {}
  PROVE  Slots(h1, h2, Y \cup I, Out \cup I, Ask \cup I, held, Ans, X)
  BY DEF Slots

-----------------------------------------------------------------------------
(* Answers in a queue.                                                      *)

Answering(item) == item.kind \in {"Response", "ResponseCancellation"}

\* The IDs of the requests on channel c that the items of a queue answer.
AnswerIds(q, c) == {q[i].id : i \in {j \in DOMAIN q : Answering(q[j]) /\ q[j].channel = c}}

\* The same, for an item.
AnswerId(item, c) == IF Answering(item) /\ item.channel = c THEN {item.id} ELSE {}

\* No request is answered twice.
Once(q) ==
    \A i, j \in DOMAIN q :
        /\ Answering(q[i]) /\ Answering(q[j])
        /\ q[i].channel = q[j].channel /\ q[i].id = q[j].id
        => i = j

\* The answer at place i of a queue.
AnswersAt(q, i, c, x) == Answering(q[i]) /\ q[i].channel = c /\ q[i].id = x

\* An ID is answered if the item at some place of the queue answers it.
LEMMA AnswersByPlace ==
  \A q, c, x : x \in AnswerIds(q, c) <=> \E i \in DOMAIN q : AnswersAt(q, i, c, x)
  BY DEF AnswerIds, AnswersAt

\* An empty queue answers nothing.
LEMMA AnswersEmpty == Once(<<>>) /\ \A c : AnswerIds(<<>>, c) = {}
  BY DEF Once, AnswerIds

\* An item joins a queue.
LEMMA AnswersAppend ==
  ASSUME NEW S, NEW q \in Seq(S), NEW x \in S
  PROVE  /\ \A c : AnswerIds(Append(q, x), c) = AnswerIds(q, c) \cup AnswerId(x, c)
         /\ Once(q) /\ (\A c : AnswerId(x, c) \cap AnswerIds(q, c) = {}) => Once(Append(q, x))
  <1> DEFINE a == Append(q, x)
             n == Len(q) + 1
  <1>1. /\ a \in Seq(S) /\ Len(a) = n /\ a[n] = x
        /\ \A i \in 1 .. Len(q) : a[i] = q[i]
    BY AppendProperties
  <1>2. /\ Len(q) \in Nat /\ DOMAIN q = 1 .. Len(q) /\ DOMAIN a = 1 .. n
        /\ DOMAIN a = DOMAIN q \cup {n} /\ n \notin DOMAIN q
    BY <1>1, LenProperties
  <1> HIDE DEF a, n
  <1>3. /\ \A i \in DOMAIN q : i \in DOMAIN a /\ a[i] = q[i]
        /\ \A i \in DOMAIN a : i \in DOMAIN q \/ i = n
        /\ n \in DOMAIN a /\ a[n] = x
    BY <1>1, <1>2
  <1>4. ASSUME NEW c, NEW y PROVE y \in AnswerIds(a, c) <=> y \in AnswerIds(q, c) \cup AnswerId(x, c)
    <2>1. ASSUME y \in AnswerIds(a, c) PROVE y \in AnswerIds(q, c) \cup AnswerId(x, c)
      <3>1. PICK i \in DOMAIN a : AnswersAt(a, i, c, y)
        BY <2>1, AnswersByPlace, Zenon
      <3>2. CASE i \in DOMAIN q
        <4>1. AnswersAt(q, i, c, y)
          BY <1>3, <3>1, <3>2 DEF AnswersAt
        <4> QED
          BY <3>2, <4>1, AnswersByPlace, Zenon
      <3>3. CASE i = n
        BY <1>3, <3>1, <3>3 DEF AnswerId, AnswersAt
      <3> QED
        BY <1>3, <3>2, <3>3
    <2>2. ASSUME y \in AnswerIds(q, c) PROVE y \in AnswerIds(a, c)
      <3>1. PICK i \in DOMAIN q : AnswersAt(q, i, c, y)
        BY <2>2, AnswersByPlace, Zenon
      <3>2. i \in DOMAIN a /\ AnswersAt(a, i, c, y)
        BY <1>3, <3>1 DEF AnswersAt
      <3> QED
        BY <3>2, AnswersByPlace, Zenon
    <2>3. ASSUME y \in AnswerId(x, c) PROVE y \in AnswerIds(a, c)
      <3>1. AnswersAt(a, n, c, y)
        BY <1>3, <2>3 DEF AnswerId, AnswersAt
      <3> QED
        BY <1>3, <3>1, AnswersByPlace, Zenon
    <2> QED
      BY <2>1, <2>2, <2>3
  <1>5. ASSUME Once(q), \A c : AnswerId(x, c) \cap AnswerIds(q, c) = {} PROVE Once(a)
    <2>1. ASSUME NEW i \in DOMAIN q, Answering(x), Answering(q[i]), q[i].channel = x.channel
          PROVE  q[i].id # x.id
      <3>1. SUFFICES ASSUME q[i].id = x.id PROVE FALSE
        OBVIOUS
      <3>2. AnswersAt(q, i, x.channel, x.id)
        BY <2>1, <3>1 DEF AnswersAt
      <3>3. x.id \in AnswerIds(q, x.channel)
        BY <3>2, AnswersByPlace, Zenon
      <3>4. x.id \in AnswerId(x, x.channel)
        BY <2>1 DEF AnswerId
      <3> QED
        BY <1>5, <3>3, <3>4
    <2> QED
      BY <1>3, <1>5, <2>1 DEF Once
  <1>6. \A c : AnswerIds(a, c) = AnswerIds(q, c) \cup AnswerId(x, c)
    BY <1>4
  <1> QED
    BY <1>5, <1>6 DEF a

\* An item is taken off the front of a queue.
LEMMA AnswersTail ==
  ASSUME NEW S, NEW q \in Seq(S), q # <<>>
  PROVE  /\ \A c : AnswerIds(q, c) = AnswerIds(Tail(q), c) \cup AnswerId(Head(q), c)
         /\ Once(q) => /\ Once(Tail(q))
                       /\ \A c : AnswerId(Head(q), c) \cap AnswerIds(Tail(q), c) = {}
  <1> DEFINE t == Tail(q)
  <1>1. /\ Head(q) \in S /\ t \in Seq(S) /\ Len(t) = Len(q) - 1
        /\ \A i \in 1 .. Len(t) : t[i] = q[i + 1]
    BY HeadTailProperties
  <1>2. /\ Len(q) \in Nat \ {0} /\ DOMAIN q = 1 .. Len(q) /\ DOMAIN t = 1 .. Len(t)
        /\ Head(q) = q[1] /\ 1 \in DOMAIN q
    BY <1>1, LenProperties, EmptySeq
  <1> HIDE DEF t
  <1>3. /\ \A i \in DOMAIN t : i + 1 \in DOMAIN q /\ i + 1 # 1 /\ t[i] = q[i + 1]
        /\ \A i \in DOMAIN q : i = 1 \/ (i - 1 \in DOMAIN t /\ t[i - 1] = q[i])
    BY <1>1, <1>2
  <1>4. ASSUME NEW c, NEW y PROVE y \in AnswerIds(q, c) <=> y \in AnswerIds(t, c) \cup AnswerId(Head(q), c)
    <2>1. ASSUME y \in AnswerIds(q, c) PROVE y \in AnswerIds(t, c) \cup AnswerId(Head(q), c)
      <3>1. PICK i \in DOMAIN q : AnswersAt(q, i, c, y)
        BY <2>1, AnswersByPlace, Zenon
      <3>2. CASE i = 1
        BY <1>2, <3>1, <3>2 DEF AnswerId, AnswersAt
      <3>3. CASE i - 1 \in DOMAIN t /\ t[i - 1] = q[i]
        <4>1. AnswersAt(t, i - 1, c, y)
          BY <3>1, <3>3 DEF AnswersAt
        <4> QED
          BY <3>3, <4>1, AnswersByPlace, Zenon
      <3> QED
        BY <1>3, <3>2, <3>3
    <2>2. ASSUME y \in AnswerIds(t, c) PROVE y \in AnswerIds(q, c)
      <3>1. PICK i \in DOMAIN t : AnswersAt(t, i, c, y)
        BY <2>2, AnswersByPlace, Zenon
      <3>2. i + 1 \in DOMAIN q /\ AnswersAt(q, i + 1, c, y)
        BY <1>3, <3>1 DEF AnswersAt
      <3> QED
        BY <3>2, AnswersByPlace, Zenon
    <2>3. ASSUME y \in AnswerId(Head(q), c) PROVE y \in AnswerIds(q, c)
      <3>1. AnswersAt(q, 1, c, y)
        BY <1>2, <2>3 DEF AnswerId, AnswersAt
      <3> QED
        BY <1>2, <3>1, AnswersByPlace, Zenon
    <2> QED
      BY <2>1, <2>2, <2>3
  <1>5. ASSUME Once(q)
        PROVE  Once(t) /\ \A c : AnswerId(Head(q), c) \cap AnswerIds(t, c) = {}
    <2>1. Once(t)
      <3> SUFFICES ASSUME NEW i \in DOMAIN t, NEW j \in DOMAIN t, Answering(t[i]), Answering(t[j]),
                          t[i].channel = t[j].channel, t[i].id = t[j].id
                   PROVE  i = j
        BY DEF Once
      <3>1. i + 1 = j + 1
        BY <1>3, <1>5 DEF Once
      <3> QED
        BY <1>2, <3>1
    <2>2. ASSUME NEW c, NEW y \in AnswerIds(t, c), y \in AnswerId(Head(q), c) PROVE FALSE
      <3>1. PICK i \in DOMAIN t : AnswersAt(t, i, c, y)
        BY <2>2, AnswersByPlace, Zenon
      <3>2. i + 1 \in DOMAIN q /\ i + 1 # 1 /\ AnswersAt(q, i + 1, c, y)
        BY <1>3, <3>1 DEF AnswersAt
      <3>3. AnswersAt(q, 1, c, y)
        BY <1>2, <2>2 DEF AnswerId, AnswersAt
      <3> QED
        BY <1>2, <1>5, <3>2, <3>3 DEF Once, AnswersAt
    <2> QED
      BY <2>1, <2>2
  <1>6. \A c : AnswerIds(q, c) = AnswerIds(t, c) \cup AnswerId(Head(q), c)
    BY <1>4
  <1> QED
    BY <1>5, <1>6 DEF t

-----------------------------------------------------------------------------
(* A core, its line to the peer and what it shares with it.                 *)

\* What users of this code send while all is well: requests and answers within the limits.
Orders(W) ==
    {item \in Items(W) :
        /\ item.kind \in {"Request", "Response", "ResponseCancellation"}
        /\ IsRequest(item) => item.payload <= MaxRequestPayload[item.channel]
        /\ item.kind = "Response" => item.payload <= MaxResponsePayload[item.channel]}

\* send_to_ready_queue makes message m of an item.
Launch(k, item, m, k2) ==
    /\ m \in Traffic /\ m.processed = 0
    /\ k2.ready_queue = Append(k.ready_queue, m)
    /\ Aside(k, k2) /\ k2.wait_queue = k.wait_queue /\ k2.result = k.result
    /\ k2.closed = k.closed /\ k2.pending_error = k.pending_error
    /\ Long(m) => k.active_multi_frame[m.header.channel] = NoHeader
    /\ \A d \in Channels :
         /\ k2.active_multi_frame[d] =
              IF Long(m) /\ d = m.header.channel THEN m.header ELSE k.active_multi_frame[d]
         /\ k2.juliet[d].current_multiframe_receiver = k.juliet[d].current_multiframe_receiver
         /\ k2.juliet[d].outgoing_requests =
              k.juliet[d].outgoing_requests \cup IdIn(m, d, AskKinds)
         /\ k.juliet[d].outgoing_requests \cap IdIn(m, d, AskKinds) = {}
         /\ k2.juliet[d].incoming_requests = k.juliet[d].incoming_requests \ IdIn(m, d, AnswerKinds)
         /\ AnswerId(item, d) = IdIn(m, d, AnswerKinds)

\* A request that may be sent gets an ID that is not in use.
LEMMA NextIdFree ==
  ASSUME NEW c \in Channels, NEW ch, ChannelOK(c, ch), AllowedToSendRequest(c, ch),
         NEW id \in Ids, IsNextRequestId(ch, id)
  PROVE  /\ id \notin ch.outgoing_requests
         /\ RecordRequest(ch, id) = [ch EXCEPT !.outgoing_requests = @ \cup {id},
                                               !.prev_request_id = id]
  <1>1. Cardinality(ch.outgoing_requests) # IdCount - 1
    <2>1. ch.outgoing_requests \subseteq Ids /\ IsFiniteSet(Ids)
      BY WireAssumption, FS_Interval DEF ChannelOK, ChannelStates, Ids
    <2>2. Cardinality(ch.outgoing_requests) \in Nat
      BY <2>1, FS_Subset, FS_CardinalityType
    <2>3. RequestLimit[c] \in 0 .. IdCount - 1 /\ IdCount \in Nat
      BY ChannelAssumption, WireAssumption
    <2> QED
      BY <2>2, <2>3 DEF AllowedToSendRequest
  <1> QED
    BY <1>1 DEF IsNextRequestId, RecordRequest

\* send_to_ready_queue, for a request that need not wait.
LEMMA LaunchRequest ==
  ASSUME NEW W, NEW k, CoreOK(W, k), NEW item \in Orders(W), item.kind = "Request",
         ~ItemShouldWait(k, item)
  PROVE  \E m : Launch(k, item, m, SendToReadyQueue(k, item))
  <1> DEFINE c == item.channel
             ch == k.juliet[c]
             id == CHOOSE i \in Ids : IsNextRequestId(ch, i)
             m == RequestMsg(c, id, item.payload)
             k1 == EnqueuePayload(k, m)
             k2 == [k1 EXCEPT
                      !.juliet[c] = RecordRequest(ch, id),
                      !.request_map = MapInsert(@, item.io_id, c, id),
                      !.buffered_requests[c] = @ + 1]
  <1>1. /\ c \in Channels /\ item.payload \in Nat \cup {NoPayload}
        /\ item.payload <= MaxRequestPayload[c] /\ item \in Items(W)
        /\ ChannelOK(c, ch) /\ ch \in ChannelStates /\ k \in CoreStates(W)
    BY ItemFacts DEF Orders, IsRequest, CoreOK, CoreStates
  <1>2. AllowedToSendRequest(c, ch) /\ (PayloadIsMultiFrame(item.payload) =>
                                          k.active_multi_frame[c] = NoHeader)
    BY DEF ItemShouldWait
  <1>3. id \in Ids /\ IsNextRequestId(ch, id)
    BY <1>1, <1>2, NextIdExists, RequestIdChosen
  <1>4. MaxRequestPayload[c] \in Nat
    BY <1>1, ChannelAssumption
  <1>5. SendToReadyQueue(k, item) = k2
    BY <1>1, <1>2, <1>4 DEF SendToReadyQueue, SendRequest, NoPayload
  <1> HIDE DEF id
  <1>6. /\ id \notin ch.outgoing_requests
        /\ RecordRequest(ch, id) = [ch EXCEPT !.outgoing_requests = @ \cup {id},
                                              !.prev_request_id = id]
    BY <1>1, <1>2, <1>3, NextIdFree
  <1>7. /\ m \in Traffic /\ m.processed = 0 /\ m.header.channel = c /\ m.header.id = id
        /\ m.header.kind \in AskKinds /\ m.header.kind \notin AnswerKinds /\ m.payload = item.payload
    <2>1. m \in Messages
      BY <1>1, <1>3, NewMessages
    <2> QED
      BY <1>1, <2>1 DEF RequestMsg, Frames, Header, Traffic, AskKinds, AnswerKinds, MaxPayload
  <1> HIDE DEF m, c
  <1>8. /\ k1.juliet = k.juliet /\ Aside(k, k1) /\ k1.wait_queue = k.wait_queue
        /\ k1.result = k.result /\ k1.closed = k.closed /\ k1.pending_error = k.pending_error
        /\ k1.ready_queue = Append(k.ready_queue, m)
        /\ k1 \in CoreStates(W)
        /\ \A d \in Channels : k1.active_multi_frame[d] =
             IF Long(m) /\ d = m.header.channel THEN m.header ELSE k.active_multi_frame[d]
    <2>1. m \in Messages
      BY <1>7, TrafficFacts
    <2>2. CoreOK(W, k1) /\ OnlyQueued(k, k1) /\ Aside(k, k1) /\ k1.juliet = k.juliet
          /\ k1.closed = k.closed
      BY <2>1, EnqueuePayloadOK
    <2>3. /\ k1.ready_queue = Append(k.ready_queue, m)
          /\ \A d \in Channels : k1.active_multi_frame[d] =
               IF Long(m) /\ d = m.header.channel THEN m.header ELSE k.active_multi_frame[d]
      BY <1>1, <1>7 DEF EnqueuePayload, CoreStates, Long
    <2> QED
      BY <2>2, <2>3 DEF OnlyQueued, CoreOK
  <1> HIDE DEF k1
  <1>9. /\ k2.ready_queue = k1.ready_queue /\ Aside(k1, k2) /\ k2.wait_queue = k1.wait_queue
        /\ k2.result = k1.result /\ k2.closed = k1.closed /\ k2.pending_error = k1.pending_error
        /\ k2.active_multi_frame = k1.active_multi_frame
        /\ k2.juliet = [k1.juliet EXCEPT ![c] = RecordRequest(ch, id)]
    BY <1>8 DEF CoreStates, Aside
  <1> HIDE DEF k2
  <1>10. ASSUME NEW d \in Channels
         PROVE  /\ k2.juliet[d].current_multiframe_receiver = k.juliet[d].current_multiframe_receiver
                /\ k2.juliet[d].outgoing_requests =
                     k.juliet[d].outgoing_requests \cup IdIn(m, d, AskKinds)
                /\ k.juliet[d].outgoing_requests \cap IdIn(m, d, AskKinds) = {}
                /\ k2.juliet[d].incoming_requests = k.juliet[d].incoming_requests \ IdIn(m, d, AnswerKinds)
                /\ AnswerId(item, d) = IdIn(m, d, AnswerKinds)
    <2>1. k.juliet \in [Channels -> ChannelStates]
      BY <1>1 DEF CoreStates
    <2>2. AnswerId(item, d) = {} /\ IdIn(m, d, AnswerKinds) = {}
          /\ IdIn(m, d, AskKinds) = IF d = c THEN {id} ELSE {}
      BY <1>7 DEF AnswerId, Answering, IdIn
    <2>3. k2.juliet[d] = IF d = c THEN RecordRequest(ch, id) ELSE k.juliet[d]
      BY <1>8, <1>9, <2>1
    <2>4. CASE d = c
      <3>1. k2.juliet[d] = [ch EXCEPT !.outgoing_requests = @ \cup {id}, !.prev_request_id = id]
        BY <1>6, <2>3, <2>4
      <3>2. ch = k.juliet[d] /\ ch \in ChannelStates
        BY <1>1, <2>4
      <3> QED
        BY <1>6, <2>2, <2>4, <3>1, <3>2 DEF ChannelStates
    <2>5. CASE d # c
      BY <2>2, <2>3, <2>5
    <2> QED
      BY <2>4, <2>5
  <1>11. Launch(k, item, m, k2)
    <2>1. Aside(k, k2)
      BY <1>8, <1>9 DEF Aside
    <2>2. Long(m) => k.active_multi_frame[m.header.channel] = NoHeader
      BY <1>2, <1>7 DEF Long, c
    <2> QED
      BY <1>7, <1>8, <1>9, <1>10, <2>1, <2>2 DEF Launch
  <1> QED
    BY <1>5, <1>11

\* send_to_ready_queue, for an answer that need not wait.
LEMMA LaunchAnswer ==
  ASSUME NEW W, NEW k, CoreOK(W, k), NEW item \in Orders(W), Answering(item),
         ~ItemShouldWait(k, item), item.id \in k.juliet[item.channel].incoming_requests
  PROVE  \E m : Launch(k, item, m, SendToReadyQueue(k, item))
  <1> DEFINE c == item.channel
             ch == k.juliet[c]
             id == item.id
             m == IF item.kind = "Response" THEN ResponseMsg(c, id, item.payload)
                  ELSE Frames(Header("CancelResp", c, id), NoPayload)
             k1 == [k EXCEPT !.juliet[c] = ForgetIncoming(@, id)]
             k2 == IF item.kind = "Response" THEN EnqueuePayload(k1, m) ELSE Enqueue(k1, m)
  <1>1. /\ c \in Channels /\ item.payload \in Nat \cup {NoPayload} /\ id \in Ids
        /\ item.kind \in {"Response", "ResponseCancellation"}
        /\ item.kind = "Response" => item.payload <= MaxResponsePayload[c]
        /\ item \in Items(W)
        /\ ChannelOK(c, ch) /\ ch \in ChannelStates /\ k \in CoreStates(W)
    BY ItemFacts DEF Orders, Answering, CoreOK, CoreStates
  <1>2. item.kind = "Response" /\ PayloadIsMultiFrame(item.payload) =>
            k.active_multi_frame[c] = NoHeader
    BY DEF ItemShouldWait
  <1>4. MaxResponsePayload[c] \in Nat
    BY <1>1, ChannelAssumption
  <1>5. SendToReadyQueue(k, item) = k2
    BY <1>1, <1>4 DEF SendToReadyQueue, SendResponse, SendResponseCancellation, NoPayload
  <1>7. /\ m \in Traffic /\ m.processed = 0 /\ m.header.channel = c /\ m.header.id = id
        /\ m.header.kind \in AnswerKinds /\ m.header.kind \notin AskKinds
        /\ m.payload = IF item.kind = "Response" THEN item.payload ELSE NoPayload
    <2>1. m \in Messages
      BY <1>1, NewMessages
    <2> QED
      BY <1>1, <2>1 DEF ResponseMsg, Frames, Header, Traffic, AskKinds, AnswerKinds, MaxPayload
  <1>71. Long(m) => item.kind = "Response" /\ PayloadIsMultiFrame(item.payload)
    BY <1>7 DEF Long, PayloadIsMultiFrame
  <1> HIDE DEF m, c
  <1>8. /\ CoreOK(W, k1) /\ OnlyQueued(k, k1) /\ Aside(k, k1)
    BY <1>1, ForgottenOK
  <1>9. /\ k1.juliet = [k.juliet EXCEPT ![c] = ForgetIncoming(ch, id)]
        /\ k1.ready_queue = k.ready_queue /\ k1.active_multi_frame = k.active_multi_frame
        /\ k1.closed = k.closed
    BY <1>1 DEF CoreStates
  <1> HIDE DEF k1
  <1>10. m \in Messages /\ k1 \in CoreStates(W)
    BY <1>7, <1>8, TrafficFacts DEF CoreOK
  <1>11. /\ k2.ready_queue = Append(k1.ready_queue, m) /\ Aside(k1, k2)
         /\ k2.wait_queue = k1.wait_queue
         /\ k2.result = k1.result /\ k2.closed = k1.closed /\ k2.pending_error = k1.pending_error
         /\ k2.juliet = k1.juliet
         /\ \A d \in Channels : k2.active_multi_frame[d] =
              IF Long(m) /\ d = m.header.channel THEN m.header ELSE k1.active_multi_frame[d]
    <2>1. CASE item.kind = "Response"
      <3>1. /\ OnlyQueued(k1, k2) /\ Aside(k1, k2) /\ k2.juliet = k1.juliet
            /\ k2.closed = k1.closed
        BY <1>8, <1>10, <2>1, EnqueuePayloadOK
      <3>2. /\ k2.ready_queue = Append(k1.ready_queue, m)
            /\ \A d \in Channels : k2.active_multi_frame[d] =
                 IF Long(m) /\ d = m.header.channel THEN m.header ELSE k1.active_multi_frame[d]
        BY <1>1, <1>7, <1>10, <2>1 DEF EnqueuePayload, CoreStates, Long
      <3> QED
        BY <3>1, <3>2 DEF OnlyQueued
    <2>2. CASE item.kind # "Response"
      <3>1. OnlyQueued(k1, k2) /\ Aside(k1, k2)
        BY <1>8, <1>10, <2>2, EnqueueOK
      <3>2. /\ k2.ready_queue = Append(k1.ready_queue, m) /\ k2.juliet = k1.juliet
            /\ k2.closed = k1.closed
            /\ k2.active_multi_frame = k1.active_multi_frame /\ ~Long(m)
        BY <1>10, <1>71, <2>2 DEF Enqueue, CoreStates
      <3> QED
        BY <3>1, <3>2 DEF OnlyQueued
    <2> QED
      BY <2>1, <2>2
  <1> HIDE DEF k2
  <1>12. ASSUME NEW d \in Channels
         PROVE  /\ k2.juliet[d].current_multiframe_receiver = k.juliet[d].current_multiframe_receiver
                /\ k2.juliet[d].outgoing_requests =
                     k.juliet[d].outgoing_requests \cup IdIn(m, d, AskKinds)
                /\ k.juliet[d].outgoing_requests \cap IdIn(m, d, AskKinds) = {}
                /\ k2.juliet[d].incoming_requests = k.juliet[d].incoming_requests \ IdIn(m, d, AnswerKinds)
                /\ AnswerId(item, d) = IdIn(m, d, AnswerKinds)
    <2>1. k.juliet \in [Channels -> ChannelStates]
      BY <1>1 DEF CoreStates
    <2>2. AnswerId(item, d) = (IF d = c THEN {id} ELSE {}) /\ IdIn(m, d, AskKinds) = {}
          /\ IdIn(m, d, AnswerKinds) = IF d = c THEN {id} ELSE {}
      BY <1>7 DEF AnswerId, IdIn, c
    <2>3. k2.juliet[d] = IF d = c THEN ForgetIncoming(ch, id) ELSE k.juliet[d]
      BY <1>9, <1>11, <2>1
    <2>4. CASE d = c
      <3>2. ch = k.juliet[d] /\ ch \in ChannelStates /\ k2.juliet[d] = ForgetIncoming(ch, id)
        BY <1>1, <2>3, <2>4
      <3> QED
        BY <2>2, <2>4, <3>2 DEF ChannelStates, ForgetIncoming
    <2>5. CASE d # c
      BY <2>2, <2>3, <2>5
    <2> QED
      BY <2>4, <2>5
  <1>13. Launch(k, item, m, k2)
    <2>1. Aside(k, k2)
      BY <1>8, <1>11 DEF Aside
    <2>2. Long(m) => k.active_multi_frame[m.header.channel] = NoHeader
      BY <1>2, <1>7, <1>71 DEF c
    <2>3. /\ k2.wait_queue = k.wait_queue /\ k2.result = k.result
          /\ k2.pending_error = k.pending_error
      BY <1>8, <1>11 DEF OnlyQueued
    <2> QED
      BY <1>7, <1>9, <1>11, <1>12, <2>1, <2>2, <2>3 DEF Launch
  <1> QED
    BY <1>5, <1>13

\* What a core shares with its peer:
\*   live, pipe, recv   whether the peer reads, the frames written to it that it has not
\*                      read, and its receivers;
\*   held, ans, due     per channel, for the requests of this core: those the peer holds,
\*                      those with an answer on its way, and those of the held ones that
\*                      the peer has still to answer;
\*   asked, out, ask    for the requests of the peer: those in flight, those with frames on
\*                      their way, and those that have not begun.
LineOf(s, cf) == IF cf = NoFrame THEN s ELSE Append(s, cf.frame)

\* The messages T are the ones on the line and in the queue, in their order.
Carries(e, T, R, k) ==
    LET n == Len(R) - 1
        line == LineOf(e.pipe, k.current_frame)
    IN  /\ e.pipe \in Seq(FramesOf(Kind))
        /\ Len(line) = n /\ Len(T) = n + Len(k.ready_queue)
        /\ \A i \in 1 .. n : line[i] = NextFrame(T[i])
        /\ \A i \in 1 .. Len(k.ready_queue) : k.ready_queue[i] = T[n + i]
        /\ e.live => R[1] = e.recv

\* active_multi_frame names the messages of several frames that are being sent.
Named(k, m) == Long(m) => k.active_multi_frame[m.header.channel] = m.header

Flags(T, R, k) ==
    /\ \A j \in Len(R) .. Len(T) : Named(k, T[j])
    /\ k.current_frame # NoFrame =>
         /\ Named(k, T[Len(R) - 1])
         /\ k.current_frame.final = IsFinalFrame(T[Len(R) - 1])

\* The slots for the requests of this core, and for those of its peer.
AskSlots(e, T, k, c) ==
    Slots(e.live, e.live, k.juliet[c].outgoing_requests, Underway(T, c, AskKinds),
          Unopened(T, c, AskKinds), e.held[c], e.ans[c], e.due[c])
ServeSlots(e, T, k, L, c) ==
    Slots(TRUE, e.live, e.asked[c], e.out[c], e.ask[c], k.juliet[c].incoming_requests,
          Underway(T, c, AnswerKinds), L[c] \cup AnswerIds(k.wait_queue[c], c))

\* L are the answers that are still to come, apart from those in the wait queue.
Waiting(W, L, k) ==
    \A c \in Channels :
        /\ k.wait_queue[c] \in Seq(Orders(W))
        /\ Once(k.wait_queue[c])
        /\ L[c] \cap AnswerIds(k.wait_queue[c], c) = {}

Sound(e, L, k, T, R) ==
    /\ Ordered(T, R) /\ Carries(e, T, R, k) /\ Flags(T, R, k)
    /\ \A c \in Channels : AskSlots(e, T, k, c) /\ ServeSlots(e, T, k, L, c)

Calm(k) == ~k.closed /\ k.pending_error = NoFrame

Tidy(W, e, L, k) ==
    /\ CoreOK(W, k) /\ Calm(k) /\ Waiting(W, L, k)
    /\ \E T, R : Sound(e, L, k, T, R)

\* The answer of an item is no longer among L2.
Less(L, item, L2) ==
    \A c \in Channels : L[c] = L2[c] \cup AnswerId(item, c) /\ L2[c] \cap AnswerId(item, c) = {}

\* A line of frames.
LEMMA LineFacts ==
  ASSUME NEW s \in Seq(FramesOf(Kind)),
         NEW cf \in {NoFrame} \cup [frame : FramesOf(Kind), final : BOOLEAN]
  PROVE  /\ LineOf(s, cf) \in Seq(FramesOf(Kind))
         /\ Len(s) \in Nat
         /\ Len(LineOf(s, cf)) = IF cf = NoFrame THEN Len(s) ELSE Len(s) + 1
         /\ \A i \in 1 .. Len(s) : LineOf(s, cf)[i] = s[i]
         /\ cf # NoFrame => cf.frame \in FramesOf(Kind) /\ LineOf(s, cf)[Len(s) + 1] = cf.frame
  BY AppendFacts, LenProperties DEF LineOf

\* A message that an item was made of joins the line.
LEMMA LaunchSound ==
  ASSUME NEW W, NEW e, NEW L, NEW L2, NEW k, NEW k2, NEW T, NEW R, NEW item, NEW m,
         CoreOK(W, k), Sound(e, L, k, T, R), Launch(k, item, m, k2), Less(L, item, L2),
         \A c \in Channels : L2[c] \cap AnswerIds(k.wait_queue[c], c) = {} /\
                             L[c] \cap AnswerIds(k.wait_queue[c], c) = {}
  PROVE  Sound(e, L2, k2, Append(T, m), R)
  <1> DEFINE t == Append(T, m)
             n == Len(R) - 1
             q == k.ready_queue
  <1>1. /\ T \in Seq(Traffic) /\ R \in Seq(ReceiverStates) /\ m \in Traffic /\ m.processed = 0
        /\ Len(R) \in 1 .. Len(T) + 1 /\ Len(T) \in Nat /\ Len(R) \in Nat
        /\ q \in Seq(Messages) /\ Len(q) \in Nat /\ m \in Messages
    BY LenProperties, TrafficFacts DEF Sound, Ordered, Launch, CoreOK, CoreStates
  <1>2. /\ t \in Seq(Traffic) /\ Len(t) = Len(T) + 1 /\ t[Len(T) + 1] = m
        /\ \A i \in 1 .. Len(T) : t[i] = T[i]
    BY <1>1, AppendFacts
  <1>3. Fresh(T, R, m)
    <2>1. ASSUME NEW i \in 1 .. Len(T), Alike(T[i], m) PROVE FALSE
      <3> DEFINE c == m.header.channel
      <3>1. /\ T[i] \in Traffic /\ c \in Channels /\ m.header.kind \in AskKinds \cup AnswerKinds
            /\ T[i].header.kind \in AskKinds \cup AnswerKinds
        BY <1>1, TrafficFacts, ElementOfSeq
      <3>2. CASE m.header.kind \in AskKinds
        <4>1. IsAt(T, i, c, AskKinds, m.header.id) /\ m.header.id \in IdIn(m, c, AskKinds)
          BY <2>1, <3>2 DEF Alike, IsAt, IdIn
        <4>2. m.header.id \in Underway(T, c, AskKinds)
          BY <4>1, UnderwayIff, Zenon
        <4>3. m.header.id \in k.juliet[c].outgoing_requests
          BY <3>1, <4>2 DEF Sound, AskSlots, Slots
        <4> QED
          BY <3>1, <4>1, <4>3 DEF Launch
      <3>3. CASE m.header.kind \in AnswerKinds
        <4>1. T[i].header.kind \in AnswerKinds
          BY <2>1, <3>1, <3>3 DEF Alike, AskKinds, AnswerKinds
        <4>2. IsAt(T, i, c, AnswerKinds, m.header.id) /\ m.header.id \in IdIn(m, c, AnswerKinds)
          BY <2>1, <3>3, <4>1 DEF Alike, IsAt, IdIn
        <4>3. m.header.id \in Underway(T, c, AnswerKinds)
          BY <4>2, UnderwayIff, Zenon
        <4>4. m.header.id \in L[c]
          BY <3>1, <4>2 DEF Launch, Less
        <4> QED
          BY <3>1, <4>3, <4>4 DEF Sound, ServeSlots, Slots
      <3> QED
        BY <3>1, <3>2, <3>3
    <2>2. ASSUME NEW i \in Len(R) .. Len(T), Clash(T[i], m) PROVE FALSE
      <3>1. /\ Named(k, T[i]) /\ Long(T[i]) /\ Long(m)
            /\ T[i].header.channel = m.header.channel
        BY <2>2 DEF Sound, Flags, Clash
      <3>2. k.active_multi_frame[m.header.channel] = NoHeader
        BY <3>1 DEF Launch
      <3>3. i \in 1 .. Len(T)
        BY <1>1
      <3>4. T[i] \in Traffic
        BY <1>1, <3>3, ElementOfSeq
      <3> QED
        BY <3>1, <3>2, <3>4, TrafficFacts DEF Named
    <2> QED
      BY <1>1, <2>1, <2>2 DEF Fresh
  <1>4. Ordered(t, R)
    BY <1>3, LastJoins DEF Sound
  <1>5. /\ k2.ready_queue = Append(q, m) /\ k2.current_frame = k.current_frame
        /\ Len(k2.ready_queue) = Len(q) + 1 /\ k2.ready_queue[Len(q) + 1] = m
        /\ \A i \in 1 .. Len(q) : k2.ready_queue[i] = q[i]
    BY <1>1, AppendFacts DEF Launch, Aside
  <1> HIDE DEF t
  <1>6. Carries(e, t, R, k2)
    <2> DEFINE line == LineOf(e.pipe, k.current_frame)
    <2>1. /\ e.pipe \in Seq(FramesOf(Kind)) /\ Len(line) = n /\ Len(T) = n + Len(q)
          /\ \A i \in 1 .. n : line[i] = NextFrame(T[i])
          /\ \A i \in 1 .. Len(q) : q[i] = T[n + i]
          /\ e.live => R[1] = e.recv
      BY DEF Sound, Carries
    <2> HIDE DEF line
    <2>2. /\ \A i \in 1 .. n : i \in 1 .. Len(T)
          /\ \A i \in 1 .. Len(q) : n + i \in 1 .. Len(T)
          /\ \A i \in 1 .. Len(q) + 1 : i \in 1 .. Len(q) \/ i = Len(q) + 1
          /\ n + (Len(q) + 1) = Len(T) + 1
      BY <1>1, <2>1
    <2>3. /\ Len(t) = n + Len(k2.ready_queue)
          /\ \A i \in 1 .. n : line[i] = NextFrame(t[i])
          /\ \A i \in 1 .. Len(k2.ready_queue) : k2.ready_queue[i] = t[n + i]
      BY <1>1, <1>2, <1>5, <2>1, <2>2
    <2> QED
      BY <1>5, <2>1, <2>3 DEF Carries, line
  <1>7. Flags(t, R, k2)
    <2>1. ASSUME NEW x \in Traffic, Named(k, x), Long(x) => ~(Long(m) /\ x.header.channel = m.header.channel)
          PROVE  Named(k2, x)
      BY <2>1, TrafficFacts DEF Named, Launch
    <2>2. ASSUME NEW x \in Traffic, Named(k, x) PROVE Named(k2, x)
      <3>1. ASSUME Long(x), Long(m), x.header.channel = m.header.channel PROVE FALSE
        BY <2>2, <3>1, TrafficFacts DEF Named, Launch
      <3> QED
        BY <2>1, <2>2, <3>1
    <2>3. Named(k2, m)
      BY <1>1, TrafficFacts DEF Named, Launch
    <2>4. ASSUME NEW j \in Len(R) .. Len(t) PROVE Named(k2, t[j])
      <3>1. CASE j \in Len(R) .. Len(T)
        <4>1. Named(k, T[j]) /\ j \in 1 .. Len(T)
          BY <1>1, <3>1 DEF Sound, Flags
        <4>2. T[j] \in Traffic /\ t[j] = T[j]
          BY <1>1, <1>2, <4>1, ElementOfSeq
        <4> QED
          BY <2>2, <4>1, <4>2
      <3>2. CASE j = Len(T) + 1
        BY <1>2, <2>3, <3>2
      <3> QED
        BY <1>1, <1>2, <3>1, <3>2
    <2>5. ASSUME k.current_frame # NoFrame
          PROVE  Named(k2, t[n]) /\ t[n] = T[n]
      <3>1. n \in 1 .. Len(T)
        <4>1. e.pipe \in Seq(FramesOf(Kind)) /\ Len(LineOf(e.pipe, k.current_frame)) = n
          BY DEF Sound, Carries
        <4>2. k.current_frame \in {NoFrame} \cup [frame : FramesOf(Kind), final : BOOLEAN]
          BY DEF CoreOK, CoreStates
        <4>3. n = Len(e.pipe) + 1 /\ Len(e.pipe) \in Nat
          BY <2>5, <4>1, <4>2, LineFacts
        <4> QED
          BY <1>1, <4>3
      <3>2. T[n] \in Traffic /\ t[n] = T[n]
        BY <1>1, <1>2, <3>1, ElementOfSeq
      <3>3. Named(k, T[n])
        BY <2>5 DEF Sound, Flags
      <3> QED
        BY <2>2, <3>2, <3>3
    <2> QED
      BY <1>5, <2>4, <2>5 DEF Flags, Sound
  <1>8. ASSUME NEW c \in Channels PROVE AskSlots(e, t, k2, c) /\ ServeSlots(e, t, k2, L2, c)
    <2> DEFINE I == IdIn(m, c, AskKinds)
               J == IdIn(m, c, AnswerKinds)
    <2>1. /\ Underway(t, c, AskKinds) = Underway(T, c, AskKinds) \cup I
          /\ Unopened(t, c, AskKinds) = Unopened(T, c, AskKinds) \cup I
          /\ Underway(t, c, AnswerKinds) = Underway(T, c, AnswerKinds) \cup J
      BY <1>1, UnderwayAppend DEF t
    <2>2. /\ k2.juliet[c].outgoing_requests = k.juliet[c].outgoing_requests \cup I
          /\ I \cap k.juliet[c].outgoing_requests = {}
          /\ k2.juliet[c].incoming_requests = k.juliet[c].incoming_requests \ J
          /\ k2.wait_queue = k.wait_queue
          /\ AnswerId(item, c) = J
      BY DEF Launch
    <2>3. L[c] = L2[c] \cup J /\ L2[c] \cap J = {}
      BY <2>2 DEF Less
    <2> HIDE DEF I, J
    <2>4. AskSlots(e, t, k2, c)
      <3> DEFINE Y == k.juliet[c].outgoing_requests
                 Out == Underway(T, c, AskKinds)
                 Ask == Unopened(T, c, AskKinds)
      <3>1. Slots(e.live, e.live, Y, Out, Ask, e.held[c], e.ans[c], e.due[c])
        BY DEF Sound, AskSlots
      <3>2. Slots(e.live, e.live, Y \cup I, Out \cup I, Ask \cup I, e.held[c], e.ans[c], e.due[c])
        BY <2>2, <3>1, SlotTaken, Zenon
      <3> QED
        BY <2>1, <2>2, <3>2 DEF AskSlots
    <2> DEFINE X == L[c] \cup AnswerIds(k.wait_queue[c], c)
               X2 == L2[c] \cup AnswerIds(k.wait_queue[c], c)
    <2>5. J \in SUBSET X /\ X2 \in SUBSET (X \ J)
      BY <2>3
    <2>6. ServeSlots(e, t, k2, L2, c)
      <3>1. Slots(TRUE, e.live, e.asked[c], e.out[c], e.ask[c], k.juliet[c].incoming_requests,
                  Underway(T, c, AnswerKinds), X)
        BY DEF Sound, ServeSlots
      <3> HIDE DEF X, X2
      <3>2. Slots(TRUE, e.live, e.asked[c], e.out[c], e.ask[c],
                  k.juliet[c].incoming_requests \ J, Underway(T, c, AnswerKinds) \cup J, X2)
        BY <2>5, <3>1 DEF Slots
      <3> QED
        BY <2>1, <2>2, <3>2 DEF ServeSlots, X2
    <2> QED
      BY <2>4, <2>6
  <1> QED
    BY <1>4, <1>6, <1>7, <1>8 DEF Sound, t

\* The receivers of a core.
Receiving(k) == [c \in Channels |-> k.juliet[c].current_multiframe_receiver]

\* What sending items leaves alone.
Steady(k, k2) == Aside(k, k2) /\ k2.result = k.result /\ Receiving(k2) = Receiving(k)

\* send_to_ready_queue, for an item that need not wait.
LEMMA SendTidy ==
  ASSUME NEW W, NEW e, NEW L, NEW L2, NEW k, Tidy(W, e, L, k), NEW item \in Orders(W),
         ~ItemShouldWait(k, item), Less(L, item, L2)
  PROVE  LET k2 == SendToReadyQueue(k, item)
         IN  Tidy(W, e, L2, k2) /\ Steady(k, k2)
  <1> DEFINE k2 == SendToReadyQueue(k, item)
  <1>1. CoreOK(W, k) /\ item \in Items(W) /\ Calm(k) /\ Waiting(W, L, k)
    BY DEF Tidy, Orders
  <1>2. PICK T, R : Sound(e, L, k, T, R)
    BY DEF Tidy
  <1>3. PICK m : Launch(k, item, m, k2)
    <2>1. CASE item.kind = "Request"
      BY <1>1, <2>1, LaunchRequest
    <2>2. CASE Answering(item)
      <3> DEFINE c == item.channel
      <3>1. c \in Channels
        BY <1>1, <2>2, ItemFacts DEF Answering
      <3>2. item.id \in L[c]
        BY <2>2, <3>1 DEF Less, AnswerId
      <3>3. item.id \in k.juliet[c].incoming_requests
        BY <1>2, <3>1, <3>2 DEF Sound, ServeSlots, Slots
      <3> QED
        BY <1>1, <2>2, <3>3, LaunchAnswer
    <2> QED
      BY <2>1, <2>2 DEF Orders, Answering
  <1>4. CoreOK(W, k2)
    BY <1>1, SendToReadyQueueOK DEF SendOK
  <1> HIDE DEF k2
  <1>5. \A c \in Channels : L2[c] \cap AnswerIds(k.wait_queue[c], c) = {} /\
                            L[c] \cap AnswerIds(k.wait_queue[c], c) = {}
    BY <1>1 DEF Waiting, Less
  <1>6. Sound(e, L2, k2, Append(T, m), R)
    BY <1>1, <1>2, <1>3, <1>5, LaunchSound
  <1>7. Calm(k2) /\ k2.wait_queue = k.wait_queue /\ Steady(k, k2)
    BY <1>1, <1>3 DEF Calm, Launch, Steady, Receiving
  <1>8. Waiting(W, L2, k2)
    BY <1>1, <1>5, <1>7 DEF Waiting
  <1>9. \E t, r : Sound(e, L2, k2, t, r)
    BY <1>6, Zenon
  <1>10. Tidy(W, e, L2, k2)
    BY <1>4, <1>7, <1>8, <1>9, Zenon DEF Tidy
  <1> QED
    BY <1>7, <1>10 DEF k2

\* Items are put into a wait queue or taken from it.
LEMMA RequeueTidy ==
  ASSUME NEW W, NEW e, NEW L, NEW L2, NEW k, Tidy(W, e, L, k), NEW c \in Channels,
         NEW q \in Seq(WaitItems(W, c)), q \in Seq(Orders(W)), Once(q),
         L2[c] \cap AnswerIds(q, c) = {},
         L2[c] \cup AnswerIds(q, c) = L[c] \cup AnswerIds(k.wait_queue[c], c),
         \A d \in Channels \ {c} : L2[d] = L[d]
  PROVE  LET k2 == Requeue(k, c, q)
         IN  Tidy(W, e, L2, k2) /\ Steady(k, k2)
  <1> DEFINE k2 == Requeue(k, c, q)
  <1>1. CoreOK(W, k) /\ Calm(k) /\ Waiting(W, L, k) /\ k \in CoreStates(W)
    BY DEF Tidy, CoreOK
  <1>2. PICK T, R : Sound(e, L, k, T, R)
    BY DEF Tidy
  <1>3. /\ CoreOK(W, k2) /\ Aside(k, k2) /\ k2.juliet = k.juliet
        /\ k2.pending_error = k.pending_error /\ k2.result = k.result
        /\ k2.wait_queue[c] = q
        /\ \A d \in Channels \ {c} : k2.wait_queue[d] = k.wait_queue[d]
    BY <1>1, NewWaitQueue
  <1>4. /\ k2.ready_queue = k.ready_queue /\ k2.active_multi_frame = k.active_multi_frame
        /\ k2.closed = k.closed
    BY <1>1 DEF CoreStates, Requeue
  <1> HIDE DEF k2
  <1>5. Steady(k, k2) /\ Calm(k2)
    BY <1>1, <1>3, <1>4 DEF Steady, Calm, Receiving
  <1>6. \A d \in Channels : L2[d] \cup AnswerIds(k2.wait_queue[d], d) =
                               L[d] \cup AnswerIds(k.wait_queue[d], d)
    BY <1>3
  <1>7. Waiting(W, L2, k2)
    BY <1>1, <1>3 DEF Waiting
  <1>8. Sound(e, L2, k2, T, R)
    <2>1. Carries(e, T, R, k2)
      BY <1>2, <1>3, <1>4 DEF Sound, Carries, Aside
    <2>2. Flags(T, R, k2)
      BY <1>2, <1>3, <1>4 DEF Sound, Flags, Named, Aside
    <2>3. ASSUME NEW d \in Channels PROVE AskSlots(e, T, k2, d) /\ ServeSlots(e, T, k2, L2, d)
      BY <1>2, <1>3, <1>6 DEF Sound, AskSlots, ServeSlots
    <2> QED
      BY <1>2, <2>1, <2>2, <2>3 DEF Sound
  <1>9. \E t, r : Sound(e, L2, k2, t, r)
    BY <1>8, Zenon
  <1>10. Tidy(W, e, L2, k2)
    BY <1>3, <1>5, <1>7, <1>9, Zenon DEF Tidy
  <1> QED
    BY <1>5, <1>10 DEF k2

\* An item that has to wait goes to the end of the wait queue.
LEMMA WaitTidy ==
  ASSUME NEW W, NEW e, NEW L, NEW L2, NEW k, Tidy(W, e, L, k), NEW item \in Orders(W),
         ItemShouldWait(k, item), Less(L, item, L2)
  PROVE  LET c  == item.channel
             k2 == Requeue(k, c, Append(k.wait_queue[c], item))
         IN  c \in Channels /\ Tidy(W, e, L2, k2) /\ Steady(k, k2)
  <1> DEFINE c == item.channel
             w == k.wait_queue[c]
             q == Append(w, item)
  <1>1. item \in Items(W) /\ item.kind \in {"Request", "Response"}
    BY DEF Orders, ItemShouldWait
  <1>2. c \in Channels /\ item \in WaitItems(W, c)
    BY <1>1, ItemFacts DEF WaitItems
  <1>3. /\ w \in Seq(WaitItems(W, c)) /\ w \in Seq(Orders(W)) /\ Once(w)
        /\ L[c] \cap AnswerIds(w, c) = {}
    BY <1>2 DEF Tidy, CoreOK, Waiting
  <1>4. q \in Seq(WaitItems(W, c)) /\ q \in Seq(Orders(W))
    BY <1>2, <1>3, AppendProperties
  <1>5. /\ \A d : AnswerIds(q, d) = AnswerIds(w, d) \cup AnswerId(item, d)
        /\ (\A d : AnswerId(item, d) \cap AnswerIds(w, d) = {}) => Once(q)
    BY <1>3, AnswersAppend
  <1> HIDE DEF q, w
  <1>6. \A d : d # c => AnswerId(item, d) = {}
    BY DEF AnswerId
  <1>7. L[c] = L2[c] \cup AnswerId(item, c) /\ L2[c] \cap AnswerId(item, c) = {}
    BY <1>2 DEF Less
  <1>8. \A d : AnswerId(item, d) \cap AnswerIds(w, d) = {}
    BY <1>3, <1>6, <1>7
  <1>9. Once(q) /\ L2[c] \cap AnswerIds(q, c) = {} /\
        L2[c] \cup AnswerIds(q, c) = L[c] \cup AnswerIds(w, c)
    BY <1>3, <1>5, <1>7, <1>8
  <1>10. \A d \in Channels \ {c} : L2[d] = L[d]
    BY <1>6 DEF Less
  <1>11. AnswerIds(w, c) = AnswerIds(k.wait_queue[c], c)
    BY DEF w
  <1> HIDE DEF c
  <1>12. LET k2 == Requeue(k, c, q) IN Tidy(W, e, L2, k2) /\ Steady(k, k2)
    BY <1>2, <1>4, <1>9, <1>10, <1>11, RequeueTidy
  <1> QED
    BY <1>2, <1>12 DEF q, w, c

\* With the answer of an item among those that are still to come.
More(L, item) == [c \in Channels |-> L[c] \cup AnswerId(item, c)]

\* The item at the front of a wait queue is taken.
LEMMA PopTidy ==
  ASSUME NEW W, NEW e, NEW L, NEW k, Tidy(W, e, L, k), NEW c \in Channels,
         k.wait_queue[c] # <<>>
  PROVE  LET item == Head(k.wait_queue[c])
             k2   == Requeue(k, c, Tail(k.wait_queue[c]))
         IN  /\ item \in Orders(W) /\ item.channel = c /\ k2 \in CoreStates(W)
             /\ k2.wait_queue[c] = Tail(k.wait_queue[c])
             /\ Tidy(W, e, More(L, item), k2) /\ Steady(k, k2)
             /\ Less(More(L, item), item, L)
  <1> DEFINE w == k.wait_queue[c]
             item == Head(w)
             q == Tail(w)
             L2 == More(L, item)
  <1>1. /\ w \in Seq(WaitItems(W, c)) /\ w \in Seq(Orders(W)) /\ Once(w)
        /\ L[c] \cap AnswerIds(w, c) = {} /\ w # <<>>
    BY DEF Tidy, CoreOK, Waiting
  <1>2. /\ item \in WaitItems(W, c) /\ item \in Orders(W)
        /\ q \in Seq(WaitItems(W, c)) /\ q \in Seq(Orders(W))
    BY <1>1, HeadTailProperties
  <1>3. /\ \A d : AnswerIds(w, d) = AnswerIds(q, d) \cup AnswerId(item, d)
        /\ Once(q) /\ \A d : AnswerId(item, d) \cap AnswerIds(q, d) = {}
    BY <1>1, AnswersTail
  <1>4. CoreOK(W, k)
    BY DEF Tidy
  <1> HIDE DEF item, q, w
  <1>5. item.channel = c /\ \A d : d # c => AnswerId(item, d) = {}
    BY <1>2 DEF AnswerId, WaitItems
  <1>6. L2[c] = L[c] \cup AnswerId(item, c) /\ \A d \in Channels \ {c} : L2[d] = L[d]
    BY <1>5 DEF More
  <1> HIDE DEF L2
  <1>7. L2[c] \cap AnswerIds(q, c) = {} /\ L2[c] \cup AnswerIds(q, c) = L[c] \cup AnswerIds(w, c)
    BY <1>1, <1>3, <1>6
  <1>8. AnswerIds(w, c) = AnswerIds(k.wait_queue[c], c)
    BY DEF w
  <1>9. Tidy(W, e, L2, Requeue(k, c, q)) /\ Steady(k, Requeue(k, c, q))
    BY <1>2, <1>3, <1>6, <1>7, <1>8, RequeueTidy
  <1>10. Less(L2, item, L)
    BY <1>1, <1>3, <1>5, <1>6 DEF Less
  <1>11. Requeue(k, c, q) \in CoreStates(W) /\ Requeue(k, c, q).wait_queue[c] = q
    BY <1>2, <1>4, NewWaitQueue DEF CoreOK
  <1> QED
    BY <1>2, <1>5, <1>9, <1>10, <1>11 DEF item, q, w, L2

-----------------------------------------------------------------------------
(* The loops.                                                               *)

TurnsStay(T, c) == \A turn \in T : WaitQueueTurn(turn, c) \in T

\* The loop of process_wait_queue stays within a set of states that its turns stay in.
LEMMA WaitQueueLoop ==
  ASSUME NEW core0, NEW c, NEW S, core0.wait_queue[c] \in Seq(S), NEW T,
         [core |-> core0, done |-> FALSE] \in T, TurnsStay(T, c)
  PROVE  \E turn \in T : ProcessWaitQueue(core0, c) = turn.core
  <1> DEFINE N == Len(core0.wait_queue[c])
             base == [core |-> core0, done |-> FALSE]
             Q == [n \in 0 .. N |-> T]
             F == [n \in 1 .. N |-> [turn \in T |-> WaitQueueTurn(turn, c)]]
             after == CHOOSE g : g = [n \in 0 .. N |-> IF n = 0 THEN base
                                                       ELSE WaitQueueTurn(g[n - 1], c)]
  <1>1. N \in Nat
    BY LenProperties
  <1>3. \A turn \in T : WaitQueueTurn(turn, c) \in T
    BY DEF TurnsStay
  <1>4. ProcessWaitQueue(core0, c) = after[N].core
    BY DEF ProcessWaitQueue
  <1> HIDE DEF N
  <1>5. /\ base \in Q[0]
        /\ \A n \in 1 .. N : \A s \in Q[n - 1] : F[n][s] \in Q[n]
    BY <1>1, <1>3
  <1>50. base \in T
    OBVIOUS
  <1> HIDE DEF base
  <1>6. PICK f : IsLoop(f, N, base, F) /\ \A n \in 0 .. N : f[n] \in Q[n]
    <2> HIDE DEF Q, F
    <2> QED
      BY <1>1, <1>5, LoopStates
  <1>7. ASSUME NEW n \in 0 .. N
        PROVE  f[n] = IF n = 0 THEN base ELSE WaitQueueTurn(f[n - 1], c)
    <2>1. CASE n = 0
      BY <1>6, <2>1 DEF IsLoop
    <2>2. CASE n \in 1 .. N
      <3>1. f[n] = F[n][f[n - 1]]
        BY <1>6, <2>2, Zenon DEF IsLoop
      <3>2. n - 1 \in 0 .. N
        BY <1>1, <2>2
      <3>3. f[n - 1] \in T
        BY <1>6, <3>2
      <3>4. F[n][f[n - 1]] = WaitQueueTurn(f[n - 1], c)
        BY <2>2, <3>3
      <3> QED
        BY <1>1, <2>2, <3>1, <3>4
    <2> QED
      BY <1>1, <2>1, <2>2
  <1>8. f = [n \in 0 .. N |-> IF n = 0 THEN base ELSE WaitQueueTurn(f[n - 1], c)]
    BY <1>6, <1>7 DEF IsLoop
  <1>9. after = [n \in 0 .. N |-> IF n = 0 THEN base ELSE WaitQueueTurn(after[n - 1], c)]
    BY <1>8
  <1> HIDE DEF after
  <1>10. N \in {n \in 0 .. N : after[n] \in T}
    <2> DEFINE D == {n \in 0 .. N : after[n] \in T}
    <2>1. 0 \in D
      BY <1>1, <1>50, <1>9
    <2>2. \A n \in 1 .. N : n - 1 \in D => n \in D
      BY <1>1, <1>3, <1>9
    <2> HIDE DEF D
    <2>3. 0 .. N \subseteq D
      BY <1>1, <2>1, <2>2, EveryTurn
    <2> QED
      BY <1>1, <2>3 DEF D
  <1> QED
    BY <1>4, <1>10

\* The turns of process_wait_queue leave everything tidy.
TidyTurns(W, e, L, k) ==
    {turn \in [core : CoreStates(W), done : BOOLEAN] :
        Tidy(W, e, L, turn.core) /\ Steady(k, turn.core) /\ turn.core.result = "Running"}

\* One such step after another is one.
LEMMA SteadyTrans ==
  ASSUME NEW k, NEW k2, NEW k3, Steady(k, k2), Steady(k2, k3)
  PROVE  Steady(k, k3)
  BY DEF Steady, Aside

\* A turn of the loop in process_wait_queue keeps a core tidy.
LEMMA TurnTidy ==
  ASSUME NEW W, NEW e, NEW L, NEW k0, NEW c \in Channels, NEW turn \in TidyTurns(W, e, L, k0)
  PROVE  WaitQueueTurn(turn, c) \in TidyTurns(W, e, L, k0)
  <1> DEFINE k == turn.core
             item == Head(k.wait_queue[c])
             popped == Requeue(k, c, Tail(k.wait_queue[c]))
             sent == SendToReadyQueue(popped, item)
             L2 == More(L, item)
             next == WaitQueueTurn(turn, c)
  <1>1. /\ k \in CoreStates(W) /\ turn.done \in BOOLEAN
        /\ Tidy(W, e, L, k) /\ Steady(k0, k) /\ k.result = "Running"
        /\ turn = [core |-> k, done |-> turn.done]
    BY DEF TidyTurns
  <1>2. CASE turn.done \/ k.wait_queue[c] = <<>>
    BY <1>2 DEF WaitQueueTurn
  <1>3. CASE ~turn.done /\ k.wait_queue[c] # <<>>
    <2>1. /\ item \in Orders(W) /\ item.channel = c /\ popped \in CoreStates(W)
          /\ popped.wait_queue[c] = Tail(k.wait_queue[c])
          /\ Tidy(W, e, L2, popped) /\ Steady(k, popped)
          /\ Less(L2, item, L)
      BY <1>1, <1>3, PopTidy
    <2>2. popped.result = "Running" /\ Steady(k0, popped)
      BY <1>1, <2>1, SteadyTrans DEF Steady
    <2> HIDE DEF item, L2
    <2>3. CASE ItemShouldWait(popped, item)
      <3> DEFINE queued == Requeue(popped, c, Append(popped.wait_queue[c], item))
      <3>1. next = [core |-> queued, done |-> turn.done]
        <4>1. next = [turn EXCEPT !.core.wait_queue[c] = Append(Tail(k.wait_queue[c]), item)]
          BY <1>3, <2>3 DEF WaitQueueTurn, Requeue, item
        <4>2. queued = [k EXCEPT !.wait_queue[c] = Append(Tail(k.wait_queue[c]), item)]
          BY <1>1 DEF CoreStates, Requeue
        <4> HIDE DEF next, queued
        <4> QED
          BY <1>1, <4>1, <4>2
      <3> HIDE DEF popped, next
      <3>2. Tidy(W, e, L, queued) /\ Steady(popped, queued)
        <4> DEFINE d == item.channel
                   q2 == Requeue(popped, d, Append(popped.wait_queue[d], item))
        <4>1. Tidy(W, e, L, q2) /\ Steady(popped, q2)
          BY <2>1, <2>3, WaitTidy
        <4> QED
          BY <2>1, <4>1
      <3> HIDE DEF queued
      <3>3. queued \in CoreStates(W)
        BY <3>2 DEF Tidy, CoreOK
      <3>4. Steady(k0, queued) /\ queued.result = "Running"
        BY <2>2, <3>2, SteadyTrans DEF Steady
      <3> QED
        BY <1>1, <3>1, <3>2, <3>3, <3>4 DEF TidyTurns, next
    <2>4. CASE ~ItemShouldWait(popped, item)
      <3> DEFINE done == \/ sent.result # "Running"
                         \/ ~AllowedToSendRequest(c, sent.juliet[c])
      <3>1. next = [core |-> sent, done |-> done]
        BY <1>3, <2>4 DEF WaitQueueTurn, Requeue, item
      <3> HIDE DEF popped, next
      <3>2. Tidy(W, e, L, sent) /\ Steady(popped, sent)
        BY <2>1, <2>4, SendTidy
      <3> HIDE DEF sent
      <3>3. sent \in CoreStates(W)
        BY <3>2 DEF Tidy, CoreOK
      <3>4. Steady(k0, sent) /\ sent.result = "Running"
        BY <2>2, <3>2, SteadyTrans DEF Steady
      <3>5. done \in BOOLEAN
        OBVIOUS
      <3> HIDE DEF done
      <3> QED
        BY <3>1, <3>2, <3>3, <3>4, <3>5 DEF TidyTurns, next
    <2> QED
      BY <2>3, <2>4
  <1> QED
    BY <1>2, <1>3

\* process_wait_queue
LEMMA ProcessWaitQueueTidy ==
  ASSUME NEW W, NEW e, NEW L, NEW k, Tidy(W, e, L, k), k.result = "Running", NEW c \in Channels
  PROVE  Tidy(W, e, L, ProcessWaitQueue(k, c)) /\ Steady(k, ProcessWaitQueue(k, c))
  <1> DEFINE Q == TidyTurns(W, e, L, k)
  <1>1. k.wait_queue[c] \in Seq(Orders(W))
    BY DEF Tidy, Waiting
  <1>2. [core |-> k, done |-> FALSE] \in Q
    BY DEF TidyTurns, Tidy, CoreOK, Steady, Aside
  <1>3. TurnsStay(Q, c)
    BY TurnTidy DEF TurnsStay
  <1> HIDE DEF Q
  <1>4. PICK turn \in Q : ProcessWaitQueue(k, c) = turn.core
    BY <1>1, <1>2, <1>3, WaitQueueLoop
  <1> QED
    BY <1>4 DEF Q, TidyTurns

\* handle_incoming_item
LEMMA HandleIncomingItemTidy ==
  ASSUME NEW W, NEW e, NEW L, NEW L2, NEW k, Tidy(W, e, L, k), k.result = "Running",
         NEW item \in Orders(W), Less(L, item, L2)
  PROVE  Tidy(W, e, L2, HandleIncomingItem(k, item)) /\ Steady(k, HandleIncomingItem(k, item))
  <1>1. CASE ItemShouldWait(k, item)
    <2> DEFINE c == item.channel
               k2 == Requeue(k, c, Append(k.wait_queue[c], item))
    <2>1. Tidy(W, e, L2, k2) /\ Steady(k, k2)
      BY <1>1, WaitTidy
    <2>2. HandleIncomingItem(k, item) = k2
      BY <1>1 DEF HandleIncomingItem, Requeue
    <2> QED
      BY <2>1, <2>2
  <1>2. CASE ~ItemShouldWait(k, item)
    <2>1. HandleIncomingItem(k, item) = SendToReadyQueue(k, item)
      BY <1>2 DEF HandleIncomingItem
    <2> QED
      BY <1>2, <2>1, SendTidy
  <1> QED
    BY <1>1, <1>2

ItemsLead(items, Q) ==
    \A n \in 1 .. Len(items) : \A k \in Q[n - 1] : HandleIncomingItem(k, items[n]) \in Q[n]

\* The loop over the items that were received.
LEMMA ItemsLoop ==
  ASSUME NEW core0, NEW X, core0.receiver \in Seq(X), NEW Q,
         [core0 EXCEPT !.receiver = <<>>, !.fell_through = FALSE] \in Q[0],
         ItemsLead(core0.receiver, Q)
  PROVE  HandleItems(core0) \in Q[Len(core0.receiver)]
  <1> DEFINE items == core0.receiver
             N == Len(items)
             base == [core0 EXCEPT !.receiver = <<>>, !.fell_through = FALSE]
             F == [n \in 1 .. N |-> [k \in Q[n - 1] |-> HandleIncomingItem(k, items[n])]]
             after == CHOOSE g : g = [n \in 0 .. N |-> IF n = 0 THEN base
                                          ELSE HandleIncomingItem(g[n - 1], items[n])]
  <1>1. N \in Nat
    BY LenProperties
  <1>2. HandleItems(core0) = after[N]
    BY DEF HandleItems
  <1>3. base \in Q[0] /\ \A n \in 1 .. N : \A k \in Q[n - 1] : HandleIncomingItem(k, items[n]) \in Q[n]
    BY DEF ItemsLead
  <1> HIDE DEF base, items, N
  <1>4. \A n \in 1 .. N : \A s \in Q[n - 1] : F[n][s] \in Q[n]
    BY <1>1, <1>3
  <1>8. PICK f : IsLoop(f, N, base, F) /\ \A n \in 0 .. N : f[n] \in Q[n]
    <2> HIDE DEF F
    <2> QED
      BY <1>1, <1>3, <1>4, LoopStates
  <1>9. ASSUME NEW n \in 0 .. N
        PROVE  f[n] = IF n = 0 THEN base ELSE HandleIncomingItem(f[n - 1], items[n])
    <2>1. CASE n = 0
      BY <1>8, <2>1 DEF IsLoop
    <2>2. CASE n \in 1 .. N
      <3>1. f[n] = F[n][f[n - 1]]
        BY <1>8, <2>2, Zenon DEF IsLoop
      <3>2. n - 1 \in 0 .. N
        BY <1>1, <2>2
      <3>3. f[n - 1] \in Q[n - 1]
        BY <1>8, <3>2
      <3>4. F[n][f[n - 1]] = HandleIncomingItem(f[n - 1], items[n])
        BY <2>2, <3>3
      <3> QED
        BY <1>1, <2>2, <3>1, <3>4
    <2> QED
      BY <1>1, <2>1, <2>2
  <1>10. f = [n \in 0 .. N |-> IF n = 0 THEN base ELSE HandleIncomingItem(f[n - 1], items[n])]
    BY <1>8, <1>9 DEF IsLoop
  <1>11. after = [n \in 0 .. N |-> IF n = 0 THEN base
                                   ELSE HandleIncomingItem(after[n - 1], items[n])]
    BY <1>10
  <1> HIDE DEF after
  <1>12. after[N] \in Q[N]
    <2> DEFINE D == {n \in 0 .. N : after[n] \in Q[n]}
    <2>1. 0 \in D
      BY <1>1, <1>3, <1>11
    <2>2. ASSUME NEW n \in 1 .. N, n - 1 \in D PROVE n \in D
      <3>1. n \in 0 .. N /\ n # 0
        BY <1>1
      <3>2. after[n] = HandleIncomingItem(after[n - 1], items[n])
        BY <1>11, <3>1, Zenon
      <3> QED
        BY <1>1, <1>3, <2>2, <3>1, <3>2
    <2> HIDE DEF D
    <2>3. 0 .. N \subseteq D
      BY <1>1, <2>1, <2>2, EveryTurn
    <2> QED
      BY <1>1, <2>3 DEF D
  <1> QED
    BY <1>2, <1>12 DEF N, items

\* Cores that do not differ in what they send or keep.
Agree(k, k2) ==
    /\ k2.juliet = k.juliet /\ k2.wait_queue = k.wait_queue /\ k2.ready_queue = k.ready_queue
    /\ k2.active_multi_frame = k.active_multi_frame /\ k2.current_frame = k.current_frame
    /\ k2.closed = k.closed /\ k2.pending_error = k.pending_error

\* Such cores have the same line.
LEMMA AgreeSound ==
  ASSUME NEW e, NEW L, NEW k, NEW k2, Agree(k, k2), NEW T, NEW R, Sound(e, L, k, T, R)
  PROVE  Sound(e, L, k2, T, R)
  <1>1. Carries(e, T, R, k2) /\ Flags(T, R, k2)
    BY DEF Agree, Sound, Carries, Flags, Named
  <1>2. \A c \in Channels : AskSlots(e, T, k2, c) /\ ServeSlots(e, T, k2, L, c)
    BY DEF Agree, Sound, AskSlots, ServeSlots
  <1> QED
    BY <1>1, <1>2 DEF Sound

\* One is tidy if the other is.
LEMMA AgreeTidy ==
  ASSUME NEW W, NEW e, NEW L, NEW k, NEW k2, Tidy(W, e, L, k), CoreOK(W, k2), Agree(k, k2)
  PROVE  Tidy(W, e, L, k2) /\ Receiving(k2) = Receiving(k)
  <1>1. PICK T, R : Sound(e, L, k, T, R)
    BY DEF Tidy
  <1>2. Sound(e, L, k2, T, R)
    BY <1>1, AgreeSound
  <1>3. Calm(k2) /\ Waiting(W, L, k2) /\ Receiving(k2) = Receiving(k)
    BY DEF Tidy, Agree, Calm, Waiting, Receiving
  <1>4. \E t, r : Sound(e, L, k2, t, r)
    BY <1>2, Zenon
  <1> QED
    BY <1>3, <1>4, Zenon DEF Tidy

\* D, and the answers in a queue.
Ahead(D, q) == [c \in Channels |-> D[c] \cup AnswerIds(q, c)]

\* What handling items does not touch.
Quiet(k, k2) ==
    k2.current_frame = k.current_frame /\ k2.result = k.result /\ Receiving(k2) = Receiving(k)

\* The loop in the receive branch.
LEMMA HandleItemsTidy ==
  ASSUME NEW W, NEW e, NEW D, D = [c \in Channels |-> D[c]], NEW k,
         Tidy(W, e, Ahead(D, k.receiver), k), k.result = "Running",
         k.receiver \in Seq(Orders(W)), Once(k.receiver),
         \A c \in Channels : D[c] \cap AnswerIds(k.receiver, c) = {}
  PROVE  LET k2 == HandleItems(k)
         IN  Tidy(W, e, D, k2) /\ k2.receiver = <<>> /\ Quiet(k, k2)
  <1> DEFINE items == k.receiver
             N == Len(items)
             base == [k EXCEPT !.receiver = <<>>, !.fell_through = FALSE]
             rest(n) == SubSeq(items, n + 1, N)
             S(n) == {x \in CoreStates(W) : /\ Tidy(W, e, Ahead(D, rest(n)), x)
                                            /\ x.receiver = <<>> /\ Quiet(k, x)}
             Q == [n \in 0 .. N |-> S(n)]
  <1>1. items \in Seq(Orders(W)) /\ N \in Nat /\ DOMAIN items = 1 .. N
    BY LenProperties
  <1>2. base \in S(0)
    <2>1. rest(0) = items
      BY <1>1, SubSeqFull
    <2>2. CoreOK(W, k) /\ k \in CoreStates(W)
      BY DEF Tidy, CoreOK
    <2>3. CoreOK(W, base) /\ base \in CoreStates(W) /\ Agree(k, base)
          /\ base.receiver = <<>> /\ base.current_frame = k.current_frame
          /\ base.result = k.result
      BY <2>2, EmptySeq DEF CoreOK, CoreStates, Agree
    <2> HIDE DEF base
    <2>4. Tidy(W, e, Ahead(D, items), base) /\ Receiving(base) = Receiving(k)
      BY <2>3, AgreeTidy
    <2> QED
      BY <2>1, <2>3, <2>4 DEF Quiet
  <1>4. ASSUME NEW n \in 1 .. N
        PROVE  /\ rest(n - 1) \in Seq(Orders(W)) /\ rest(n - 1) # <<>>
               /\ Head(rest(n - 1)) = items[n] /\ Tail(rest(n - 1)) = rest(n)
    <2>1. n - 1 + 1 = n /\ n \in 1 .. Len(items) /\ N \in n .. Len(items)
      BY <1>1
    <2>2. Head(SubSeq(items, n, N)) = items[n] /\ Tail(SubSeq(items, n, N)) = SubSeq(items, n + 1, N)
      BY <1>1, <2>1, HeadTailOfSubSeq
    <2>3. \A i \in n .. N : items[i] \in Orders(W)
      BY <1>1
    <2>4. SubSeq(items, n, N) \in Seq(Orders(W)) /\ Len(SubSeq(items, n, N)) = N - n + 1
      BY <1>1, <2>1, <2>3, SubSeqProperties
    <2>5. SubSeq(items, n, N) # <<>>
      <3> DEFINE q == SubSeq(items, n, N)
      <3>1. Len(q) # 0 /\ q \in Seq(Orders(W))
        BY <1>1, <2>4
      <3> HIDE DEF q
      <3>2. q # <<>>
        BY <3>1, EmptySeq
      <3> QED
        BY <3>2 DEF q
    <2> QED
      BY <2>1, <2>2, <2>4, <2>5
  <1>41. rest(0) = items
    BY <1>1, SubSeqFull
  <1>42. rest(N) = <<>>
    BY <1>1, SubSeqEmpty
  <1> HIDE DEF base, rest, items, N, S
  <1>5. ASSUME NEW n \in 0 .. N PROVE
           Once(rest(n)) /\ \A c \in Channels : D[c] \cap AnswerIds(rest(n), c) = {}
    <2> DEFINE P == {i \in 0 .. N : /\ Once(rest(i))
                                    /\ \A c \in Channels : D[c] \cap AnswerIds(rest(i), c) = {}}
    <2>1. 0 \in P
      BY <1>1, <1>41 DEF items
    <2>2. ASSUME NEW i \in 1 .. N, i - 1 \in P PROVE i \in P
      <3> DEFINE q == rest(i - 1)
      <3>1. /\ q \in Seq(Orders(W)) /\ q # <<>> /\ Tail(q) = rest(i) /\ i \in 0 .. N
            /\ Once(q) /\ \A c \in Channels : D[c] \cap AnswerIds(q, c) = {}
        BY <1>1, <1>4, <2>2
      <3> HIDE DEF q
      <3>2. /\ \A c : AnswerIds(q, c) = AnswerIds(rest(i), c) \cup AnswerId(Head(q), c)
            /\ Once(rest(i))
        BY <3>1, AnswersTail
      <3> QED
        BY <3>1, <3>2
    <2> HIDE DEF P
    <2>3. 0 .. N \subseteq P
      BY <1>1, <2>1, <2>2, EveryTurn
    <2> QED
      BY <2>3 DEF P
  <1>6. ASSUME NEW n \in 1 .. N, NEW x \in S(n - 1) PROVE HandleIncomingItem(x, items[n]) \in S(n)
    <2> DEFINE q == rest(n - 1)
               x2 == HandleIncomingItem(x, items[n])
    <2>1. /\ Tidy(W, e, Ahead(D, q), x) /\ x.receiver = <<>> /\ Quiet(k, x)
          /\ x.result = "Running"
      BY DEF S, Quiet
    <2>2. n - 1 \in 0 .. N /\ items[n] \in Orders(W)
      BY <1>1, ElementOfSeq DEF N
    <2>3. /\ q \in Seq(Orders(W)) /\ q # <<>> /\ Head(q) = items[n] /\ Tail(q) = rest(n)
          /\ Once(q) /\ \A c \in Channels : D[c] \cap AnswerIds(q, c) = {}
      BY <1>4, <1>5, <2>2
    <2> HIDE DEF q
    <2>4. /\ \A c : AnswerIds(q, c) = AnswerIds(rest(n), c) \cup AnswerId(items[n], c)
          /\ \A c : AnswerId(items[n], c) \cap AnswerIds(rest(n), c) = {}
      <3>1. /\ \A c : AnswerIds(q, c) = AnswerIds(Tail(q), c) \cup AnswerId(Head(q), c)
            /\ \A c : AnswerId(Head(q), c) \cap AnswerIds(Tail(q), c) = {}
        BY <2>3, AnswersTail
      <3> QED
        BY <2>3, <3>1, Zenon
    <2>5. Less(Ahead(D, q), items[n], Ahead(D, rest(n)))
      <3> SUFFICES ASSUME NEW c \in Channels
                   PROVE  /\ Ahead(D, q)[c] = Ahead(D, rest(n))[c] \cup AnswerId(items[n], c)
                          /\ Ahead(D, rest(n))[c] \cap AnswerId(items[n], c) = {}
        BY DEF Less
      <3>1. /\ Ahead(D, q)[c] = D[c] \cup AnswerIds(q, c)
            /\ Ahead(D, rest(n))[c] = D[c] \cup AnswerIds(rest(n), c)
        BY DEF Ahead
      <3> QED
        BY <2>3, <2>4, <3>1
    <2>6. Tidy(W, e, Ahead(D, rest(n)), x2) /\ Steady(x, x2)
      BY <2>1, <2>2, <2>5, HandleIncomingItemTidy
    <2> HIDE DEF x2
    <2>7. x2 \in CoreStates(W) /\ x2.receiver = <<>> /\ Quiet(k, x2)
      BY <2>1, <2>6 DEF Tidy, CoreOK, Steady, Aside, Quiet
    <2> QED
      BY <2>6, <2>7 DEF S, x2
  <1>7. base \in Q[0] /\ ItemsLead(items, Q)
    <2>1. base \in Q[0]
      BY <1>1, <1>2
    <2>2. ASSUME NEW n \in 1 .. N, NEW x \in Q[n - 1] PROVE HandleIncomingItem(x, items[n]) \in Q[n]
      <3>1. n - 1 \in 0 .. N /\ n \in 0 .. N
        BY <1>1
      <3>2. x \in S(n - 1)
        BY <3>1
      <3> QED
        BY <1>6, <3>1, <3>2
    <2> QED
      BY <2>1, <2>2 DEF ItemsLead, N
  <1>8. HandleItems(k) \in Q[N]
    <2> HIDE DEF Q
    <2> QED
      BY <1>1, <1>7, ItemsLoop DEF items, base, N
  <1>9. HandleItems(k) \in S(N)
    BY <1>1, <1>8
  <1>10. Ahead(D, <<>>) = D
    BY AnswersEmpty DEF Ahead
  <1> QED
    BY <1>9, <1>10, <1>42 DEF S

-----------------------------------------------------------------------------
(* The branches of next_event that write and receive.                       *)

\* Such a core has the fields it should have.
LEMMA WithFrameOK ==
  ASSUME NEW W, NEW k, CoreOK(W, k),
         NEW frame \in {NoFrame} \cup [frame : FramesOf(Kind), final : BOOLEAN],
         NEW queue \in Seq(Messages), NEW a \in [Channels -> Headers], NEW fell \in BOOLEAN,
         NEW k2, k2 = WithFrame(k, frame, queue, a, fell)
  PROVE  /\ CoreOK(W, k2) /\ k2.receiver = k.receiver /\ k2.result = k.result
         /\ k2.juliet = k.juliet /\ k2.wait_queue = k.wait_queue
         /\ k2.closed = k.closed /\ k2.pending_error = k.pending_error
         /\ k2.current_frame = frame /\ k2.ready_queue = queue
         /\ k2.active_multi_frame = a /\ k2.fell_through = fell
  BY DEF CoreOK, CoreStates, WithFrame

\* What ready_next_frame and writing do not touch.
Beside(k, k2) ==
    k2.receiver = k.receiver /\ k2.result = k.result /\ Receiving(k2) = Receiving(k)

\* ready_next_frame
LEMMA ReadyNextFrameTidy ==
  ASSUME NEW W, NEW e, NEW L, NEW k, Tidy(W, e, L, k)
  PROVE  Tidy(W, e, L, ReadyNextFrame(k)) /\ Beside(k, ReadyNextFrame(k))
  <1> DEFINE q == k.ready_queue
             k2 == ReadyNextFrame(k)
  <1>1. CoreOK(W, k) /\ k \in CoreStates(W) /\ Calm(k) /\ Waiting(W, L, k) /\ q \in Seq(Messages)
    BY DEF Tidy, CoreOK, CoreStates
  <1>2. CASE k.current_frame # NoFrame \/ q = <<>>
    BY <1>2 DEF ReadyNextFrame, Beside
  <1>3. CASE k.current_frame = NoFrame /\ q # <<>>
    <2>1. PICK T, R : Sound(e, L, k, T, R)
      BY DEF Tidy
    <2> DEFINE n == Len(R) - 1
               m == T[Len(R)]
               t == Moved(T, R)
               r == Append(R, Past(R[Len(R)], m))
               frame == [frame |-> NextFrame(m), final |-> IsFinalFrame(m)]
               a == AfterFrame(m)
               queue == IF IsFinalFrame(m) THEN Tail(q) ELSE Append(Tail(q), a)
               active == k.active_multi_frame
               fell == k.fell_through
               pipe == e.pipe
    <2>2. /\ Ordered(T, R) /\ T \in Seq(Traffic) /\ R \in Seq(ReceiverStates)
          /\ Len(T) \in Nat /\ Len(R) \in Nat /\ Len(R) \in 1 .. Len(T) + 1
      BY <2>1, LenProperties DEF Sound, Ordered
    <2>3. /\ pipe \in Seq(FramesOf(Kind)) /\ Len(pipe) = n /\ Len(T) = n + Len(q)
          /\ \A i \in 1 .. n : pipe[i] = NextFrame(T[i])
          /\ \A i \in 1 .. Len(q) : q[i] = T[n + i]
          /\ e.live => R[1] = e.recv
      BY <1>3, <2>1 DEF Sound, Carries, LineOf
    <2>4. Head(q) = q[1] /\ Len(q) \in Nat \ {0}
      BY <1>1, <1>3, HeadTailProperties, EmptySeq, LenProperties
    <2>5. Len(R) \in 1 .. Len(T) /\ Head(q) = m /\ n \in Nat
      <3>1. Len(R) \in 1 .. Len(T) /\ 1 \in 1 .. Len(q) /\ n + 1 = Len(R) /\ n \in Nat
        BY <2>2, <2>3, <2>4
      <3> QED
        BY <2>3, <2>4, <3>1
    <2>6. m \in Traffic
      BY <2>2, <2>5, ElementOfSeq
    <2>7. m \in Messages /\ m.header.channel \in Channels
      BY <2>6, TrafficFacts
    <2>8. k2 = WithFrame(k, frame, queue, active, fell)
      <3>1. k2 = [k EXCEPT !.current_frame = frame, !.ready_queue = queue]
        BY <1>3, <2>5 DEF ReadyNextFrame
      <3> HIDE DEF k2, frame, queue
      <3> QED
        BY <1>1, <3>1 DEF CoreStates, WithFrame
    <2>9. /\ frame \in [frame : FramesOf(Kind), final : BOOLEAN] /\ frame # NoFrame
      <3> DEFINE h == m.header
                 pl == m.payload
                 pr == m.processed
                 msg == [header |-> h, payload |-> pl, processed |-> pr]
      <3>1. /\ h \in MessageHeaders(Kind) /\ pl \in Nat \cup {NoPayload} /\ pr \in Int /\ m = msg
        BY <2>7 DEF Messages
      <3> HIDE DEF h, pl, pr, m
      <3>2. /\ NextFrame(msg) \in FramesOf(Kind) /\ IsFinalFrame(msg) \in BOOLEAN
        BY <3>1, MessageFrames
      <3> HIDE DEF msg
      <3>3. NextFrame(m) \in FramesOf(Kind) /\ IsFinalFrame(m) \in BOOLEAN /\ "None" \notin Kind
        BY <3>1, <3>2 DEF Kind
      <3>4. frame # NoFrame
        BY <3>3, NoFrameFacts
      <3> QED
        BY <3>3, <3>4
    <2>10. ~IsFinalFrame(m) => /\ Long(m) /\ a \in Traffic /\ a \in Messages /\ a.header = m.header
                               /\ Long(a)
      BY <2>6, FinalFacts, TrafficFacts
    <2>11. /\ Tail(q) \in Seq(Messages) /\ Len(Tail(q)) = Len(q) - 1
           /\ \A i \in 1 .. Len(q) - 1 : Tail(q)[i] = q[i + 1]
      BY <1>1, <1>3, HeadTailProperties
    <2> HIDE DEF a, q
    <2>12. queue \in Seq(Messages)
      BY <2>10, <2>11, AppendProperties
    <2>13. active \in [Channels -> Headers] /\ fell \in BOOLEAN
      BY <1>1 DEF CoreStates
    <2> HIDE DEF frame, queue, active, fell, k2
    <2>14. /\ CoreOK(W, k2) /\ k2.receiver = k.receiver /\ k2.result = k.result
           /\ k2.juliet = k.juliet /\ k2.wait_queue = k.wait_queue
           /\ k2.closed = k.closed /\ k2.pending_error = k.pending_error
           /\ k2.current_frame = frame /\ k2.ready_queue = queue
           /\ k2.active_multi_frame = active
      BY <1>1, <2>8, <2>9, <2>12, <2>13, WithFrameOK
    <2>15. Ordered(t, r)
      BY <2>2, <2>5, FrontMoves
    <2>16. R[Len(R)] \in ReceiverStates
      BY <2>2, <2>5, ElementOfSeq
    <2>17. Past(R[Len(R)], m) \in ReceiverStates
      BY <2>6, <2>16, PastFacts
    <2>18. Len(r) = Len(R) + 1 /\ \A i \in 1 .. Len(R) : r[i] = R[i]
      BY <2>2, <2>17, AppendFacts
    <2>19. /\ IsFinalFrame(m) => t = T
           /\ ~IsFinalFrame(m) => t = Append(T, a)
      BY DEF Moved, a
    <2>20. /\ ~IsFinalFrame(m) => Len(t) = Len(T) + 1 /\ t[Len(T) + 1] = a
           /\ IsFinalFrame(m) => Len(t) = Len(T)
           /\ \A i \in 1 .. Len(T) : t[i] = T[i]
      BY <2>2, <2>10, <2>19, AppendFacts
    <2>21. /\ IsFinalFrame(m) => queue = Tail(q)
           /\ ~IsFinalFrame(m) => queue = Append(Tail(q), a)
      BY DEF queue
    <2>22. /\ IsFinalFrame(m) => Len(queue) = Len(q) - 1
           /\ ~IsFinalFrame(m) => Len(queue) = Len(q) /\ queue[Len(q)] = a
           /\ \A i \in 1 .. Len(q) - 1 : queue[i] = q[i + 1]
      <3>1. CASE IsFinalFrame(m)
        BY <2>11, <2>21, <3>1
      <3>2. CASE ~IsFinalFrame(m)
        <4> DEFINE u == Tail(q)
        <4>1. /\ u \in Seq(Messages) /\ a \in Messages /\ queue = Append(u, a)
              /\ Len(u) = Len(q) - 1 /\ \A i \in 1 .. Len(q) - 1 : u[i] = q[i + 1]
          BY <2>10, <2>11, <2>21, <3>2
        <4> HIDE DEF u
        <4>2. /\ Len(queue) = Len(u) + 1 /\ queue[Len(u) + 1] = a
              /\ \A i \in 1 .. Len(u) : queue[i] = u[i]
          BY <4>1, AppendFacts
        <4>3. Len(u) + 1 = Len(q)
          BY <2>4, <4>1
        <4>4. \A i \in 1 .. Len(q) - 1 : queue[i] = q[i + 1]
          BY <4>1, <4>2
        <4> QED
          BY <3>2, <4>2, <4>3, <4>4
      <3> QED
        BY <3>1, <3>2
    <2>23. frame.frame = NextFrame(m) /\ frame.final = IsFinalFrame(m)
      BY DEF frame
    <2> DEFINE line == LineOf(pipe, frame)
    <2>24. /\ Len(line) = n + 1 /\ line[n + 1] = NextFrame(m)
           /\ \A i \in 1 .. n : line[i] = pipe[i]
      <3>1. frame \in {NoFrame} \cup [frame : FramesOf(Kind), final : BOOLEAN]
        BY <2>9
      <3> HIDE DEF pipe
      <3> QED
        BY <2>3, <2>9, <2>23, <3>1, LineFacts
    <2> HIDE DEF line, t, r, m, pipe
    <2>25. /\ Len(r) - 1 = n + 1 /\ Len(r) - 1 = Len(R) /\ n + 1 = Len(R)
           /\ \A i \in 1 .. n + 1 : i \in 1 .. n \/ i = n + 1
           /\ \A i \in 1 .. n + 1 : i \in 1 .. Len(T)
           /\ \A i \in 1 .. Len(q) - 1 : /\ i + 1 \in 1 .. Len(q) /\ n + (i + 1) = n + 1 + i
                                         /\ n + 1 + i \in 1 .. Len(T)
           /\ n + 1 + Len(q) = Len(T) + 1
           /\ \A i \in 1 .. Len(q) : i \in 1 .. Len(q) - 1 \/ i = Len(q)
      BY <2>2, <2>3, <2>4, <2>5, <2>18
    <2>250. m = T[n + 1]
      BY <2>25 DEF m
    <2>26. \A i \in 1 .. n + 1 : line[i] = NextFrame(t[i])
      <3> SUFFICES ASSUME NEW i \in 1 .. n + 1 PROVE line[i] = NextFrame(t[i])
        OBVIOUS
      <3>1. t[i] = T[i]
        BY <2>20, <2>25
      <3>2. CASE i \in 1 .. n
        BY <2>3, <2>24, <3>1, <3>2
      <3>3. CASE i = n + 1
        BY <2>24, <2>250, <3>1, <3>3
      <3> QED
        BY <2>25, <3>2, <3>3
    <2>27. \A i \in 1 .. Len(queue) : queue[i] = t[n + 1 + i]
      <3> SUFFICES ASSUME NEW i \in 1 .. Len(queue) PROVE queue[i] = t[n + 1 + i]
        OBVIOUS
      <3>1. CASE i \in 1 .. Len(q) - 1
        <4>1. queue[i] = q[i + 1] /\ q[i + 1] = T[n + (i + 1)]
          BY <2>3, <2>22, <2>25, <3>1
        <4>2. t[n + 1 + i] = T[n + 1 + i]
          BY <2>20, <2>25, <3>1
        <4> QED
          BY <2>25, <3>1, <4>1, <4>2
      <3>2. CASE i \notin 1 .. Len(q) - 1
        <4>1. ~IsFinalFrame(m) /\ i = Len(q)
          BY <2>22, <2>25, <3>2
        <4> QED
          BY <2>20, <2>22, <2>25, <4>1
      <3> QED
        BY <3>1, <3>2
    <2>28. Len(t) = n + 1 + Len(queue)
      <3>1. CASE IsFinalFrame(m)
        BY <2>3, <2>4, <2>5, <2>20, <2>22, <3>1
      <3>2. CASE ~IsFinalFrame(m)
        <4>1. Len(t) = Len(T) + 1 /\ Len(queue) = Len(q) /\ Len(T) = n + Len(q)
          BY <2>3, <2>20, <2>22, <3>2
        <4>2. n \in Nat /\ Len(q) \in Nat /\ Len(T) \in Nat
          BY <2>2, <2>4, <2>5
        <4> HIDE DEF n
        <4> QED
          BY <4>1, <4>2
      <3> QED
        BY <3>1, <3>2
    <2>29. Carries(e, t, r, k2)
      <3>1. 1 \in 1 .. Len(R)
        BY <2>2
      <3>2. e.live => r[1] = e.recv
        BY <2>3, <2>18, <3>1
      <3> QED
        BY <2>3, <2>14, <2>24, <2>25, <2>26, <2>27, <2>28, <3>2 DEF Carries, line, pipe
    <2>30. Flags(t, r, k2)
      <3>1. \A x : Named(k2, x) <=> Named(k, x)
        BY <2>14 DEF Named, active
      <3>2. \A j \in Len(R) .. Len(T) : Named(k, T[j])
        BY <2>1 DEF Sound, Flags
      <3>3. Named(k, m)
        BY <2>5, <3>2 DEF m
      <3>4. ~IsFinalFrame(m) => Named(k, a)
        BY <2>10, <3>3 DEF Named
      <3>5. ASSUME NEW j \in Len(r) .. Len(t) PROVE Named(k2, t[j])
        <4>1. CASE j \in 1 .. Len(T)
          <5>1. j \in Len(R) .. Len(T)
            BY <2>2, <2>18, <4>1
          <5> QED
            BY <2>20, <3>1, <3>2, <4>1, <5>1
        <4>2. CASE j \notin 1 .. Len(T)
          <5>1. ~IsFinalFrame(m) /\ j = Len(T) + 1
            BY <2>2, <2>18, <2>20, <4>2
          <5> QED
            BY <2>20, <3>1, <3>4, <5>1
        <4> QED
          BY <4>1, <4>2
      <3>6. t[Len(r) - 1] = m
        BY <2>5, <2>20, <2>25 DEF m
      <3> QED
        BY <2>14, <2>23, <3>1, <3>3, <3>5, <3>6 DEF Flags
    <2>31. ASSUME NEW c \in Channels PROVE AskSlots(e, t, k2, c) /\ ServeSlots(e, t, k2, L, c)
      <3>1. \A K : /\ Underway(t, c, K) = Underway(T, c, K)
                   /\ Unopened(t, c, K) = Unopened(T, c, K)
        BY <2>2, <2>5, UnderwayMoved DEF t
      <3> QED
        BY <2>1, <2>14, <3>1 DEF Sound, AskSlots, ServeSlots
    <2>32. Sound(e, L, k2, t, r)
      BY <2>15, <2>29, <2>30, <2>31 DEF Sound
    <2>33. Calm(k2) /\ Waiting(W, L, k2) /\ Beside(k, k2)
      BY <1>1, <2>14 DEF Calm, Waiting, Beside, Receiving
    <2>34. \E T1, R1 : Sound(e, L, k2, T1, R1)
      BY <2>32, Zenon
    <2>35. Tidy(W, e, L, k2)
      BY <2>14, <2>33, <2>34, Zenon DEF Tidy
    <2> QED
      BY <2>33, <2>35 DEF k2
  <1> QED
    BY <1>2, <1>3 DEF q

\* The frame was written: it is on the line, behind what was there.
Piped(e, f, e2) ==
    /\ e2.pipe = Append(e.pipe, f)
    /\ e2.live = e.live /\ e2.recv = e.recv
    /\ e2.held = e.held /\ e2.ans = e.ans /\ e2.due = e.due
    /\ e2.asked = e.asked /\ e2.out = e.out /\ e2.ask = e.ask

\* current_frame is taken out, and the message it ends is no longer named.
LaidDown(k) ==
    LET h == k.current_frame.frame.header
    IN  WithFrame(k, NoFrame, k.ready_queue,
                  [k.active_multi_frame EXCEPT ![h.channel] =
                     IF k.current_frame.final /\ k.active_multi_frame[h.channel] = h
                     THEN NoHeader ELSE k.active_multi_frame[h.channel]],
                  FALSE)

\* A frame that was written is on the line: the core stays tidy.
LEMMA LaidDownTidy ==
  ASSUME NEW W, NEW e, NEW e2, NEW L, NEW k, Tidy(W, e, L, k), k.current_frame # NoFrame,
         Piped(e, k.current_frame.frame, e2)
  PROVE  /\ Tidy(W, e2, L, LaidDown(k)) /\ Beside(k, LaidDown(k))
         /\ k.current_frame.frame.header.channel \in Channels
  <1> DEFINE cf == k.current_frame
             f == cf.frame
             h == f.header
             d == h.channel
             a == [k.active_multi_frame EXCEPT ![d] =
                     IF cf.final /\ k.active_multi_frame[d] = h
                     THEN NoHeader ELSE k.active_multi_frame[d]]
             q == k.ready_queue
             k2 == LaidDown(k)
             none == NoFrame
             fell == FALSE
  <1>1. /\ CoreOK(W, k) /\ Calm(k) /\ Waiting(W, L, k) /\ q \in Seq(Messages)
        /\ k.active_multi_frame \in [Channels -> Headers]
        /\ cf \in [frame : FramesOf(Kind), final : BOOLEAN]
    BY DEF Tidy, CoreOK, CoreStates
  <1>2. f \in FramesOf(Kind) /\ d \in Channels
    BY <1>1 DEF FramesOf, MessageHeaders
  <1>3. a \in [Channels -> Headers]
    <2>1. NoHeader \in Headers
      BY DEF NoHeader, Headers, Header
    <2> HIDE DEF h, d
    <2> QED
      BY <1>1, <1>2, <2>1
  <1>4. k2 = WithFrame(k, none, q, a, fell)
    BY DEF LaidDown
  <1>5. none \in {NoFrame} \cup [frame : FramesOf(Kind), final : BOOLEAN] /\ fell \in BOOLEAN
    OBVIOUS
  <1>6. \A c \in Channels : a[c] = IF c = d /\ cf.final /\ k.active_multi_frame[d] = h
                                   THEN NoHeader ELSE k.active_multi_frame[c]
    <2> DEFINE old == k.active_multi_frame
               new == IF cf.final /\ old[d] = h THEN NoHeader ELSE old[d]
    <2>1. old \in [Channels -> Headers] /\ a = [old EXCEPT ![d] = new]
      BY <1>1
    <2>2. TAKE c \in Channels
    <2>3. a[c] = IF c = d THEN new ELSE old[c]
      <3> HIDE DEF h, d, cf, old, new, a
      <3> QED
        BY <1>2, <2>1
    <2>4. CASE c = d
      BY <2>3, <2>4
    <2>5. CASE c # d
      BY <2>3, <2>5
    <2> QED
      BY <2>4, <2>5
  <1>7. none = NoFrame
    OBVIOUS
  <1> HIDE DEF none, a, k2, fell
  <1>8. /\ CoreOK(W, k2) /\ k2.receiver = k.receiver /\ k2.result = k.result
        /\ k2.juliet = k.juliet /\ k2.wait_queue = k.wait_queue
        /\ k2.closed = k.closed /\ k2.pending_error = k.pending_error
        /\ k2.current_frame = NoFrame /\ k2.ready_queue = q
        /\ k2.active_multi_frame = a
    <2> HIDE DEF q, cf, f, h, d
    <2>1. CoreOK(W, k) /\ q \in Seq(Messages)
      BY <1>1
    <2>2. none \in {NoFrame} \cup [frame : FramesOf(Kind), final : BOOLEAN]
      BY <1>5
    <2>3. fell \in BOOLEAN
      BY <1>5
    <2>4. /\ CoreOK(W, k2) /\ k2.receiver = k.receiver /\ k2.result = k.result
          /\ k2.juliet = k.juliet /\ k2.wait_queue = k.wait_queue
          /\ k2.closed = k.closed /\ k2.pending_error = k.pending_error
          /\ k2.current_frame = none /\ k2.ready_queue = q
          /\ k2.active_multi_frame = a /\ k2.fell_through = fell
      BY <1>3, <1>4, <2>1, <2>2, <2>3, WithFrameOK
    <2> QED
      BY <1>7, <2>4
  <1>9. PICK T, R : Sound(e, L, k, T, R)
    BY DEF Tidy
  <1> DEFINE n == Len(R) - 1
  <1>10. /\ Ordered(T, R) /\ T \in Seq(Traffic) /\ Len(T) \in Nat /\ Len(R) \in Nat
         /\ Len(R) \in 1 .. Len(T) + 1
    BY <1>9, LenProperties DEF Sound, Ordered
  <1>11. Carries(e, T, R, k) /\ Flags(T, R, k)
    BY <1>9 DEF Sound
  <1>12. /\ e.pipe \in Seq(FramesOf(Kind)) /\ LineOf(e.pipe, cf) = Append(e.pipe, f)
         /\ Len(Append(e.pipe, f)) = n
         /\ Append(e.pipe, f) \in Seq(FramesOf(Kind))
         /\ Append(e.pipe, f)[n] = f /\ n \in 1 .. Len(T)
    <2>1. e.pipe \in Seq(FramesOf(Kind)) /\ Len(LineOf(e.pipe, cf)) = n
      BY <1>11 DEF Carries
    <2>2. LineOf(e.pipe, cf) = Append(e.pipe, f)
      BY DEF LineOf
    <2>3. /\ Append(e.pipe, f) \in Seq(FramesOf(Kind)) /\ Len(Append(e.pipe, f)) = Len(e.pipe) + 1
          /\ Append(e.pipe, f)[Len(e.pipe) + 1] = f /\ Len(e.pipe) \in Nat
      BY <1>2, <2>1, AppendFacts
    <2>4. n = Len(e.pipe) + 1
      BY <2>1, <2>2, <2>3
    <2>5. n \in 1 .. Len(T)
      BY <1>10, <2>3, <2>4
    <2> QED
      BY <2>1, <2>2, <2>3, <2>4, <2>5
  <1>13. f = NextFrame(T[n])
    <2>1. n \in 1 .. n
      BY <1>12
    <2> QED
      BY <1>11, <1>12, <2>1 DEF Carries
  <1>14. T[n] \in Traffic
    BY <1>10, <1>12, ElementOfSeq
  <1>15. h = T[n].header
    BY <1>13, <1>14, FinalFacts
  <1>16. Carries(e2, T, R, k2)
    <2>1. LineOf(e2.pipe, k2.current_frame) = LineOf(e.pipe, cf)
      BY <1>8, <1>12 DEF Piped, LineOf
    <2>2. e2.pipe \in Seq(FramesOf(Kind)) /\ e2.live = e.live /\ e2.recv = e.recv
      BY <1>12 DEF Piped
    <2> QED
      BY <1>8, <1>11, <2>1, <2>2 DEF Carries
  <1>17. Flags(T, R, k2)
    <2>1. ASSUME NEW j \in Len(R) .. Len(T) PROVE Named(k2, T[j])
      <3>1. j \in 1 .. Len(T) /\ n < j
        BY <1>10, <1>12
      <3>2. T[j] \in Traffic /\ Named(k, T[j])
        BY <1>10, <1>11, <2>1, <3>1, ElementOfSeq DEF Flags
      <3>3. ASSUME Long(T[j]), T[j].header.channel = d, cf.final, k.active_multi_frame[d] = h
            PROVE  FALSE
        <4>1. T[j].header = T[n].header
          BY <1>15, <3>2, <3>3 DEF Named
        <4>2. Alike(T[n], T[j])
          BY <4>1 DEF Alike
        <4>3. ~IsFinalFrame(T[n])
          BY <1>10, <1>12, <3>1, <4>2 DEF Ordered, InTurn
        <4>4. cf.final = IsFinalFrame(T[n])
          BY <1>11 DEF Flags
        <4> QED
          BY <3>3, <4>3, <4>4
      <3>4. T[j].header.channel \in Channels
        BY <3>2, TrafficFacts
      <3> HIDE DEF h, d, cf
      <3> QED
        BY <1>6, <1>8, <3>2, <3>3, <3>4 DEF Named
    <2> QED
      BY <1>8, <2>1 DEF Flags
  <1>18. ASSUME NEW c \in Channels PROVE AskSlots(e2, T, k2, c) /\ ServeSlots(e2, T, k2, L, c)
    BY <1>8, <1>9 DEF Sound, AskSlots, ServeSlots, Piped
  <1>19. Sound(e2, L, k2, T, R)
    BY <1>10, <1>16, <1>17, <1>18 DEF Sound
  <1>20. Calm(k2) /\ Waiting(W, L, k2) /\ Beside(k, k2)
    BY <1>1, <1>8 DEF Calm, Waiting, Beside, Receiving
  <1>21. \E t, r : Sound(e2, L, k2, t, r)
    BY <1>19, Zenon
  <1>22. Tidy(W, e2, L, k2)
    BY <1>8, <1>20, <1>21, Zenon DEF Tidy
  <1> QED
    BY <1>2, <1>20, <1>22 DEF k2

\* Nobody reads any more, and what was on its way is lost.
Severed(e, e2) ==
    /\ e2.pipe = <<>> /\ ~e2.live
    /\ e2.held = e.held /\ e2.ans = e.ans /\ e2.due = e.due
    /\ e2.asked = e.asked /\ e2.out = e.out /\ e2.ask = e.ask

Transit(e, T, R, k) == Ordered(T, R) /\ Carries(e, T, R, k) /\ Flags(T, R, k)

\* The messages that are left, once g frames have left the line.
CutTo(e, g, e2) ==
    /\ g \in 0 .. Len(e.pipe)
    /\ e2.pipe \in Seq(FramesOf(Kind)) /\ Len(e2.pipe) = Len(e.pipe) - g
    /\ \A i \in 1 .. Len(e2.pipe) : e2.pipe[i] = e.pipe[i + g]

\* The line stays in order when frames leave it at its head.
LEMMA CutTransit ==
  ASSUME NEW W, NEW e, NEW e2, NEW k, CoreOK(W, k), NEW T, NEW R,
         Transit(e, T, R, k), NEW g, CutTo(e, g, e2), e2.live => R[g + 1] = e2.recv
  PROVE  /\ g \in 0 .. Len(R) - 1 /\ g \in 0 .. Len(T) /\ T \in Seq(Traffic)
         /\ Transit(e2, Rest(T, g), Rest(R, g), k)
  <1> DEFINE cf == k.current_frame
             s == e.pipe
             s2 == e2.pipe
             t == Rest(T, g)
             r == Rest(R, g)
             n == Len(R) - 1
             q == k.ready_queue
             o == Len(r) - 1
             line == LineOf(s, cf)
             line2 == LineOf(s2, cf)
             one == IF cf = NoFrame THEN 0 ELSE 1
  <1>1. /\ Ordered(T, R) /\ T \in Seq(Traffic) /\ R \in Seq(ReceiverStates)
        /\ Len(T) \in Nat /\ Len(R) \in Nat /\ Len(R) \in 1 .. Len(T) + 1
    BY LenProperties DEF Transit, Ordered
  <1>2. /\ s \in Seq(FramesOf(Kind)) /\ Len(line) = n /\ Len(T) = n + Len(q)
        /\ \A i \in 1 .. n : line[i] = NextFrame(T[i])
        /\ \A i \in 1 .. Len(q) : q[i] = T[n + i]
    BY DEF Transit, Carries
  <1>3. cf \in {NoFrame} \cup [frame : FramesOf(Kind), final : BOOLEAN] /\ Len(q) \in Nat
    BY LenProperties DEF CoreOK, CoreStates
  <1>4. /\ Len(s) \in Nat /\ Len(line) = Len(s) + one
        /\ \A i \in 1 .. Len(s) : line[i] = s[i]
        /\ cf # NoFrame => line[Len(s) + 1] = cf.frame
    <2>1. /\ Len(s) \in Nat /\ Len(line) = IF cf = NoFrame THEN Len(s) ELSE Len(s) + 1
          /\ \A i \in 1 .. Len(s) : line[i] = s[i]
          /\ cf # NoFrame => line[Len(s) + 1] = cf.frame
      BY <1>2, <1>3, LineFacts
    <2> HIDE DEF line, s, cf
    <2> QED
      BY <2>1
  <1>5. /\ g \in 0 .. Len(s) /\ s2 \in Seq(FramesOf(Kind)) /\ Len(s2) = Len(s) - g
        /\ \A i \in 1 .. Len(s2) : s2[i] = s[i + g]
    BY DEF CutTo
  <1>6. /\ Len(s2) \in Nat /\ Len(line2) = Len(s2) + one
        /\ \A i \in 1 .. Len(s2) : line2[i] = s2[i]
        /\ cf # NoFrame => line2[Len(s2) + 1] = cf.frame
    <2>1. /\ Len(s2) \in Nat /\ Len(line2) = IF cf = NoFrame THEN Len(s2) ELSE Len(s2) + 1
          /\ \A i \in 1 .. Len(s2) : line2[i] = s2[i]
          /\ cf # NoFrame => line2[Len(s2) + 1] = cf.frame
      BY <1>3, <1>5, LineFacts
    <2> HIDE DEF line2, s2, cf
    <2> QED
      BY <2>1
  <1>7. one \in 0 .. 1 /\ (one = 0 <=> cf = NoFrame)
    OBVIOUS
  <1> HIDE DEF line, line2, q, s, s2, cf, one
  <1>8. /\ g \in 0 .. Len(R) - 1 /\ g \in 0 .. Len(T) /\ g \in 0 .. Len(R) /\ g + 1 \in Nat
        /\ g \in Nat /\ n \in Nat /\ n = Len(s) + one
    <2> DEFINE x == Len(s)
               u == Len(T)
               v == Len(R)
               w == Len(q)
    <2>1. /\ x \in Nat /\ u \in Nat /\ v \in Nat /\ w \in Nat /\ one \in 0 .. 1
          /\ v \in 1 .. u + 1 /\ g \in 0 .. x /\ v - 1 = x + one
      BY <1>1, <1>2, <1>3, <1>4, <1>5, <1>7
    <2> HIDE DEF x, u, v, w
    <2>2. /\ g \in 0 .. v - 1 /\ g \in 0 .. u /\ g \in 0 .. v /\ g + 1 \in Nat
          /\ g \in Nat /\ v - 1 \in Nat
      BY <2>1
    <2> QED
      BY <2>1, <2>2 DEF x, u, v, w
  <1>9. Ordered(t, r)
    BY <1>1, <1>8, FirstGone
  <1>10. /\ Len(t) = Len(T) - g /\ \A i \in 1 .. Len(T) - g : i + g \in 1 .. Len(T) /\ t[i] = T[i + g]
         /\ Len(r) = Len(R) - g /\ \A i \in 1 .. Len(R) - g : r[i] = R[i + g]
    BY <1>1, <1>8, RestFacts
  <1> HIDE DEF t, r
  <1>11. n = Len(R) - 1 /\ o = Len(r) - 1
    OBVIOUS
  <1> HIDE DEF n, o
  <1>12. o = n - g /\ o \in Nat /\ Len(line2) = o /\ o = Len(s2) + one
    <2>1. o = Len(R) - g - 1
      BY <1>10, <1>11
    <2>2. o = n - g
      BY <1>1, <1>8, <1>11, <2>1
    <2>3. o = Len(s2) + one
      BY <1>4, <1>5, <1>7, <1>8, <2>2
    <2> QED
      BY <1>6, <1>7, <2>2, <2>3
  <1>13. ASSUME NEW i \in 1 .. o PROVE line2[i] = NextFrame(t[i])
    <2>1. /\ i + g \in 1 .. n /\ i \in 1 .. Len(T) - g
      <3>1. i \in Nat /\ i >= 1 /\ i <= n - g
        BY <1>8, <1>12
      <3>2. n <= Len(T) /\ Len(T) \in Nat
        BY <1>1, <1>2, <1>3, <1>8
      <3> QED
        BY <1>8, <3>1, <3>2
    <2>2. t[i] = T[i + g] /\ line[i + g] = NextFrame(T[i + g])
      BY <1>2, <1>10, <2>1
    <2>3. CASE i <= Len(s2)
      <3>1. i \in 1 .. Len(s2) /\ i + g \in 1 .. Len(s)
        BY <1>5, <1>6, <1>8, <2>3
      <3> QED
        BY <1>4, <1>5, <1>6, <2>2, <3>1
    <2>4. CASE ~(i <= Len(s2))
      <3>1. i = Len(s2) + 1 /\ i + g = Len(s) + 1 /\ one = 1
        BY <1>5, <1>6, <1>7, <1>8, <1>12, <2>4
      <3>2. cf # NoFrame
        BY <1>7, <3>1
      <3> QED
        BY <1>4, <1>6, <2>2, <3>1, <3>2
    <2> QED
      BY <2>3, <2>4
  <1>14. Carries(e2, t, r, k)
    <2>1. Len(t) = o + Len(q)
      BY <1>2, <1>3, <1>8, <1>10, <1>12
    <2>2. ASSUME NEW i \in 1 .. Len(q) PROVE q[i] = t[o + i]
      <3>1. o + i \in 1 .. Len(T) - g /\ o + i + g = n + i
        BY <1>2, <1>3, <1>8, <1>12
      <3>2. t[o + i] = T[n + i]
        BY <1>10, <3>1
      <3> QED
        BY <1>2, <3>2
    <2>3. r[1] = R[g + 1]
      <3>1. 1 \in 1 .. Len(R) - g /\ 1 + g = g + 1
        BY <1>1, <1>8
      <3> QED
        BY <1>10, <3>1
    <2> QED
      BY <1>5, <1>11, <1>12, <1>13, <2>1, <2>2, <2>3 DEF Carries, line2, q, s2, cf
  <1>15. Flags(t, r, k)
    <2>1. ASSUME NEW j \in Len(r) .. Len(t) PROVE Named(k, t[j])
      <3>1. j \in 1 .. Len(T) - g /\ j + g \in Len(R) .. Len(T)
        BY <1>1, <1>8, <1>10, <1>11, <1>12
      <3>2. t[j] = T[j + g]
        BY <1>10, <3>1
      <3> QED
        BY <3>1, <3>2 DEF Transit, Flags
    <2>2. ASSUME cf # NoFrame PROVE t[Len(r) - 1] = T[Len(R) - 1]
      <3>1. one = 1
        BY <1>7, <2>2
      <3>2. Len(r) - 1 \in 1 .. Len(T) - g /\ Len(r) - 1 + g = Len(R) - 1
        BY <1>1, <1>2, <1>3, <1>6, <1>8, <1>10, <1>11, <1>12, <3>1
      <3> QED
        BY <1>10, <3>2
    <2> QED
      BY <2>1, <2>2 DEF Transit, Flags, cf
  <1> QED
    BY <1>1, <1>8, <1>9, <1>14, <1>15 DEF Transit, t, r

\* The line stays in order when all that was on its way is lost.
LEMMA SeveredTransit ==
  ASSUME NEW W, NEW e, NEW e2, NEW k, CoreOK(W, k), NEW T, NEW R,
         Transit(e, T, R, k), Severed(e, e2)
  PROVE  LET g == Len(e.pipe) IN
         /\ g \in 0 .. Len(R) - 1 /\ g \in 0 .. Len(T) /\ T \in Seq(Traffic)
         /\ Transit(e2, Rest(T, g), Rest(R, g), k)
  <1> DEFINE g == Len(e.pipe)
  <1>1. e.pipe \in Seq(FramesOf(Kind)) /\ g \in Nat
    BY LenProperties DEF Transit, Carries
  <1>2. <<>> \in Seq(FramesOf(Kind)) /\ Len(<<>>) = 0
    BY EmptySeq
  <1>3. CutTo(e, g, e2)
    BY <1>1, <1>2 DEF CutTo, Severed
  <1>4. e2.live => R[g + 1] = e2.recv
    BY DEF Severed
  <1> HIDE DEF g
  <1>5. /\ g \in 0 .. Len(R) - 1 /\ g \in 0 .. Len(T) /\ T \in Seq(Traffic)
        /\ Transit(e2, Rest(T, g), Rest(R, g), k)
    BY <1>3, <1>4, CutTransit
  <1> QED
    BY <1>5 DEF g

\* A core stays tidy when its peer is gone.
LEMMA SeveredTidy ==
  ASSUME NEW W, NEW e, NEW e2, NEW L, NEW k, Tidy(W, e, L, k), Severed(e, e2)
  PROVE  Tidy(W, e2, L, k)
  <1>1. CoreOK(W, k) /\ Calm(k) /\ Waiting(W, L, k)
    BY DEF Tidy
  <1>2. PICK T, R : Sound(e, L, k, T, R)
    BY DEF Tidy
  <1> DEFINE g == Len(e.pipe)
             t == Rest(T, g)
             r == Rest(R, g)
  <1>3. Transit(e, T, R, k)
    BY <1>2 DEF Sound, Transit
  <1>4. /\ g \in 0 .. Len(T) /\ T \in Seq(Traffic) /\ Transit(e2, t, r, k)
    BY <1>1, <1>3, SeveredTransit
  <1>5. ASSUME NEW c \in Channels PROVE AskSlots(e2, t, k, c) /\ ServeSlots(e2, t, k, L, c)
    <2>1. \A K : /\ Underway(t, c, K) \subseteq Underway(T, c, K)
                 /\ Unopened(t, c, K) \subseteq Unopened(T, c, K)
      BY <1>4, UnderwayGone
    <2> HIDE DEF t
    <2>2. AskSlots(e2, t, k, c)
      BY <1>2, <2>1 DEF Sound, AskSlots, Slots, Severed
    <2>3. ServeSlots(e2, t, k, L, c)
      BY <1>2, <2>1 DEF Sound, ServeSlots, Slots, Severed
    <2> QED
      BY <2>2, <2>3
  <1> HIDE DEF t, r
  <1>6. Sound(e2, L, k, t, r)
    BY <1>4, <1>5 DEF Sound, Transit
  <1>7. \E T2, R2 : Sound(e2, L, k, T2, R2)
    BY <1>6, Zenon
  <1> QED
    BY <1>1, <1>7, Zenon DEF Tidy

\* The write branch, when the frame reaches the peer and when it is lost.
LEMMA FrameWrittenTidy ==
  ASSUME NEW W, NEW e, NEW e2, NEW L, NEW k, Tidy(W, e, L, k), k.current_frame # NoFrame,
         k.result = "Running",
         \/ Piped(e, k.current_frame.frame, e2)
         \/ e2 = e /\ Severed(e, e)
  PROVE  Tidy(W, e2, L, FrameWritten(k)) /\ Beside(k, FrameWritten(k))
  <1> DEFINE h == k.current_frame.frame.header
             sent == LaidDown(k)
             next == ProcessWaitQueue(sent, h.channel)
  <1>1. FrameWritten(k) = ReadyNextFrame(next)
    <2>1. k \in CoreStates(W)
      BY DEF Tidy, CoreOK
    <2>2. sent = [k EXCEPT
                    !.current_frame = NoFrame,
                    !.fell_through = FALSE,
                    !.active_multi_frame[h.channel] =
                        IF k.current_frame.final /\ @ = h THEN NoHeader ELSE @]
      BY <2>1 DEF CoreStates, WithFrame, LaidDown
    <2> HIDE DEF sent
    <2> QED
      BY <2>2 DEF FrameWritten
  <1>2. Tidy(W, e2, L, sent) /\ Beside(k, sent) /\ h.channel \in Channels
    <2>1. CASE Piped(e, k.current_frame.frame, e2)
      BY <2>1, LaidDownTidy
    <2>2. CASE e2 = e /\ Severed(e, e)
      <3> DEFINE w == [live |-> e.live, pipe |-> Append(e.pipe, k.current_frame.frame),
                       recv |-> e.recv, held |-> e.held, ans |-> e.ans, due |-> e.due,
                       asked |-> e.asked, out |-> e.out, ask |-> e.ask]
      <3>1. Piped(e, k.current_frame.frame, w) /\ Severed(w, e)
        BY <2>2 DEF Piped, Severed
      <3> HIDE DEF w
      <3>2. Tidy(W, w, L, sent) /\ Beside(k, sent) /\ h.channel \in Channels
        BY <3>1, LaidDownTidy
      <3> HIDE DEF sent
      <3> QED
        BY <2>2, <3>1, <3>2, SeveredTidy
    <2> QED
      BY <2>1, <2>2
  <1> HIDE DEF sent
  <1>3. Tidy(W, e2, L, next) /\ Steady(sent, next)
    BY <1>2, ProcessWaitQueueTidy DEF Beside
  <1> HIDE DEF next, h
  <1>4. Tidy(W, e2, L, ReadyNextFrame(next)) /\ Beside(next, ReadyNextFrame(next))
    BY <1>3, ReadyNextFrameTidy
  <1> QED
    BY <1>1, <1>2, <1>3, <1>4 DEF Beside, Steady, Aside

-----------------------------------------------------------------------------
(* Reading a frame.                                                         *)

\* A receiver that can go on with message m.
Fits(rcv, m) == IF Long(m) THEN rcv = At(m) ELSE m.header # rcv.header

\* The receiver once it has.
Advanced(rcv, m) ==
    IF Long(m) THEN IF IsFinalFrame(m) THEN Ready ELSE At(AfterFrame(m)) ELSE rcv

\* The parser finds the frame where the sender put it.
LEMMA FrameReadable ==
  ASSUME NEW m \in Traffic, NEW ch, Fits(ch.current_multiframe_receiver, m)
  PROVE  /\ NextFrame(m) \in FramesOf(Kind)
         /\ Readable(ch, NextFrame(m)) /\ Legible(ch, NextFrame(m))
  <1> DEFINE f == NextFrame(m)
             rcv == ch.current_multiframe_receiver
  <1>1. /\ f.header = m.header /\ m.header # NoHeader
        /\ m.header \in MessageHeaders(Kind) /\ m.payload \in Nat \cup {NoPayload}
        /\ m.processed \in Int
        /\ m = [header |-> m.header, payload |-> m.payload, processed |-> m.processed]
    BY FinalFacts, TrafficFacts DEF Messages
  <1>2. f \in FramesOf(Kind)
    BY <1>1, MessageFrames
  <1>3. f.header.kind \in Kind /\ f \in FramesOf(Kind \cup ErrorKind)
    BY <1>2 DEF FramesOf, MessageHeaders
  <1>4. ASSUME f.header.kind \in {"RequestPl", "ResponsePl"}
        PROVE  IF rcv.header = f.header
               THEN f.len = NoLen /\ f.seg = LaterSegment(rcv)
               ELSE f.len # NoLen
    <2>1. m.payload \in Nat
      BY <1>1, <1>4, TrafficFacts
    <2>2. m \in Iterators /\ Unfinished(m)
      BY <2>1, TrafficIterators DEF NoPayload
    <2>3. CASE rcv.header = f.header
      <3>1. Long(m) /\ rcv = At(m) /\ m.processed # 0
        BY <1>1, <2>3 DEF Fits, At, Ready
      <3>2. rcv = InProgress(m.header, m.processed, m.payload)
        BY <3>1 DEF At
      <3>3. f.len = NoLen /\ f.seg = Least(MaxFrameSize - HeaderSize - 0, m.payload - m.processed)
        BY <2>2, <3>1, FrameFacts
      <3>4. MaxFrameSize - HeaderSize - 0 = MaxFrameSize - HeaderSize
        BY WireAssumption DEF HeaderSize
      <3> QED
        BY <2>3, <3>2, <3>3, <3>4 DEF LaterSegment, InProgress
    <2>4. CASE rcv.header # f.header
      <3>1. m.processed = 0
        BY <1>1, <2>4, AtFacts, TrafficFacts DEF Fits
      <3>2. f.len = m.payload
        BY <2>2, <3>1, FrameFacts
      <3> QED
        BY <2>1, <2>4, <3>2 DEF NoLen
    <2> QED
      BY <2>3, <2>4
  <1>5. Readable(ch, f)
    BY <1>4 DEF Readable
  <1> QED
    BY <1>2, <1>3, <1>5, ReadableLegible

\* accept takes the frame of a payload as what it is.
LEMMA PayloadRead ==
  ASSUME NEW m \in Traffic, m.payload # NoPayload, NEW rcv, Fits(rcv, m),
         NEW exceeded \in ErrorKind, NEW max \in Nat, m.payload <= max
  PROVE  LET acc == Accept(rcv, NextFrame(m), max, exceeded) IN
         /\ acc.receiver = Advanced(rcv, m)
         /\ acc.frame = IF IsFinalFrame(m)
                        THEN IF m.processed = 0 THEN "SingleFrame" ELSE "CompletedMultiFrame"
                        ELSE IF m.processed = 0 THEN "NewMultiFrame"
                        ELSE "IntermediateMultiFrame"
  <1> DEFINE f == NextFrame(m)
             acc == Accept(rcv, f, max, exceeded)
  <1>1. m \in Iterators /\ Unfinished(m) /\ m.payload \in Nat /\ f.header = m.header
        /\ m.header # NoHeader /\ m.processed \in Nat
    BY TrafficIterators, TrafficFacts, FinalFacts DEF Iterators
  <1>2. CASE Long(m)
    <2>1. rcv = At(m)
      BY <1>2 DEF Fits
    <2>2. acc.receiver = IF IsFinalFrame(m) THEN Ready
                         ELSE InProgress(m.header, AfterFrame(m).processed, m.payload)
      BY <1>1, <2>1, ReceiverFollowsSender DEF At
    <2>3. ~IsFinalFrame(m) =>
            At(AfterFrame(m)) = InProgress(m.header, AfterFrame(m).processed, m.payload)
      BY FinalFacts DEF At
    <2>4. acc.receiver = Advanced(rcv, m)
      BY <1>2, <2>2, <2>3 DEF Advanced
    <2>5. acc.receiver = Ready <=> IsFinalFrame(m)
      BY <1>1, <2>2 DEF Ready, InProgress
    <2>6. CASE m.processed = 0
      <3>1. ~IsFinalFrame(m)
        BY <1>2, <2>6, FinalFacts
      <3>2. rcv = Ready /\ rcv.header # f.header
        BY <1>1, <2>1, <2>6 DEF At, Ready
      <3>3. acc = AcceptStart(rcv, f, max, exceeded)
        BY <3>2 DEF Accept
      <3>4. acc.frame \in CompletedFrame
        BY <1>1, <2>1, ReceiverFollowsSender DEF At
      <3>5. f.len = m.payload
        BY <1>1, <2>6, FrameFacts
      <3>6. acc.frame = "NewMultiFrame" \/ acc.receiver = rcv
        BY <1>1, <3>2, <3>3, <3>5 DEF AcceptStart, Accepted, BadLen
      <3>7. acc.frame = "NewMultiFrame"
        BY <2>5, <3>1, <3>2, <3>6
      <3> QED
        BY <2>4, <2>6, <3>1, <3>7
    <2>7. CASE m.processed # 0
      <3>1. rcv.header = f.header
        BY <1>1, <2>1, <2>7, AtFacts
      <3>2. acc = AcceptLater(rcv)
        BY <3>1 DEF Accept
      <3>3. \/ acc.receiver = Ready /\ acc.frame = "CompletedMultiFrame"
            \/ acc.receiver.header = rcv.header /\ acc.frame = "IntermediateMultiFrame"
        BY <2>1, <2>7, <3>2 DEF AcceptLater, Accepted, At, InProgress
      <3>4. Ready.header = NoHeader
        BY DEF Ready
      <3> QED
        BY <1>1, <2>4, <2>5, <2>7, <3>1, <3>3, <3>4
    <2> QED
      BY <2>6, <2>7
  <1>3. CASE ~Long(m)
    <2>1. m.processed = 0 /\ IsFinalFrame(m) /\ rcv.header # f.header
      BY <1>1, <1>3, TrafficFacts, FinalFacts DEF Fits
    <2>2. f.len = m.payload /\ f.off = LengthOf(m.payload)
      BY <1>1, <2>1, FrameFacts
    <2>3. LengthOf(m.payload) \in Nat
      BY <1>1, LengthOfRange
    <2>4. StartingSegment(f) = f.len
      BY <1>1, <1>3, <2>2, <2>3, WireAssumption
         DEF Long, PayloadIsMultiFrame, StartingSegment, Least, NoPayload, HeaderSize
    <2>5. acc = AcceptStart(rcv, f, max, exceeded)
      BY <2>1 DEF Accept
    <2>6. acc = Accepted(rcv, "SingleFrame", f.len)
      BY <1>1, <2>2, <2>4, <2>5 DEF AcceptStart, BadLen
    <2>7. acc.receiver = rcv /\ acc.frame = "SingleFrame"
      BY <2>6 DEF Accepted
    <2> QED
      BY <1>3, <2>1, <2>7 DEF Advanced
  <1> QED
    BY <1>2, <1>3

\* The ID of a message, if its kind is one of K.
IdOf(m, K) == IdIn(m, m.header.channel, K)

\* A request that begins is a new one within the limit, an answer one that is awaited.
Admissible(c, ch, m) ==
    /\ m.header.kind \in AskKinds /\ m.processed = 0 =>
         /\ m.header.id \notin ch.incoming_requests
         /\ Cardinality(ch.incoming_requests) < RequestLimit[c]
    /\ m.header.kind \in AnswerKinds => m.header.id \in ch.outgoing_requests

\* What reading the next frame of m comes to.
Handles(ch, m, ch2, outcome) ==
    /\ ch2.current_multiframe_receiver = Advanced(ch.current_multiframe_receiver, m)
    /\ ch2.incoming_requests =
         ch.incoming_requests \cup (IF m.processed = 0 THEN IdOf(m, AskKinds) ELSE {})
    /\ ch2.outgoing_requests =
         ch.outgoing_requests \ (IF IsFinalFrame(m) THEN IdOf(m, AnswerKinds) ELSE {})
    /\ outcome = IF ~IsFinalFrame(m) THEN "Continue"
                 ELSE IF m.header.kind \in AskKinds THEN "NewRequest"
                 ELSE IF m.header.kind = "CancelResp" THEN "ResponseCancellation"
                 ELSE "ReceivedResponse"

\* A new request within the limit is admitted (is_at_max_incoming_requests).
LEMMA Admitted ==
  ASSUME NEW c \in Channels, NEW ch, ChannelOK(c, ch), NEW id \in Ids, NEW outcome, NEW payload,
         id \notin ch.incoming_requests, Cardinality(ch.incoming_requests) < RequestLimit[c]
  PROVE  LET step == AdmitRequest(c, ch, id, outcome, payload) IN
         /\ step.outcome = outcome
         /\ step.chan.current_multiframe_receiver = ch.current_multiframe_receiver
         /\ step.chan.incoming_requests = ch.incoming_requests \cup {id}
         /\ step.chan.outgoing_requests = ch.outgoing_requests
  <1>1. Cardinality(ch.incoming_requests) \in Nat /\ RequestLimit[c] \in Nat
    BY IdSetChange, LimitFacts DEF ChannelOK, ChannelStates
  <1>2. ~IsAtMaxIncomingRequests(c, ch)
    BY <1>1 DEF IsAtMaxIncomingRequests
  <1>3. AdmitRequest(c, ch, id, outcome, payload) =
          Step(IncrementCancellationAllowance(c,
                  [ch EXCEPT !.incoming_requests = @ \cup {id}]), outcome, payload)
    BY <1>2 DEF AdmitRequest
  <1> DEFINE in  == [ch EXCEPT !.incoming_requests = @ \cup {id}]
             ch2 == IncrementCancellationAllowance(c, in)
  <1>4. /\ in \in ChannelStates
        /\ in.current_multiframe_receiver = ch.current_multiframe_receiver
        /\ in.incoming_requests = ch.incoming_requests \cup {id}
        /\ in.outgoing_requests = ch.outgoing_requests
    BY DEF ChannelOK, ChannelStates
  <1> HIDE DEF in
  <1>5. /\ ch2.current_multiframe_receiver = in.current_multiframe_receiver
        /\ ch2.incoming_requests = in.incoming_requests
        /\ ch2.outgoing_requests = in.outgoing_requests
    BY <1>4 DEF IncrementCancellationAllowance, ChannelStates
  <1>6. AdmitRequest(c, ch, id, outcome, payload) = Step(ch2, outcome, payload)
    BY <1>3 DEF in
  <1> HIDE DEF ch2
  <1> QED
    BY <1>4, <1>5, <1>6 DEF Step

\* process_incoming, for a frame of such a message.
LEMMA FrameHandled ==
  ASSUME NEW m \in Traffic, NEW c, c = m.header.channel, NEW ch, ChannelOK(c, ch),
         Fits(ch.current_multiframe_receiver, m), Admissible(c, ch, m)
  PROVE  LET step == ProcessFrame(c, ch, NextFrame(m)) IN
         /\ ChannelOK(c, step.chan) /\ step.outcome \in Outcome
         /\ Handles(ch, m, step.chan, step.outcome)
  <1> DEFINE f == NextFrame(m)
             rcv == ch.current_multiframe_receiver
             step == ProcessFrame(c, ch, f)
             id == m.header.id
  <1>1. /\ f.header = m.header /\ c \in Channels /\ id \in Ids /\ ch \in ChannelStates
        /\ m.header.kind \in AskKinds \cup AnswerKinds
    BY FinalFacts, TrafficFacts DEF ChannelOK
  <1>2. Legible(ch, f)
    BY FrameReadable
  <1>3. ChannelOK(c, step.chan) /\ step.outcome \in Outcome
    BY <1>1, <1>2, ProcessFrameOK DEF HandledOK
  <1>4. CASE m.header.kind = "Request"
    <2>1. step = AdmitRequest(c, ch, id, "NewRequest", NoPayload)
      BY <1>1, <1>4 DEF ProcessFrame, OnRequest
    <2>2. ~Long(m) /\ IsFinalFrame(m) /\ m.processed = 0
      BY <1>4, TrafficFacts, FinalFacts
    <2>3. id \notin ch.incoming_requests /\ Cardinality(ch.incoming_requests) < RequestLimit[c]
      BY <1>4, <2>2 DEF Admissible, AskKinds
    <2>4. /\ step.outcome = "NewRequest"
          /\ step.chan.current_multiframe_receiver = ch.current_multiframe_receiver
          /\ step.chan.incoming_requests = ch.incoming_requests \cup {id}
          /\ step.chan.outgoing_requests = ch.outgoing_requests
      BY <1>1, <2>1, <2>3, Admitted
    <2>5. IdOf(m, AskKinds) = {id} /\ IdOf(m, AnswerKinds) = {} /\ m.header.kind \in AskKinds
      BY <1>4 DEF IdOf, IdIn, AskKinds, AnswerKinds
    <2> HIDE DEF step, f
    <2>6. Handles(ch, m, step.chan, step.outcome)
      BY <2>2, <2>4, <2>5 DEF Handles, Advanced
    <2> QED
      BY <1>3, <2>6 DEF step, f
  <1>5. CASE m.header.kind = "Response" \/ m.header.kind = "CancelResp"
    <2>1. ~Long(m) /\ IsFinalFrame(m) /\ m.processed = 0
      BY <1>5, TrafficFacts, FinalFacts
    <2>2. id \in ch.outgoing_requests
      BY <1>5 DEF Admissible, AnswerKinds
    <2>3. /\ step.chan = [ch EXCEPT !.outgoing_requests = @ \ {id}]
          /\ step.outcome = IF m.header.kind = "CancelResp" THEN "ResponseCancellation"
                            ELSE "ReceivedResponse"
      BY <1>1, <1>5, <2>2 DEF ProcessFrame, OnResponse, OnCancelResp, Step
    <2>4. IdOf(m, AnswerKinds) = {id} /\ IdOf(m, AskKinds) = {} /\ m.header.kind \notin AskKinds
      BY <1>5 DEF IdOf, IdIn, AskKinds, AnswerKinds
    <2>5. /\ step.chan.outgoing_requests = ch.outgoing_requests \ {id}
          /\ step.chan.incoming_requests = ch.incoming_requests
          /\ step.chan.current_multiframe_receiver = rcv
      BY <1>1, <2>3 DEF ChannelStates
    <2> HIDE DEF step, f
    <2>6. Handles(ch, m, step.chan, step.outcome)
      BY <2>1, <2>3, <2>4, <2>5 DEF Handles, Advanced
    <2> QED
      BY <1>3, <2>6 DEF step, f
  <1>6. ASSUME m.header.kind \in {"RequestPl", "ResponsePl"}
        PROVE  /\ m.payload # NoPayload /\ MaxPayload(m.header) \in Nat
               /\ m.payload <= MaxPayload(m.header)
               /\ Received(ch, f).receiver = Advanced(rcv, m)
               /\ Received(ch, f).frame =
                     IF IsFinalFrame(m)
                     THEN IF m.processed = 0 THEN "SingleFrame" ELSE "CompletedMultiFrame"
                     ELSE IF m.processed = 0 THEN "NewMultiFrame"
                     ELSE "IntermediateMultiFrame"
               /\ ReceivedOK(c, ch, f, Received(ch, f),
                     [ch EXCEPT !.current_multiframe_receiver = Received(ch, f).receiver])
    <2>1. m.payload # NoPayload /\ m.payload <= MaxPayload(m.header)
      BY <1>6 DEF Traffic
    <2>2. MaxPayload(m.header) \in Nat
      BY <1>1, LimitFacts DEF MaxPayload
    <2> DEFINE exceeded == IF f.header.kind = "RequestPl" THEN "RequestTooLarge"
                           ELSE "ResponseTooLarge"
               max == MaxPayload(m.header)
    <2>3. exceeded \in ErrorKind /\ Received(ch, f) = Accept(rcv, f, max, exceeded)
      BY <1>1 DEF ErrorKind, Received
    <2>4. ReceivedOK(c, ch, f, Received(ch, f),
                     [ch EXCEPT !.current_multiframe_receiver = Received(ch, f).receiver])
      BY <1>1, <1>2, <1>6, ReceivedFacts
    <2> HIDE DEF exceeded, max
    <2>5. max \in Nat /\ m.payload <= max
      BY <2>1, <2>2 DEF max
    <2> QED
      BY <2>1, <2>2, <2>3, <2>4, <2>5, PayloadRead
  <1>7. CASE m.header.kind = "RequestPl"
    <2> DEFINE acc == Received(ch, f)
               ch2 == [ch EXCEPT !.current_multiframe_receiver = acc.receiver]
    <2>1. step = CASE acc.frame = "NewMultiFrame" ->
                          AdmitRequest(c, ch2, id, "Continue", NoPayload)
                   [] acc.frame = "SingleFrame" ->
                          AdmitRequest(c, ch2, id, "NewRequest", acc.payload)
                   [] acc.frame = "IntermediateMultiFrame" ->
                          Step(ch2, "Continue", NoPayload)
                   [] acc.frame = "CompletedMultiFrame" ->
                          Step(ch2, "NewRequest", acc.payload)
                   [] acc.frame \in ErrorKind ->
                          ErrMsg(ch2, acc.frame)
      BY <1>1, <1>7 DEF ProcessFrame, OnRequestPl, Received, MaxPayload
    <2>2. /\ acc.receiver = Advanced(rcv, m)
          /\ acc.frame = IF IsFinalFrame(m)
                         THEN IF m.processed = 0 THEN "SingleFrame" ELSE "CompletedMultiFrame"
                         ELSE IF m.processed = 0 THEN "NewMultiFrame"
                         ELSE "IntermediateMultiFrame"
          /\ ChannelOK(c, ch2)
          /\ ch2.outgoing_requests = ch.outgoing_requests
          /\ ch2.incoming_requests = ch.incoming_requests
          /\ ch2.current_multiframe_receiver = Advanced(rcv, m)
      BY <1>6, <1>7 DEF ReceivedOK
    <2>3. IdOf(m, AskKinds) = {id} /\ IdOf(m, AnswerKinds) = {} /\ m.header.kind \in AskKinds
      BY <1>7 DEF IdOf, IdIn, AskKinds, AnswerKinds
    <2> HIDE DEF acc, ch2
    <2>4. CASE m.processed = 0
      <3> DEFINE outcome == IF IsFinalFrame(m) THEN "NewRequest" ELSE "Continue"
      <3>1. id \notin ch2.incoming_requests /\ Cardinality(ch2.incoming_requests) < RequestLimit[c]
        BY <1>7, <2>2, <2>4 DEF Admissible, AskKinds
      <3>2. \E payload : step = AdmitRequest(c, ch2, id, outcome, payload)
        BY <2>1, <2>2, <2>4 DEF ErrorKind
      <3>3. PICK payload : step = AdmitRequest(c, ch2, id, outcome, payload)
        BY <3>2
      <3> HIDE DEF step, outcome
      <3>4. /\ step.outcome = outcome
            /\ step.chan.current_multiframe_receiver = ch2.current_multiframe_receiver
            /\ step.chan.incoming_requests = ch2.incoming_requests \cup {id}
            /\ step.chan.outgoing_requests = ch2.outgoing_requests
        BY <1>1, <2>2, <3>1, <3>3, Admitted
      <3>5. Handles(ch, m, step.chan, step.outcome)
        BY <2>2, <2>3, <2>4, <3>4 DEF Handles, outcome
      <3> QED
        BY <1>3, <3>5 DEF step
    <2>5. CASE m.processed # 0
      <3> DEFINE outcome == IF IsFinalFrame(m) THEN "NewRequest" ELSE "Continue"
      <3>1. step.chan = ch2 /\ step.outcome = outcome
        BY <2>1, <2>2, <2>5 DEF ErrorKind, Step
      <3> HIDE DEF step, outcome
      <3>2. Handles(ch, m, step.chan, step.outcome)
        BY <2>2, <2>3, <2>5, <3>1 DEF Handles, outcome
      <3> QED
        BY <1>3, <3>2 DEF step
    <2> QED
      BY <2>4, <2>5
  <1>8. CASE m.header.kind = "ResponsePl"
    <2> DEFINE acc == Received(ch, f)
               ch2 == [ch EXCEPT !.current_multiframe_receiver = acc.receiver]
               ch3 == [ch2 EXCEPT !.outgoing_requests = @ \ {id}]
    <2>1. id \in ch.outgoing_requests
      BY <1>8 DEF Admissible, AnswerKinds
    <2>2. step = CASE acc.frame \in {"NewMultiFrame", "IntermediateMultiFrame"} ->
                          Step(ch2, "Continue", NoPayload)
                   [] acc.frame \in {"SingleFrame", "CompletedMultiFrame"} ->
                          Step(ch3, "ReceivedResponse", acc.payload)
                   [] acc.frame \in ErrorKind ->
                          ErrMsg(ch2, acc.frame)
      BY <1>1, <1>8, <2>1 DEF ProcessFrame, OnResponsePl, Received, MaxPayload
    <2>3. /\ acc.receiver = Advanced(rcv, m)
          /\ acc.frame = IF IsFinalFrame(m)
                         THEN IF m.processed = 0 THEN "SingleFrame" ELSE "CompletedMultiFrame"
                         ELSE IF m.processed = 0 THEN "NewMultiFrame"
                         ELSE "IntermediateMultiFrame"
          /\ ChannelOK(c, ch2)
          /\ ch2.outgoing_requests = ch.outgoing_requests
          /\ ch2.incoming_requests = ch.incoming_requests
          /\ ch2.current_multiframe_receiver = Advanced(rcv, m)
      BY <1>6, <1>8 DEF ReceivedOK
    <2>4. /\ IdOf(m, AnswerKinds) = {id} /\ IdOf(m, AskKinds) = {}
          /\ m.header.kind \notin AskKinds /\ m.header.kind # "CancelResp"
      BY <1>8 DEF IdOf, IdIn, AskKinds, AnswerKinds
    <2> HIDE DEF acc, ch2
    <2>5. /\ ch3.outgoing_requests = ch.outgoing_requests \ {id}
          /\ ch3.incoming_requests = ch.incoming_requests
          /\ ch3.current_multiframe_receiver = Advanced(rcv, m)
      BY <2>3 DEF ChannelOK, ChannelStates
    <2> HIDE DEF ch3
    <2>6. /\ step.chan = IF IsFinalFrame(m) THEN ch3 ELSE ch2
          /\ step.outcome = IF IsFinalFrame(m) THEN "ReceivedResponse" ELSE "Continue"
      BY <2>2, <2>3 DEF ErrorKind, Step
    <2> HIDE DEF step
    <2>7. Handles(ch, m, step.chan, step.outcome)
      BY <2>3, <2>4, <2>5, <2>6 DEF Handles
    <2> QED
      BY <1>3, <2>7 DEF step
  <1> QED
    BY <1>1, <1>4, <1>5, <1>7, <1>8 DEF AskKinds, AnswerKinds

-----------------------------------------------------------------------------
(* The two ends of a connection.                                            *)

\* A core k, the frames n on their way to it, the requests d it has not answered, and
\* the line of messages t and receivers r that it sends to.
End(k, n, d, t, r) == [k |-> k, n |-> n, d |-> d, t |-> t, r |-> r]

Alive(a) == a.k.result = "Running"

\* The answers that its user owes, or has put in the channel.
Due(a) == Ahead(a.d, a.k.receiver)

\* What the other end sees of it.
View(b) ==
    [live  |-> Alive(b),
     pipe  |-> IF Alive(b) THEN b.n ELSE <<>>,
     recv  |-> Receiving(b.k),
     held  |-> [c \in Channels |-> b.k.juliet[c].incoming_requests],
     ans   |-> [c \in Channels |-> Underway(b.t, c, AnswerKinds)],
     due   |-> [c \in Channels |-> Due(b)[c] \cup AnswerIds(b.k.wait_queue[c], c)],
     asked |-> [c \in Channels |-> b.k.juliet[c].outgoing_requests],
     out   |-> [c \in Channels |-> Underway(b.t, c, AskKinds)],
     ask   |-> [c \in Channels |-> Unopened(b.t, c, AskKinds)]]

\* What the user has to keep to.
Inbox(W, d, q) ==
    /\ q \in Seq(Orders(W)) /\ Once(q) /\ d \in [Channels -> SUBSET Ids]
    /\ \A c \in Channels : d[c] \cap AnswerIds(q, c) = {}

\* How a core may end that its peer does not make fail.
Endings == {"Running", "Shutdown", "WriteFailed", "InternalError"}

Owns(W, a) ==
    /\ CoreOK(W, a.k) /\ Calm(a.k) /\ Waiting(W, Due(a), a.k)
    /\ Inbox(W, a.d, a.k.receiver) /\ a.k.result \in Endings

Reaches(a, b) == Transit(View(b), a.t, a.r, a.k)

SlotAt(a, b, c) ==
    Slots(Alive(b), Alive(a) /\ Alive(b), a.k.juliet[c].outgoing_requests,
          Underway(a.t, c, AskKinds), Unopened(a.t, c, AskKinds),
          b.k.juliet[c].incoming_requests, Underway(b.t, c, AnswerKinds),
          Due(b)[c] \cup AnswerIds(b.k.wait_queue[c], c))

SlotsOf(a, b) == \A c \in Channels : SlotAt(a, b, c)

Pair(W, a, b) ==
    /\ Owns(W, a) /\ Owns(W, b) /\ Reaches(a, b) /\ Reaches(b, a)
    /\ SlotsOf(a, b) /\ SlotsOf(b, a)

\* A connection looks the same from both ends.
LEMMA PairTurned ==
  ASSUME NEW W, NEW a, NEW b, Pair(W, a, b)
  PROVE  Pair(W, b, a)
  BY DEF Pair

\* The fields of an end.
LEMMA EndFields ==
  ASSUME NEW k, NEW n, NEW d, NEW t, NEW r
  PROVE  LET a == End(k, n, d, t, r)
         IN  a.k = k /\ a.n = n /\ a.d = d /\ a.t = t /\ a.r = r
  BY DEF End

\* The fields of what is seen of it.
LEMMA ViewFields ==
  ASSUME NEW b
  PROVE  LET e == View(b) IN
         /\ e.live = Alive(b) /\ e.pipe = (IF Alive(b) THEN b.n ELSE <<>>)
         /\ e.recv = Receiving(b.k)
         /\ \A c \in Channels :
              /\ e.held[c] = b.k.juliet[c].incoming_requests
              /\ e.ans[c] = Underway(b.t, c, AnswerKinds)
              /\ e.due[c] = Due(b)[c] \cup AnswerIds(b.k.wait_queue[c], c)
              /\ e.asked[c] = b.k.juliet[c].outgoing_requests
              /\ e.out[c] = Underway(b.t, c, AskKinds)
              /\ e.ask[c] = Unopened(b.t, c, AskKinds)
  <1> HIDE DEF Alive, Receiving, Due
  <1> QED
    BY DEF View

\* The slots at one end, in the words of either.
LEMMA SlotsSeen ==
  ASSUME NEW a, NEW b, Alive(a), NEW c \in Channels
  PROVE  /\ SlotAt(a, b, c) <=> AskSlots(View(b), a.t, a.k, c)
         /\ SlotAt(b, a, c) <=> ServeSlots(View(b), a.t, a.k, Due(a), c)
  <1> DEFINE e == View(b)
  <1>1. /\ e.live = Alive(b)
        /\ e.held[c] = b.k.juliet[c].incoming_requests
        /\ e.ans[c] = Underway(b.t, c, AnswerKinds)
        /\ e.due[c] = Due(b)[c] \cup AnswerIds(b.k.wait_queue[c], c)
        /\ e.asked[c] = b.k.juliet[c].outgoing_requests
        /\ e.out[c] = Underway(b.t, c, AskKinds)
        /\ e.ask[c] = Unopened(b.t, c, AskKinds)
    BY ViewFields
  <1>2. Alive(b) \in BOOLEAN
    BY DEF Alive
  <1> HIDE DEF e, Alive, Due
  <1>3. SlotAt(a, b, c) <=> AskSlots(e, a.t, a.k, c)
    BY <1>1, <1>2 DEF SlotAt, AskSlots, Slots
  <1>4. SlotAt(b, a, c) <=> ServeSlots(e, a.t, a.k, Due(a), c)
    BY <1>1, <1>2 DEF SlotAt, ServeSlots, Slots
  <1> QED
    BY <1>3, <1>4 DEF e

\* A core that is running is tidy.
LEMMA PairTidy ==
  ASSUME NEW W, NEW a, NEW b, Pair(W, a, b), Alive(a)
  PROVE  Tidy(W, View(b), Due(a), a.k)
  <1>1. \A c \in Channels : AskSlots(View(b), a.t, a.k, c) /\ ServeSlots(View(b), a.t, a.k, Due(a), c)
    BY SlotsSeen DEF Pair, SlotsOf
  <1>2. Sound(View(b), Due(a), a.k, a.t, a.r)
    BY <1>1 DEF Pair, Reaches, Transit, Sound
  <1>3. \E T, R : Sound(View(b), Due(a), a.k, T, R)
    BY <1>2, Zenon
  <1> QED
    BY <1>3, Zenon DEF Tidy, Pair, Owns

\* The other end sees only these of a core.
LEMMA SameTransit ==
  ASSUME NEW e, NEW e2, NEW T, NEW R, NEW k, Transit(e, T, R, k),
         e2.live = e.live, e2.pipe = e.pipe, e2.recv = e.recv
  PROVE  Transit(e2, T, R, k)
  BY DEF Transit, Carries

\* An end that differs in nothing the other end's line depends on.
LEMMA SameView ==
  ASSUME NEW a, NEW a2, Alive(a2) <=> Alive(a), a2.n = a.n, Receiving(a2.k) = Receiving(a.k)
  PROVE  /\ View(a2).live = View(a).live /\ View(a2).pipe = View(a).pipe
         /\ View(a2).recv = View(a).recv
  <1>1. View(a2).live = Alive(a2) /\ View(a).live = Alive(a)
    BY ViewFields
  <1>2. Alive(a2) = Alive(a)
    BY DEF Alive
  <1>3. View(a2).live = View(a).live
    BY <1>1, <1>2, Zenon
  <1>4. View(a2).pipe = View(a).pipe
    BY ViewFields
  <1>5. View(a2).recv = View(a).recv
    BY ViewFields
  <1> QED
    BY <1>3, <1>4, <1>5

\* A step of one core, which may have put a frame on the line.
LEMMA CoreMoves ==
  ASSUME NEW W, NEW a, NEW b, Pair(W, a, b), Alive(a),
         NEW b2, b2.k = b.k, b2.d = b.d, b2.t = b.t, b2.r = b.r,
         NEW k2, NEW d2, Tidy(W, View(b2), Ahead(d2, k2.receiver), k2),
         k2.result = "Running", Receiving(k2) = Receiving(a.k), Inbox(W, d2, k2.receiver)
  PROVE  \E t, r : Pair(W, End(k2, a.n, d2, t, r), b2)
  <1>1. PICK t, r : Sound(View(b2), Ahead(d2, k2.receiver), k2, t, r)
    BY DEF Tidy
  <1> DEFINE a2 == End(k2, a.n, d2, t, r)
  <1>2. a2.k = k2 /\ a2.n = a.n /\ a2.d = d2 /\ a2.t = t /\ a2.r = r
    BY EndFields
  <1> HIDE DEF a2
  <1>3. Alive(a2) /\ Due(a2) = Ahead(d2, k2.receiver)
    BY <1>2 DEF Alive, Due
  <1>4. Owns(W, a2)
    BY <1>2, <1>3 DEF Owns, Tidy, Endings
  <1>5. Owns(W, b2)
    BY DEF Pair, Owns, Due
  <1>6. Reaches(a2, b2)
    BY <1>1, <1>2 DEF Reaches, Transit, Sound
  <1>7. Reaches(b2, a2)
    <2>1. Transit(View(a), b2.t, b2.r, b2.k)
      BY DEF Pair, Reaches
    <2>2. View(a2).live = View(a).live /\ View(a2).pipe = View(a).pipe /\ View(a2).recv = View(a).recv
      BY <1>2, <1>3, SameView
    <2> QED
      BY <2>1, <2>2, SameTransit DEF Reaches
  <1>8. SlotsOf(a2, b2) /\ SlotsOf(b2, a2)
    <2>1. \A c \in Channels : AskSlots(View(b2), a2.t, a2.k, c)
                              /\ ServeSlots(View(b2), a2.t, a2.k, Due(a2), c)
      BY <1>1, <1>2, <1>3 DEF Sound
    <2> QED
      BY <1>3, <2>1, SlotsSeen DEF SlotsOf
  <1>9. Pair(W, a2, b2)
    BY <1>4, <1>5, <1>6, <1>7, <1>8 DEF Pair
  <1> QED
    BY <1>9 DEF a2

\* A core ends: what was on its way to it is lost.
LEMMA CoreEnds ==
  ASSUME NEW W, NEW a, NEW b, Pair(W, a, b), Alive(a),
         NEW result \in Endings, result # "Running"
  PROVE  \E t, r : Pair(W, End(Ended(a.k, result), a.n, a.d, a.t, a.r), End(b.k, b.n, b.d, t, r))
  <1> DEFINE k2 == Ended(a.k, result)
             a2 == End(k2, a.n, a.d, a.t, a.r)
             g == Len(View(a).pipe)
             t == Rest(b.t, g)
             r == Rest(b.r, g)
             b2 == End(b.k, b.n, b.d, t, r)
  <1>1. a2.k = k2 /\ a2.n = a.n /\ a2.d = a.d /\ a2.t = a.t /\ a2.r = a.r
    BY EndFields
  <1>2. b2.k = b.k /\ b2.n = b.n /\ b2.d = b.d /\ b2.t = t /\ b2.r = r
    BY EndFields
  <1>3. /\ CoreOK(W, k2) /\ k2.result = result /\ Agree(a.k, k2) /\ k2.receiver = a.k.receiver
    <2>1. result \in Results
      BY DEF Endings, Results
    <2>2. CoreOK(W, a.k)
      BY DEF Pair, Owns
    <2>3. CoreOK(W, k2)
      BY <2>1, <2>2, EndedOK
    <2> QED
      BY <2>2, <2>3 DEF CoreOK, CoreStates, Ended, Agree
  <1>4. ~Alive(a2) /\ Due(a2) = Due(a) /\ Receiving(a2.k) = Receiving(a.k)
    BY <1>1, <1>3 DEF Alive, Due, Agree, Receiving
  <1>5. Due(b2) = Due(b) /\ (Alive(b2) <=> Alive(b)) /\ Receiving(b2.k) = Receiving(b.k)
    BY <1>2 DEF Due, Alive
  <1> HIDE DEF k2, a2, b2
  <1>6. Owns(W, a2)
    BY <1>1, <1>3, <1>4 DEF Pair, Owns, Agree, Calm, Waiting
  <1>7. Owns(W, b2)
    BY <1>2, <1>5 DEF Pair, Owns
  <1>8. /\ View(a2).pipe = <<>> /\ ~View(a2).live
    BY <1>4, ViewFields
  <1>9. /\ g \in 0 .. Len(b.t) /\ b.t \in Seq(Traffic) /\ Reaches(b2, a2)
    <2> DEFINE e == View(a)
               e2 == [e EXCEPT !.live = FALSE, !.pipe = <<>>]
    <2>1. Severed(e, e2)
      BY DEF Severed, View
    <2>2. Transit(e, b.t, b.r, b.k) /\ CoreOK(W, b.k)
      BY DEF Pair, Reaches, Owns
    <2> HIDE DEF e, e2
    <2>3. /\ Len(e.pipe) \in 0 .. Len(b.t) /\ b.t \in Seq(Traffic)
          /\ Transit(e2, Rest(b.t, Len(e.pipe)), Rest(b.r, Len(e.pipe)), b.k)
      BY <2>1, <2>2, SeveredTransit
    <2>4. Transit(e2, b2.t, b2.r, b2.k) /\ g \in 0 .. Len(b.t)
      BY <1>2, <2>3 DEF e
    <2>5. Transit(View(a2), b2.t, b2.r, b2.k)
      BY <1>8, <2>1, <2>4 DEF Transit, Carries, Severed
    <2> QED
      BY <2>3, <2>4, <2>5 DEF Reaches
  <1>10. Reaches(a2, b2)
    <2>1. Transit(View(b), a.t, a.r, a.k)
      BY DEF Pair, Reaches
    <2>2. View(b2).live = View(b).live /\ View(b2).pipe = View(b).pipe /\ View(b2).recv = View(b).recv
      BY <1>2, <1>5, SameView
    <2>3. Transit(View(b2), a.t, a.r, a.k)
      BY <2>1, <2>2, SameTransit
    <2>4. Transit(View(b2), a.t, a.r, k2)
      BY <1>3, <2>3 DEF Transit, Carries, Flags, Named, Agree
    <2> QED
      BY <1>1, <2>4 DEF Reaches
  <1>11. ASSUME NEW c \in Channels PROVE SlotAt(a2, b2, c) /\ SlotAt(b2, a2, c)
    <2>1. \A K : /\ Underway(t, c, K) \subseteq Underway(b.t, c, K)
                 /\ Unopened(t, c, K) \subseteq Unopened(b.t, c, K)
      BY <1>9, UnderwayGone
    <2>2. SlotAt(a, b, c) /\ SlotAt(b, a, c)
      BY DEF Pair, SlotsOf
    <2> HIDE DEF t
    <2>3. SlotAt(a2, b2, c)
      BY <1>1, <1>2, <1>3, <1>4, <1>5, <2>1, <2>2 DEF SlotAt, Slots, Agree
    <2>4. SlotAt(b2, a2, c)
      BY <1>1, <1>2, <1>3, <1>4, <1>5, <2>1, <2>2 DEF SlotAt, Slots, Agree
    <2> QED
      BY <2>3, <2>4
  <1>12. Pair(W, a2, b2)
    BY <1>6, <1>7, <1>9, <1>10, <1>11 DEF Pair, SlotsOf
  <1> QED
    BY <1>12 DEF a2, b2, k2

\* The frame that is read next is one of the message at the head of the line, and the
\* receivers fit it.
LEMMA HeadFrame ==
  ASSUME NEW W, NEW a, NEW b, Pair(W, a, b), Alive(a), a.n # <<>>
  PROVE  LET m == b.t[1] IN
         /\ a.n \in Seq(FramesOf(Kind)) /\ Head(a.n) = NextFrame(m)
         /\ m \in Traffic /\ Len(b.r) > 1 /\ Len(b.t) >= 1 /\ Ordered(b.t, b.r)
         /\ b.r[1] = Receiving(a.k) /\ Follows(b.r[1], m, b.r[2])
  <1> DEFINE e == View(a)
             cf == b.k.current_frame
             line == LineOf(e.pipe, cf)
             T == b.t
             R == b.r
  <1>1. Ordered(T, R) /\ Carries(e, T, R, b.k) /\ CoreOK(W, b.k)
    BY DEF Pair, Reaches, Transit, Owns
  <1>2. e.pipe = a.n /\ e.live /\ e.recv = Receiving(a.k)
    BY ViewFields
  <1> HIDE DEF e
  <1>3. /\ a.n \in Seq(FramesOf(Kind)) /\ R[1] = Receiving(a.k) /\ Len(line) = Len(R) - 1
        /\ \A i \in 1 .. Len(R) - 1 : line[i] = NextFrame(T[i])
    BY <1>1, <1>2 DEF Carries
  <1>4. cf \in {NoFrame} \cup [frame : FramesOf(Kind), final : BOOLEAN]
    BY <1>1 DEF CoreOK, CoreStates
  <1>5. /\ Len(a.n) \in Nat /\ Len(line) >= Len(a.n) /\ Len(line) \in Nat
        /\ \A i \in 1 .. Len(a.n) : line[i] = a.n[i]
    <2> DEFINE s == a.n
    <2>1. s \in Seq(FramesOf(Kind)) /\ line = LineOf(s, cf)
      BY <1>2, <1>3
    <2> HIDE DEF s, cf, line
    <2>2. /\ Len(s) \in Nat /\ Len(LineOf(s, cf)) = IF cf = NoFrame THEN Len(s) ELSE Len(s) + 1
          /\ \A i \in 1 .. Len(s) : LineOf(s, cf)[i] = s[i]
      BY <1>4, <2>1, LineFacts
    <2> QED
      BY <2>1, <2>2 DEF s
  <1>6. Len(a.n) >= 1 /\ Head(a.n) = a.n[1]
    BY <1>3, <1>5, EmptySeq
  <1>7. T \in Seq(Traffic) /\ Len(R) \in 1 .. Len(T) + 1 /\ Len(R) \in Nat /\ Len(T) \in Nat
        /\ Links(T, R)
    BY <1>1, LenProperties DEF Ordered
  <1> HIDE DEF line
  <1>8. Len(R) > 1 /\ Len(T) >= 1 /\ 1 \in 1 .. Len(R) - 1 /\ 1 \in 1 .. Len(a.n) /\ 1 \in 1 .. Len(T)
    BY <1>3, <1>5, <1>6, <1>7
  <1>9. Head(a.n) = NextFrame(T[1])
    BY <1>3, <1>5, <1>6, <1>8
  <1>10. T[1] \in Traffic
    BY <1>7, <1>8, ElementOfSeq
  <1>11. Follows(R[1], T[1], R[2])
    <2>1. Follows(R[1], T[1], R[1 + 1])
      BY <1>7, <1>8 DEF Links
    <2> QED
      BY <2>1
  <1> QED
    BY <1>1, <1>3, <1>8, <1>9, <1>10, <1>11

\* The reader may take it.
LEMMA HeadAdmissible ==
  ASSUME NEW W, NEW a, NEW b, Pair(W, a, b), Alive(a), a.n # <<>>
  PROVE  LET m == b.t[1]
             c == m.header.channel
             ch == a.k.juliet[c]
         IN  /\ c \in Channels /\ ChannelOK(c, ch)
             /\ Fits(ch.current_multiframe_receiver, m) /\ Admissible(c, ch, m)
  <1> DEFINE m == b.t[1]
             c == m.header.channel
             ch == a.k.juliet[c]
             id == m.header.id
  <1>1. /\ m \in Traffic /\ Len(b.r) > 1 /\ Ordered(b.t, b.r)
        /\ b.r[1] = Receiving(a.k) /\ Follows(b.r[1], m, b.r[2])
    BY HeadFrame
  <1>2. c \in Channels /\ id \in Ids
    BY <1>1, TrafficFacts
  <1>3. ChannelOK(c, ch) /\ ChannelOK(c, b.k.juliet[c])
    BY <1>2 DEF Pair, Owns, CoreOK
  <1>4. b.r[1][c] = ch.current_multiframe_receiver
    BY <1>1, <1>2 DEF Receiving
  <1>5. Fits(ch.current_multiframe_receiver, m)
    BY <1>1, <1>4 DEF Follows, Fits
  <1>6. SlotAt(a, b, c) /\ SlotAt(b, a, c)
    BY <1>2 DEF Pair, SlotsOf
  <1> HIDE DEF m
  <1>7. ASSUME m.header.kind \in AskKinds, m.processed = 0
        PROVE  id \notin ch.incoming_requests /\ Cardinality(ch.incoming_requests) < RequestLimit[c]
    <2> DEFINE Y == b.k.juliet[c].outgoing_requests
               held == ch.incoming_requests
    <2>1. Side(AskKinds) /\ IdIn(m, c, AskKinds) = {id}
      BY <1>7 DEF Side, IdIn
    <2>2. id \in Unopened(b.t, c, AskKinds) /\ id \in Underway(b.t, c, AskKinds)
      BY <1>1, <1>2, <1>7, <2>1, UnderwayRead DEF m
    <2>3. id \notin held /\ held \cup {id} \subseteq Y
      BY <1>6, <2>2 DEF SlotAt, Slots
    <2>4. Y \in SUBSET Ids /\ held \in SUBSET Ids /\ Cardinality(Y) <= RequestLimit[c]
      BY <1>3 DEF ChannelOK, ChannelStates, ChannelBounded
    <2>5. RequestLimit[c] \in Nat
      BY <1>2, LimitFacts
    <2> HIDE DEF Y, held
    <2>6. IsFiniteSet(Y)
      BY <2>4, IdsFinite, FS_Subset
    <2>7. Cardinality(held \cup {id}) <= Cardinality(Y) /\ Cardinality(Y) \in Nat
      BY <2>3, <2>6, FS_Subset, FS_CardinalityType
    <2>8. Cardinality(held \cup {id}) = Cardinality(held) + 1 /\ Cardinality(held) \in Nat
      BY <1>2, <2>3, <2>4, IdSetChange
    <2> QED
      BY <2>3, <2>4, <2>5, <2>7, <2>8 DEF held
  <1>8. ASSUME m.header.kind \in AnswerKinds
        PROVE  id \in ch.outgoing_requests
    <2>1. Side(AnswerKinds) /\ IdIn(m, c, AnswerKinds) = {id}
      BY <1>8 DEF Side, IdIn
    <2>2. id \in Underway(b.t, c, AnswerKinds)
      BY <1>1, <1>2, <2>1, UnderwayRead DEF m
    <2> QED
      BY <1>6, <2>2 DEF SlotAt, Slots
  <1>9. Admissible(c, ch, m)
    BY <1>7, <1>8 DEF Admissible
  <1> QED
    BY <1>2, <1>3, <1>5, <1>9 DEF m

\* What is read of a request, by its first and its last frame, takes it from place to place.
If(test, S) == IF test THEN S ELSE {}

\* What reading the next frame of m does to a core and the requests of its user.
Reads(k, d, m, k2, d2) ==
    /\ Receiving(k2) = Past(Receiving(k), m)
    /\ \A x \in Channels :
         /\ k2.juliet[x].incoming_requests =
              k.juliet[x].incoming_requests \cup If(m.processed = 0, IdIn(m, x, AskKinds))
         /\ k2.juliet[x].outgoing_requests =
              k.juliet[x].outgoing_requests \ If(IsFinalFrame(m), IdIn(m, x, AnswerKinds))
         /\ d2[x] = d[x] \cup If(IsFinalFrame(m), IdIn(m, x, AskKinds))
    /\ k2.receiver = k.receiver /\ k2.wait_queue = k.wait_queue
    /\ k2.ready_queue = k.ready_queue /\ k2.active_multi_frame = k.active_multi_frame
    /\ k2.current_frame = k.current_frame /\ k2.closed = k.closed
    /\ k2.pending_error = k.pending_error /\ k2.result = k.result

\* Both ends after a frame was read.
LEMMA PairReads ==
  ASSUME NEW W, NEW a, NEW b, Pair(W, a, b), Alive(a), a.n # <<>>,
         NEW k2, NEW d2, CoreOK(W, k2), d2 \in [Channels -> SUBSET Ids],
         Reads(a.k, a.d, b.t[1], k2, d2)
  PROVE  Pair(W, End(k2, Tail(a.n), d2, a.t, a.r),
                 End(b.k, b.n, b.d, Rest(b.t, 1), Rest(b.r, 1)))
  <1> DEFINE m == b.t[1]
             a2 == End(k2, Tail(a.n), d2, a.t, a.r)
             t == Rest(b.t, 1)
             r == Rest(b.r, 1)
             b2 == End(b.k, b.n, b.d, t, r)
             first == m.processed = 0
             last == IsFinalFrame(m)
             I(x) == IdIn(m, x, AskKinds)
             J(x) == IdIn(m, x, AnswerKinds)
             X(x) == Due(a)[x] \cup AnswerIds(a.k.wait_queue[x], x)
             X2(x) == Due(a2)[x] \cup AnswerIds(a2.k.wait_queue[x], x)
  <1>1. a2.k = k2 /\ a2.n = Tail(a.n) /\ a2.d = d2 /\ a2.t = a.t /\ a2.r = a.r
    BY EndFields
  <1>2. b2.k = b.k /\ b2.n = b.n /\ b2.d = b.d /\ b2.t = t /\ b2.r = r
    BY EndFields
  <1>3. /\ a.n \in Seq(FramesOf(Kind)) /\ m \in Traffic /\ Len(b.r) > 1 /\ Ordered(b.t, b.r)
        /\ b.r[1] = Receiving(a.k) /\ Follows(b.r[1], m, b.r[2])
    BY HeadFrame
  <1>4. b.r[2] = Receiving(k2)
    BY <1>3 DEF Follows, Reads
  <1> HIDE DEF a2, b2, m
  <1>5. Alive(a2) /\ Due(b2) = Due(b) /\ (Alive(b2) <=> Alive(b)) /\ Receiving(b2.k) = Receiving(b.k)
    BY <1>1, <1>2 DEF Alive, Due, Reads
  <1>6. k2.result = "Running" /\ a.k.result = "Running"
    BY DEF Alive, Reads
  <1>7. ASSUME NEW x \in Channels
        PROVE  /\ X2(x) = X(x) \cup If(last, I(x))
               /\ Underway(t, x, AskKinds) = Underway(b.t, x, AskKinds) \ If(last, I(x))
               /\ Unopened(t, x, AskKinds) = Unopened(b.t, x, AskKinds) \ If(first, I(x))
               /\ Underway(t, x, AnswerKinds) = Underway(b.t, x, AnswerKinds) \ If(last, J(x))
               /\ I(x) \subseteq Underway(b.t, x, AskKinds)
               /\ first => I(x) \subseteq Unopened(b.t, x, AskKinds)
               /\ ~first => I(x) \cap Unopened(b.t, x, AskKinds) = {}
               /\ J(x) \subseteq Underway(b.t, x, AnswerKinds)
    <2>1. Side(AskKinds) /\ Side(AnswerKinds)
      BY DEF Side
    <2>2. X2(x) = X(x) \cup If(last, I(x))
      BY <1>1 DEF Due, Ahead, Reads, m
    <2>3. /\ Underway(t, x, AskKinds) = Underway(b.t, x, AskKinds) \ If(last, I(x))
          /\ Unopened(t, x, AskKinds) = Unopened(b.t, x, AskKinds) \ If(first, I(x))
          /\ I(x) \subseteq Underway(b.t, x, AskKinds)
          /\ first => I(x) \subseteq Unopened(b.t, x, AskKinds)
          /\ ~first => I(x) \cap Unopened(b.t, x, AskKinds) = {}
      BY <1>3, <2>1, UnderwayRead DEF m, If
    <2>4. /\ Underway(t, x, AnswerKinds) = Underway(b.t, x, AnswerKinds) \ If(last, J(x))
          /\ J(x) \subseteq Underway(b.t, x, AnswerKinds)
      BY <1>3, <2>1, UnderwayRead DEF m, If
    <2> QED
      BY <2>2, <2>3, <2>4
  <1>8. ASSUME NEW x \in Channels PROVE SlotAt(b2, a2, x) /\ (last => I(x) \cap X(x) = {})
    <2> DEFINE Y == b.k.juliet[x].outgoing_requests
               Out == Underway(b.t, x, AskKinds)
               Ask == Unopened(b.t, x, AskKinds)
               held == a.k.juliet[x].incoming_requests
               Ans == Underway(a.t, x, AnswerKinds)
               h1 == Alive(a)
               h2 == Alive(b) /\ Alive(a)
    <2>1. Slots(h1, h2, Y, Out, Ask, held, Ans, X(x)) /\ h1
      BY DEF Pair, SlotsOf, SlotAt
    <2>2. I(x) \subseteq Out /\ (first => I(x) \subseteq Ask) /\ (~first => I(x) \cap Ask = {})
      BY <1>7
    <2>3. a2.k.juliet[x].incoming_requests = held \cup If(first, I(x))
      BY <1>1 DEF Reads, m
    <2> DEFINE Z == X(x)
               V == I(x)
    <2> HIDE DEF Y, Out, Ask, held, Ans, h1, h2, X, I, first, last
    <2>4. /\ Slots(h1, h2, Y, Out \ If(last, V), Ask \ If(first, V),
                   held \cup If(first, V), Ans, Z \cup If(last, V))
          /\ last => V \cap Z = {}
      <3> HIDE DEF Z, V
      <3>1. Slots(h1, h2, Y, Out, Ask, held, Ans, Z) /\ h1
        BY <2>1 DEF Z
      <3>2. V \subseteq Out /\ (first => V \subseteq Ask) /\ (~first => V \cap Ask = {})
        BY <2>2 DEF V
      <3> DEFINE F == If(first, V)
                 G == If(last, V)
      <3>3. /\ F \subseteq V /\ G \subseteq V /\ F \subseteq Ask /\ (V \ F) \cap Ask = {}
            /\ (last => G = V) /\ (G = {} \/ G = V)
        BY <3>2 DEF If
      <3> HIDE DEF F, G
      <3>4. Slots(h1, h2, Y, Out \ G, Ask \ F, held \cup F, Ans, Z \cup G) /\ G \cap Z = {}
        BY <3>1, <3>2, <3>3 DEF Slots
      <3> QED
        BY <3>3, <3>4 DEF F, G
    <2>5. SlotAt(b2, a2, x)
      <3>1. (Alive(a2) <=> h1) /\ ((Alive(b2) /\ Alive(a2)) <=> h2)
        BY <1>5, <2>1 DEF h1, h2
      <3>2. /\ b2.k.juliet[x].outgoing_requests = Y /\ Underway(a2.t, x, AnswerKinds) = Ans
            /\ Underway(b2.t, x, AskKinds) = Out \ If(last, V)
            /\ Unopened(b2.t, x, AskKinds) = Ask \ If(first, V)
        BY <1>1, <1>2, <1>7 DEF Y, Ans, Out, Ask
      <3>3. X2(x) = Z \cup If(last, V)
        BY <1>7
      <3> HIDE DEF Z, V
      <3> QED
        BY <2>3, <2>4, <3>1, <3>2, <3>3 DEF SlotAt, Slots, V
    <2> QED
      BY <2>4, <2>5
  <1>9. ASSUME NEW x \in Channels PROVE SlotAt(a2, b2, x)
    <2> DEFINE Y == a.k.juliet[x].outgoing_requests
               Ans == Underway(b.t, x, AnswerKinds)
               Q == If(last, J(x))
    <2>1. SlotAt(a, b, x)
      BY DEF Pair, SlotsOf
    <2>2. /\ a2.k.juliet[x].outgoing_requests = Y \ Q /\ Underway(b2.t, x, AnswerKinds) = Ans \ Q
          /\ Q \subseteq Ans
      BY <1>1, <1>2, <1>7 DEF Reads, m, If
    <2> HIDE DEF Q
    <2> QED
      BY <1>1, <1>2, <1>5, <2>1, <2>2 DEF SlotAt, Slots
  <1>10. Owns(W, a2)
    <2>1. Inbox(W, d2, k2.receiver)
      <3>1. Inbox(W, a.d, k2.receiver)
        BY DEF Pair, Owns, Reads
      <3>2. ASSUME NEW x \in Channels PROVE d2[x] \cap AnswerIds(k2.receiver, x) = {}
        <4>1. d2[x] = a.d[x] \cup If(last, I(x)) /\ k2.receiver = a.k.receiver
          BY DEF Reads, m
        <4>2. last => I(x) \cap AnswerIds(a.k.receiver, x) = {}
          BY <1>8 DEF Due, Ahead
        <4>3. a.d[x] \cap AnswerIds(k2.receiver, x) = {}
          BY <3>1 DEF Inbox
        <4> HIDE DEF last, I
        <4> QED
          BY <4>1, <4>2, <4>3 DEF If
      <3> QED
        BY <3>1, <3>2 DEF Inbox
    <2>2. Waiting(W, Due(a2), k2)
      <3>1. Waiting(W, Due(a), a.k) /\ k2.wait_queue = a.k.wait_queue
        BY DEF Pair, Owns, Reads
      <3>2. ASSUME NEW x \in Channels PROVE Due(a2)[x] \cap AnswerIds(k2.wait_queue[x], x) = {}
        <4>1. Due(a2)[x] = Due(a)[x] \cup If(last, I(x))
          BY <1>1 DEF Due, Ahead, Reads, m
        <4>2. last => I(x) \cap AnswerIds(a.k.wait_queue[x], x) = {}
          BY <1>8
        <4>3. Due(a)[x] \cap AnswerIds(k2.wait_queue[x], x) = {}
          BY <3>1 DEF Waiting
        <4> HIDE DEF last, I, Due
        <4> QED
          BY <3>1, <4>1, <4>2, <4>3 DEF If
      <3> QED
        BY <3>1, <3>2 DEF Waiting
    <2>3. Calm(k2) /\ k2.result \in Endings
      BY DEF Pair, Owns, Reads, Calm
    <2> QED
      BY <1>1, <2>1, <2>2, <2>3 DEF Owns
  <1>11. Owns(W, b2)
    BY <1>2, <1>5 DEF Pair, Owns
  <1>12. Reaches(a2, b2)
    <2>1. Transit(View(b), a.t, a.r, a.k)
      BY DEF Pair, Reaches
    <2>2. View(b2).live = View(b).live /\ View(b2).pipe = View(b).pipe /\ View(b2).recv = View(b).recv
      BY <1>2, <1>5, SameView
    <2>3. Transit(View(b2), a.t, a.r, a.k)
      BY <2>1, <2>2, SameTransit
    <2>4. Transit(View(b2), a.t, a.r, k2)
      BY <2>3 DEF Transit, Carries, Flags, Named, Reads
    <2> QED
      BY <1>1, <2>4 DEF Reaches
  <1>13. Reaches(b2, a2)
    <2> DEFINE e == View(a)
               e2 == View(a2)
               g == 1
    <2>1. Transit(e, b.t, b.r, b.k) /\ CoreOK(W, b.k)
      BY DEF Pair, Reaches, Owns
    <2>2. e.pipe = a.n /\ e2.pipe = Tail(a.n) /\ e2.recv = Receiving(k2)
      BY <1>1, <1>5, ViewFields
    <2> HIDE DEF e, e2
    <2>3. CutTo(e, g, e2)
      <3>1. /\ Len(a.n) \in Nat /\ Len(a.n) >= 1 /\ Tail(a.n) \in Seq(FramesOf(Kind))
            /\ Len(Tail(a.n)) = Len(a.n) - 1
            /\ \A i \in 1 .. Len(Tail(a.n)) : Tail(a.n)[i] = a.n[i + 1]
        BY <1>3
      <3> QED
        BY <2>2, <3>1 DEF CutTo
    <2>4. g + 1 = 2
      OBVIOUS
    <2>5. e2.live => b.r[g + 1] = e2.recv
      BY <1>4, <2>2, <2>4
    <2> HIDE DEF g
    <2>6. Transit(e2, Rest(b.t, g), Rest(b.r, g), b.k)
      BY <2>1, <2>3, <2>5, CutTransit
    <2> QED
      BY <1>2, <2>6 DEF Reaches, g, e2
  <1> QED
    BY <1>8, <1>9, <1>10, <1>11, <1>12, <1>13 DEF Pair, SlotsOf, a2, b2

-----------------------------------------------------------------------------
(* What the steps of one end do to the connection.                          *)

\* Two cores with what is on its way to each and what its user has to answer.
Met(W, k, n, d, kb, nb, db) ==
    \E t, r, tb, rb : Pair(W, End(k, n, d, t, r), End(kb, nb, db, tb, rb))

\* A connection looks the same from both ends.
LEMMA MetTurned ==
  ASSUME NEW W, NEW k, NEW n, NEW d, NEW kb, NEW nb, NEW db, Met(W, k, n, d, kb, nb, db)
  PROVE  Met(W, kb, nb, db, k, n, d)
  <1>1. PICK t, r, tb, rb : Pair(W, End(k, n, d, t, r), End(kb, nb, db, tb, rb))
    BY DEF Met
  <1>2. Pair(W, End(kb, nb, db, tb, rb), End(k, n, d, t, r))
    BY <1>1, PairTurned
  <1> QED
    BY <1>2, Zenon DEF Met

\* What is known of one end.
LEMMA MetFacts ==
  ASSUME NEW W, NEW k, NEW n, NEW d, NEW kb, NEW nb, NEW db, Met(W, k, n, d, kb, nb, db)
  PROVE  CoreOK(W, k) /\ Calm(k) /\ Inbox(W, d, k.receiver) /\ k.result \in Endings
  <1>1. PICK t, r, tb, rb : Pair(W, End(k, n, d, t, r), End(kb, nb, db, tb, rb))
    BY DEF Met
  <1> QED
    BY <1>1, EndFields DEF Pair, Owns

\* What holds whatever the other end looks like.
Evolves(W, k, d, k2, d2) ==
    \A e : Tidy(W, e, Ahead(d, k.receiver), k) => Tidy(W, e, Ahead(d2, k2.receiver), k2)

\* A step of one end that the other one does not see.
LEMMA MetMoves ==
  ASSUME NEW W, NEW k, NEW n, NEW d, NEW kb, NEW nb, NEW db, Met(W, k, n, d, kb, nb, db),
         k.result = "Running", NEW k2, NEW d2, Evolves(W, k, d, k2, d2),
         k2.result = "Running", Receiving(k2) = Receiving(k), Inbox(W, d2, k2.receiver)
  PROVE  Met(W, k2, n, d2, kb, nb, db)
  <1>1. PICK t, r, tb, rb : Pair(W, End(k, n, d, t, r), End(kb, nb, db, tb, rb))
    BY DEF Met
  <1> DEFINE a == End(k, n, d, t, r)
             b == End(kb, nb, db, tb, rb)
  <1>2. a.k = k /\ a.n = n /\ a.d = d
    BY EndFields
  <1> HIDE DEF a, b
  <1>3. Pair(W, a, b) /\ Alive(a) /\ Due(a) = Ahead(d, k.receiver)
    BY <1>1, <1>2 DEF a, b, Alive, Due
  <1>4. Tidy(W, View(b), Ahead(d2, k2.receiver), k2)
    BY <1>2, <1>3, PairTidy DEF Evolves
  <1>5. PICK t2, r2 : Pair(W, End(k2, a.n, d2, t2, r2), b)
    BY <1>2, <1>3, <1>4, CoreMoves
  <1>6. Pair(W, End(k2, n, d2, t2, r2), End(kb, nb, db, tb, rb))
    BY <1>2, <1>5 DEF b
  <1> QED
    BY <1>6, Zenon DEF Met

\* One end ends.
LEMMA MetEnds ==
  ASSUME NEW W, NEW k, NEW n, NEW d, NEW kb, NEW nb, NEW db, Met(W, k, n, d, kb, nb, db),
         k.result = "Running", NEW result \in Endings, result # "Running"
  PROVE  Met(W, Ended(k, result), n, d, kb, nb, db)
  <1>1. PICK t, r, tb, rb : Pair(W, End(k, n, d, t, r), End(kb, nb, db, tb, rb))
    BY DEF Met
  <1> DEFINE a == End(k, n, d, t, r)
             b == End(kb, nb, db, tb, rb)
  <1>2. a.k = k /\ a.n = n /\ a.d = d /\ a.t = t /\ a.r = r /\ b.k = kb /\ b.n = nb /\ b.d = db
    BY EndFields
  <1> HIDE DEF a, b
  <1>3. Pair(W, a, b) /\ Alive(a)
    BY <1>1, <1>2 DEF a, b, Alive
  <1>4. PICK t2, r2 : Pair(W, End(Ended(a.k, result), a.n, a.d, a.t, a.r),
                              End(b.k, b.n, b.d, t2, r2))
    BY <1>3, CoreEnds
  <1>5. Pair(W, End(Ended(k, result), n, d, t, r), End(kb, nb, db, t2, r2))
    BY <1>2, <1>4
  <1> QED
    BY <1>5, Zenon DEF Met

\* A user puts an item in the channel.
LEMMA MetItem ==
  ASSUME NEW W, NEW k, NEW n, NEW d, NEW kb, NEW nb, NEW db, Met(W, k, n, d, kb, nb, db),
         k.result = "Running", NEW item \in Orders(W), NEW d2 \in [Channels -> SUBSET Ids],
         Less(d, item, d2),
         NEW k2, CoreOK(W, k2), Agree(k, k2), k2.result = k.result,
         k2.receiver = Append(k.receiver, item)
  PROVE  Met(W, k2, n, d2, kb, nb, db)
  <1> DEFINE q == k.receiver
             q2 == Append(q, item)
  <1>1. /\ q \in Seq(Orders(W)) /\ Once(q)
        /\ \A c \in Channels : d[c] \cap AnswerIds(q, c) = {}
    BY MetFacts DEF Inbox
  <1>2. /\ \A c : AnswerIds(q2, c) = AnswerIds(q, c) \cup AnswerId(item, c)
        /\ (\A c : AnswerId(item, c) \cap AnswerIds(q, c) = {}) => Once(q2)
    BY <1>1, AnswersAppend
  <1>3. q2 \in Seq(Orders(W))
    BY <1>1, AppendFacts
  <1>4. ASSUME NEW c PROVE AnswerId(item, c) \cap AnswerIds(q, c) = {}
    <2>1. CASE c \in Channels
      BY <1>1, <2>1 DEF Less
    <2>2. CASE c \notin Channels
      <3>1. item.kind \in {"Request", "Response", "ResponseCancellation"} /\ item \in Items(W)
        BY DEF Orders
      <3>2. item.channel \in Channels
        BY <3>1, ItemFacts
      <3> QED
        BY <2>2, <3>2 DEF AnswerId
    <2> QED
      BY <2>1, <2>2
  <1>5. Once(q2)
    BY <1>2, <1>4
  <1> HIDE DEF q, q2
  <1>6. ASSUME NEW c \in Channels
        PROVE  /\ d2[c] \cap AnswerIds(q2, c) = {}
               /\ d2[c] \cup AnswerIds(q2, c) = d[c] \cup AnswerIds(q, c)
    BY <1>1, <1>2, <1>4 DEF Less
  <1>7. Inbox(W, d2, k2.receiver)
    BY <1>3, <1>5, <1>6 DEF Inbox, q2, q
  <1>8. Ahead(d2, k2.receiver) = Ahead(d, k.receiver)
    BY <1>6 DEF Ahead, q2, q
  <1>9. Evolves(W, k, d, k2, d2)
    BY <1>8, AgreeTidy DEF Evolves
  <1>10. Receiving(k2) = Receiving(k)
    BY DEF Receiving, Agree
  <1> QED
    BY <1>7, <1>9, <1>10, MetMoves

\* A core that is running is tidy, for some view of the other end.
LEMMA MetTidy ==
  ASSUME NEW W, NEW k, NEW n, NEW d, NEW kb, NEW nb, NEW db, Met(W, k, n, d, kb, nb, db),
         k.result = "Running"
  PROVE  \E e : Tidy(W, e, Ahead(d, k.receiver), k)
  <1>1. PICK t, r, tb, rb : Pair(W, End(k, n, d, t, r), End(kb, nb, db, tb, rb))
    BY DEF Met
  <1> DEFINE a == End(k, n, d, t, r)
             b == End(kb, nb, db, tb, rb)
  <1>2. a.k = k /\ a.d = d
    BY EndFields
  <1> HIDE DEF a, b
  <1>3. Pair(W, a, b) /\ Alive(a) /\ Due(a) = Ahead(d, k.receiver)
    BY <1>1, <1>2 DEF a, b, Alive, Due
  <1>4. Tidy(W, View(b), Due(a), a.k)
    BY <1>3, PairTidy
  <1> QED
    BY <1>2, <1>3, <1>4

\* ready_next_frame
LEMMA MetPrepares ==
  ASSUME NEW W, NEW k, NEW n, NEW d, NEW kb, NEW nb, NEW db, Met(W, k, n, d, kb, nb, db),
         k.result = "Running"
  PROVE  Met(W, ReadyNextFrame(k), n, d, kb, nb, db)
  <1> DEFINE k2 == ReadyNextFrame(k)
  <1>1. \A e, L : Tidy(W, e, L, k) => Tidy(W, e, L, k2) /\ Beside(k, k2)
    BY ReadyNextFrameTidy
  <1> HIDE DEF k2
  <1>2. Beside(k, k2)
    BY <1>1, MetTidy
  <1>3. k2.receiver = k.receiver /\ k2.result = "Running" /\ Receiving(k2) = Receiving(k)
    BY <1>2 DEF Beside
  <1>4. Evolves(W, k, d, k2, d)
    BY <1>1, <1>3 DEF Evolves
  <1>5. Inbox(W, d, k2.receiver)
    BY <1>3, MetFacts
  <1>6. Met(W, k2, n, d, kb, nb, db)
    BY <1>3, <1>4, <1>5, MetMoves
  <1> QED
    BY <1>6 DEF k2

\* process_wait_queue
LEMMA MetProcesses ==
  ASSUME NEW W, NEW k, NEW n, NEW d, NEW kb, NEW nb, NEW db, Met(W, k, n, d, kb, nb, db),
         k.result = "Running", NEW c \in Channels
  PROVE  /\ Met(W, ProcessWaitQueue(k, c), n, d, kb, nb, db)
         /\ ProcessWaitQueue(k, c).result = "Running"
  <1> DEFINE k2 == ProcessWaitQueue(k, c)
  <1>1. \A e, L : Tidy(W, e, L, k) => Tidy(W, e, L, k2) /\ Steady(k, k2)
    BY ProcessWaitQueueTidy
  <1> HIDE DEF k2
  <1>2. Steady(k, k2)
    BY <1>1, MetTidy
  <1>3. k2.receiver = k.receiver /\ k2.result = "Running" /\ Receiving(k2) = Receiving(k)
    BY <1>2 DEF Steady, Aside
  <1>4. Evolves(W, k, d, k2, d)
    BY <1>1, <1>3 DEF Evolves
  <1>5. Inbox(W, d, k2.receiver)
    BY <1>3, MetFacts
  <1>6. Met(W, k2, n, d, kb, nb, db)
    BY <1>3, <1>4, <1>5, MetMoves
  <1> QED
    BY <1>3, <1>6 DEF k2

\* The receive branch.
LEMMA MetReceives ==
  ASSUME NEW W, NEW k, NEW n, NEW d, NEW kb, NEW nb, NEW db, Met(W, k, n, d, kb, nb, db),
         k.result = "Running", NEW dropped
  PROVE  Met(W, ItemsReceived(k, dropped), n, d, kb, nb, db)
  <1> DEFINE k2 == HandleItems(k)
             res == ItemsReceived(k, dropped)
             down == "Shutdown"
  <1>1. Inbox(W, d, k.receiver)
    BY MetFacts
  <1>2. /\ k.receiver \in Seq(Orders(W)) /\ Once(k.receiver)
        /\ \A c \in Channels : d[c] \cap AnswerIds(k.receiver, c) = {}
        /\ d = [c \in Channels |-> d[c]] /\ d \in [Channels -> SUBSET Ids]
    BY <1>1 DEF Inbox
  <1>3. \A e : Tidy(W, e, Ahead(d, k.receiver), k) =>
                 Tidy(W, e, d, k2) /\ k2.receiver = <<>> /\ Quiet(k, k2)
    BY <1>2, HandleItemsTidy
  <1>4. res \in {Ended(k2, down), k2, ReadyNextFrame(k2)}
    BY DEF ItemsReceived
  <1> HIDE DEF k2, res, down
  <1>5. k2.receiver = <<>> /\ Quiet(k, k2)
    BY <1>3, MetTidy
  <1>6. k2.result = "Running" /\ Receiving(k2) = Receiving(k)
    BY <1>5 DEF Quiet
  <1>7. Ahead(d, <<>>) = d
    BY <1>2, AnswersEmpty DEF Ahead
  <1>8. Evolves(W, k, d, k2, d)
    BY <1>3, <1>5, <1>7 DEF Evolves
  <1>9. Inbox(W, d, k2.receiver)
    BY <1>2, <1>5, AnswersEmpty, EmptySeq DEF Inbox
  <1>10. Met(W, k2, n, d, kb, nb, db)
    BY <1>6, <1>8, <1>9, MetMoves
  <1>11. down \in Endings /\ down # "Running"
    BY DEF Endings, down
  <1>12. Met(W, Ended(k2, down), n, d, kb, nb, db)
    BY <1>6, <1>10, <1>11, MetEnds
  <1>13. Met(W, ReadyNextFrame(k2), n, d, kb, nb, db)
    BY <1>6, <1>10, MetPrepares
  <1>14. Met(W, res, n, d, kb, nb, db)
    BY <1>4, <1>10, <1>12, <1>13
  <1> QED
    BY <1>14 DEF res

\* The write branch.
LEMMA MetWrites ==
  ASSUME NEW W, NEW k, NEW n, NEW d, NEW kb, NEW nb, NEW db, Met(W, k, n, d, kb, nb, db),
         k.result = "Running", k.current_frame # NoFrame,
         NEW nb2, nb2 = IF kb.result = "Running" THEN Append(nb, k.current_frame.frame) ELSE nb
  PROVE  Met(W, FrameWritten(k), n, d, kb, nb2, db)
  <1>1. PICK t, r, tb, rb : Pair(W, End(k, n, d, t, r), End(kb, nb, db, tb, rb))
    BY DEF Met
  <1> DEFINE a == End(k, n, d, t, r)
             b == End(kb, nb, db, tb, rb)
             b2 == End(kb, nb2, db, tb, rb)
             f == k.current_frame.frame
             k2 == FrameWritten(k)
  <1>2. a.k = k /\ a.n = n /\ a.d = d
    BY EndFields
  <1>3. b.k = kb /\ b.n = nb /\ b.d = db /\ b.t = tb /\ b.r = rb
    BY EndFields
  <1>4. b2.k = kb /\ b2.n = nb2 /\ b2.d = db /\ b2.t = tb /\ b2.r = rb
    BY EndFields
  <1> HIDE DEF a, b, b2, f
  <1>5. Pair(W, a, b) /\ Alive(a) /\ Due(a) = Ahead(d, k.receiver)
    BY <1>1, <1>2 DEF a, b, Alive, Due
  <1>6. Tidy(W, View(b), Ahead(d, k.receiver), k)
    BY <1>2, <1>5, PairTidy
  <1>7. Piped(View(b), f, View(b2)) \/ (View(b2) = View(b) /\ Severed(View(b), View(b)))
    <2>1. CASE kb.result = "Running"
      <3>1. Alive(b) /\ Alive(b2) /\ b2.n = Append(b.n, f)
        BY <1>3, <1>4, <2>1 DEF Alive, f
      <3>2. View(b).pipe = b.n /\ View(b2).pipe = b2.n
        BY <3>1, ViewFields
      <3>3. /\ View(b2).recv = View(b).recv
            /\ View(b2).held = View(b).held /\ View(b2).ans = View(b).ans
            /\ View(b2).due = View(b).due
            /\ View(b2).asked = View(b).asked /\ View(b2).out = View(b).out
            /\ View(b2).ask = View(b).ask
        BY <1>3, <1>4 DEF View, Due
      <3>4. View(b2).live = View(b).live
        BY <1>3, <1>4 DEF View, Alive
      <3> QED
        BY <3>1, <3>2, <3>3, <3>4 DEF Piped
    <2>2. CASE kb.result # "Running"
      <3>1. b2 = b
        BY <2>2 DEF b, b2
      <3>2. ~Alive(b)
        BY <1>3, <2>2 DEF Alive
      <3>3. View(b).pipe = <<>> /\ ~View(b).live
        BY <3>2, ViewFields
      <3> QED
        BY <3>1, <3>3 DEF Severed
    <2> QED
      BY <2>1, <2>2
  <1>8. Tidy(W, View(b2), Ahead(d, k.receiver), k2) /\ Beside(k, k2)
    BY <1>6, <1>7, FrameWrittenTidy DEF f
  <1> HIDE DEF k2
  <1>9. k2.receiver = k.receiver /\ k2.result = "Running" /\ Receiving(k2) = Receiving(k)
    BY <1>8 DEF Beside
  <1>10. Inbox(W, d, k2.receiver)
    BY <1>9, MetFacts
  <1>11. PICK t2, r2 : Pair(W, End(k2, a.n, d, t2, r2), b2)
    BY <1>2, <1>3, <1>4, <1>5, <1>8, <1>9, <1>10, CoreMoves
  <1>12. Pair(W, End(k2, n, d, t2, r2), End(kb, nb2, db, tb, rb))
    BY <1>2, <1>11 DEF b2
  <1>13. Met(W, k2, n, d, kb, nb2, db)
    BY <1>12, Zenon DEF Met
  <1> QED
    BY <1>13 DEF k2

\* handle_completed_read, for an answer.
LEMMA MetAnswered ==
  ASSUME NEW W, NEW k, NEW n, NEW d, NEW kb, NEW nb, NEW db, Met(W, k, n, d, kb, nb, db),
         k.result = "Running", NEW kind, kind # "NewRequest", NEW c, NEW id
  PROVE  LET read == AnswerRead(k, kind, c, id)
         IN  Met(W, read.core, n, d, kb, nb, db) /\ read.event.kind # "NewRequest"
  <1> DEFINE read == AnswerRead(k, kind, c, id)
  <1>1. CASE Mapped(k, c, id) = {}
    <2> DEFINE result == "InternalError"
    <2>1. read.core = Ended(k, result) /\ read.event = NoEvent
      BY <1>1 DEF AnswerRead
    <2>2. result \in Endings /\ result # "Running"
      BY DEF Endings
    <2> HIDE DEF result, read
    <2>3. Met(W, Ended(k, result), n, d, kb, nb, db)
      BY <2>2, MetEnds
    <2>4. read.event.kind # "NewRequest"
      BY <2>1 DEF NoEvent, Event
    <2> QED
      BY <2>1, <2>3, <2>4 DEF read
  <1>2. CASE Mapped(k, c, id) # {}
    <2> DEFINE m == CHOOSE m \in Mapped(k, c, id) : TRUE
               k2 == [k EXCEPT !.request_map = @ \ {m}]
    <2>1. read.core = k2 /\ read.event = Event(kind, c, id, m.io_id)
      BY <1>2 DEF AnswerRead
    <2>2. CoreOK(W, k)
      BY MetFacts
    <2> HIDE DEF read, m
    <2>3. /\ CoreOK(W, k2) /\ Agree(k, k2) /\ k2.result = k.result /\ k2.receiver = k.receiver
      BY <2>2 DEF CoreOK, CoreStates, Agree
    <2> HIDE DEF k2
    <2>4. Evolves(W, k, d, k2, d)
      BY <2>3, AgreeTidy DEF Evolves
    <2>5. Receiving(k2) = Receiving(k)
      BY <2>3 DEF Receiving, Agree
    <2>6. Inbox(W, d, k2.receiver)
      BY <2>3, MetFacts
    <2>7. Met(W, k2, n, d, kb, nb, db)
      BY <2>3, <2>4, <2>5, <2>6, MetMoves
    <2>8. read.event.kind # "NewRequest"
      BY <2>1 DEF Event
    <2> QED
      BY <2>1, <2>7, <2>8 DEF read
  <1> QED
    BY <1>1, <1>2

\* The requests of a user who has been told of one more.
Told(d, event) ==
    [c \in Channels |->
        IF event.kind = "NewRequest" /\ event.channel = c THEN d[c] \cup {event.id} ELSE d[c]]

\* The protocol has taken the frame.
LEMMA MetParsed ==
  ASSUME NEW W, NEW k, NEW n, NEW d, NEW kb, NEW nb, NEW db, Met(W, k, n, d, kb, nb, db),
         k.result = "Running", n # <<>>
  PROVE  LET f      == Head(n)
             c      == f.header.channel
             id     == f.header.id
             step   == ProcessFrame(c, k.juliet[c], f)
             parsed == [k EXCEPT !.juliet[c] = step.chan]
             event  == IF step.outcome = "NewRequest" THEN Event("NewRequest", c, id, 0) ELSE NoEvent
         IN  /\ f \in FramesOf(Kind) /\ c \in Channels /\ Readable(k.juliet[c], f)
             /\ step.outcome \in {"Continue", "NewRequest", "ReceivedResponse", "ResponseCancellation"}
             /\ parsed.result = "Running"
             /\ Met(W, parsed, Tail(n), Told(d, event), kb, nb, db)
  <1>1. PICK t, r, tb, rb : Pair(W, End(k, n, d, t, r), End(kb, nb, db, tb, rb))
    BY DEF Met
  <1> DEFINE a == End(k, n, d, t, r)
             b == End(kb, nb, db, tb, rb)
             m == b.t[1]
             f == Head(n)
             c == f.header.channel
             id == f.header.id
             ch == k.juliet[c]
             step == ProcessFrame(c, ch, f)
             parsed == [k EXCEPT !.juliet[c] = step.chan]
             event == IF step.outcome = "NewRequest" THEN Event("NewRequest", c, id, 0) ELSE NoEvent
             d2 == Told(d, event)
  <1>2. a.k = k /\ a.n = n /\ a.d = d /\ a.t = t /\ a.r = r
    BY EndFields
  <1>3. b.k = kb /\ b.n = nb /\ b.d = db
    BY EndFields
  <1> HIDE DEF a, b
  <1>4. Pair(W, a, b) /\ Alive(a) /\ a.n # <<>>
    BY <1>1, <1>2 DEF a, b, Alive
  <1>5. n \in Seq(FramesOf(Kind)) /\ f = NextFrame(m) /\ m \in Traffic
    BY <1>2, <1>4, HeadFrame
  <1>6. f.header = m.header
    BY <1>5, FinalFacts
  <1>7. c \in Channels /\ ChannelOK(c, ch) /\ Fits(ch.current_multiframe_receiver, m)
        /\ Admissible(c, ch, m)
    BY <1>2, <1>4, <1>6, HeadAdmissible
  <1>8. f \in FramesOf(Kind) /\ Readable(ch, f)
    BY <1>5, <1>7, FrameReadable
  <1>9. ChannelOK(c, step.chan) /\ Handles(ch, m, step.chan, step.outcome)
    BY <1>5, <1>6, <1>7, FrameHandled
  <1>10. CoreOK(W, k) /\ Inbox(W, d, k.receiver)
    BY MetFacts
  <1> HIDE DEF m, step
  <1>11. /\ CoreOK(W, parsed) /\ Aside(k, parsed)
         /\ parsed.wait_queue = k.wait_queue /\ parsed.pending_error = k.pending_error
         /\ parsed.result = k.result /\ parsed.juliet[c] = step.chan
         /\ \A x \in Channels \ {c} : parsed.juliet[x] = k.juliet[x]
    <2> DEFINE new == step.chan
               k2 == [k EXCEPT !.juliet[c] = new]
    <2>1. ChannelOK(c, new) /\ c \in Channels /\ parsed = k2
      BY <1>7, <1>9
    <2> HIDE DEF c, new
    <2>2. /\ CoreOK(W, k2) /\ Aside(k, k2)
          /\ k2.wait_queue = k.wait_queue /\ k2.pending_error = k.pending_error
          /\ k2.result = k.result /\ k2.juliet[c] = new
          /\ \A x \in Channels \ {c} : k2.juliet[x] = k.juliet[x]
      BY <1>10, <2>1, NewChannelState
    <2> HIDE DEF k2, parsed
    <2> QED
      BY <2>1, <2>2 DEF new
  <1>12. /\ parsed.ready_queue = k.ready_queue /\ parsed.active_multi_frame = k.active_multi_frame
         /\ parsed.closed = k.closed
    BY <1>10 DEF CoreOK, CoreStates
  <1> HIDE DEF parsed, f
  <1>13. step.outcome = IF ~IsFinalFrame(m) THEN "Continue"
                        ELSE IF m.header.kind \in AskKinds THEN "NewRequest"
                        ELSE IF m.header.kind = "CancelResp" THEN "ResponseCancellation"
                        ELSE "ReceivedResponse"
    BY <1>9 DEF Handles
  <1>14. step.outcome \in {"Continue", "NewRequest", "ReceivedResponse", "ResponseCancellation"}
    BY <1>13
  <1>15. ASSUME NEW x \in Channels
         PROVE  /\ d2[x] = d[x] \cup If(IsFinalFrame(m), IdIn(m, x, AskKinds))
                /\ d2[x] \in SUBSET Ids
    <2>1. step.outcome = "NewRequest" <=> IsFinalFrame(m) /\ m.header.kind \in AskKinds
      BY <1>13
    <2>2. d2[x] = IF event.kind = "NewRequest" /\ event.channel = x THEN d[x] \cup {event.id} ELSE d[x]
      BY DEF Told
    <2>3. m.header.id \in Ids /\ d[x] \in SUBSET Ids
      BY <1>5, <1>10, TrafficFacts DEF Inbox
    <2> HIDE DEF d2
    <2>4. CASE step.outcome = "NewRequest"
      <3>1. event.kind = "NewRequest" /\ event.channel = c /\ event.id = id
        BY <2>4 DEF Event
      <3> HIDE DEF event
      <3> QED
        BY <1>6, <2>1, <2>2, <2>3, <2>4, <3>1 DEF IdIn, If
    <2>5. CASE step.outcome # "NewRequest"
      <3>1. event.kind # "NewRequest"
        BY <2>5 DEF Event, NoEvent
      <3> HIDE DEF event
      <3> QED
        BY <2>1, <2>2, <2>3, <2>5, <3>1 DEF IdIn, If
    <2> QED
      BY <2>4, <2>5
  <1>16. d2 \in [Channels -> SUBSET Ids]
    <2>1. d2 = [x \in Channels |-> d2[x]]
      BY DEF Told
    <2> HIDE DEF d2
    <2> QED
      BY <1>15, <2>1
  <1> HIDE DEF d2, event
  <1>17. Receiving(parsed) = Past(Receiving(k), m)
    <2>1. /\ Receiving(parsed) = [x \in Channels |-> parsed.juliet[x].current_multiframe_receiver]
          /\ Receiving(k) = [x \in Channels |-> k.juliet[x].current_multiframe_receiver]
      BY DEF Receiving
    <2>2. parsed.juliet[c].current_multiframe_receiver = Advanced(ch.current_multiframe_receiver, m)
      BY <1>9, <1>11 DEF Handles
    <2>3. \A x \in Channels \ {c} : parsed.juliet[x].current_multiframe_receiver
                                      = k.juliet[x].current_multiframe_receiver
      BY <1>11
    <2> QED
      BY <1>6, <1>7, <2>1, <2>2, <2>3 DEF Past, Advanced
  <1>18. ASSUME NEW x \in Channels
         PROVE  /\ parsed.juliet[x].incoming_requests =
                     k.juliet[x].incoming_requests \cup If(m.processed = 0, IdIn(m, x, AskKinds))
                /\ parsed.juliet[x].outgoing_requests =
                     k.juliet[x].outgoing_requests \ If(IsFinalFrame(m), IdIn(m, x, AnswerKinds))
    <2>1. CASE x = c
      BY <1>6, <1>9, <1>11, <2>1 DEF Handles, IdOf, If
    <2>2. CASE x # c
      BY <1>6, <1>11, <2>2 DEF IdIn, If
    <2> QED
      BY <2>1, <2>2
  <1>19. Reads(k, d, m, parsed, d2)
    BY <1>11, <1>12, <1>15, <1>17, <1>18 DEF Reads, Aside
  <1>20. Pair(W, End(parsed, Tail(a.n), d2, a.t, a.r),
                 End(b.k, b.n, b.d, Rest(b.t, 1), Rest(b.r, 1)))
    BY <1>2, <1>4, <1>11, <1>16, <1>19, PairReads DEF m
  <1>21. Met(W, parsed, Tail(n), d2, kb, nb, db)
    BY <1>2, <1>3, <1>20, Zenon DEF Met
  <1> QED
    BY <1>7, <1>8, <1>11, <1>14, <1>21 DEF f, step, parsed, event, d2

\* The read branch, for a frame that is complete.
LEMMA MetReads ==
  ASSUME NEW W, NEW k, NEW n, NEW d, NEW kb, NEW nb, NEW db, Met(W, k, n, d, kb, nb, db),
         k.result = "Running", n # <<>>
  PROVE  LET read == FrameRead(k, Head(n))
         IN  /\ Head(n) \in FramesOf(Kind)
             /\ Met(W, read.core, Tail(n), Told(d, read.event), kb, nb, db)
  <1> DEFINE f      == Head(n)
             c      == f.header.channel
             id     == f.header.id
             step   == ProcessFrame(c, k.juliet[c], f)
             parsed == [k EXCEPT !.juliet[c] = step.chan]
             event  == IF step.outcome = "NewRequest" THEN Event("NewRequest", c, id, 0) ELSE NoEvent
             read   == FrameRead(k, f)
             promoted == ProcessWaitQueue(parsed, c)
  <1>1. /\ f \in FramesOf(Kind) /\ c \in Channels /\ Readable(k.juliet[c], f)
        /\ step.outcome \in {"Continue", "NewRequest", "ReceivedResponse", "ResponseCancellation"}
        /\ parsed.result = "Running"
        /\ Met(W, parsed, Tail(n), Told(d, event), kb, nb, db)
    BY MetParsed
  <1>2. f.header.kind \in Kind /\ f.header.kind \notin ErrorKind
    BY <1>1, FrameKinds DEF FramesOf, MessageHeaders
  <1>3. read = CASE step.outcome \in ErrorKind ->
                        [core |-> [InjectError(parsed, Header(step.outcome, c, id), NoPayload)
                                      EXCEPT !.fell_through = TRUE],
                         event |-> NoEvent]
                  [] step.outcome = "Continue" ->
                        [core |-> parsed, event |-> NoEvent]
                  [] step.outcome = "NewRequest" ->
                        [core |-> parsed, event |-> Event("NewRequest", c, id, 0)]
                  [] step.outcome = "RequestCancellation" ->
                        [core |-> parsed, event |-> Event("RequestCancelled", c, id, 0)]
                  [] step.outcome = "ReceivedResponse" ->
                        IF promoted.result # "Running"
                        THEN [core |-> promoted, event |-> NoEvent]
                        ELSE AnswerRead(promoted, "ReceivedResponse", c, id)
                  [] step.outcome = "ResponseCancellation" ->
                        AnswerRead(parsed, "ReceivedCancellationResponse", c, id)
    BY <1>1, <1>2, Zenon DEF FrameRead
  <1> HIDE DEF read, step, parsed, promoted, f
  <1>4. CASE step.outcome \in {"Continue", "NewRequest"}
    <2>1. read.core = parsed /\ read.event = event
      BY <1>3, <1>4 DEF ErrorKind
    <2> QED
      BY <1>1, <2>1 DEF f, read
  <1>5. ASSUME step.outcome \notin {"Continue", "NewRequest"} PROVE \A e : e.kind # "NewRequest" => Told(d, event) = Told(d, e)
    <2>1. event.kind # "NewRequest"
      BY <1>5 DEF NoEvent, Event
    <2> HIDE DEF event
    <2> QED
      BY <2>1 DEF Told
  <1>6. CASE step.outcome = "ReceivedResponse"
    <2> DEFINE kind == "ReceivedResponse"
               answer == AnswerRead(promoted, kind, c, id)
    <2>1. Met(W, promoted, Tail(n), Told(d, event), kb, nb, db) /\ promoted.result = "Running"
      BY <1>1, MetProcesses DEF promoted
    <2>2. read = answer
      BY <1>3, <1>6, <2>1 DEF ErrorKind
    <2>3. kind # "NewRequest"
      OBVIOUS
    <2> HIDE DEF kind
    <2>4. Met(W, answer.core, Tail(n), Told(d, event), kb, nb, db) /\ answer.event.kind # "NewRequest"
      BY <2>1, <2>3, MetAnswered
    <2> HIDE DEF answer, event
    <2> QED
      BY <1>1, <1>5, <1>6, <2>2, <2>4 DEF f, read
  <1>7. CASE step.outcome = "ResponseCancellation"
    <2> DEFINE kind == "ReceivedCancellationResponse"
               answer == AnswerRead(parsed, kind, c, id)
    <2>1. read = answer
      BY <1>3, <1>7 DEF ErrorKind
    <2>2. kind # "NewRequest"
      OBVIOUS
    <2> HIDE DEF kind
    <2>3. Met(W, answer.core, Tail(n), Told(d, event), kb, nb, db) /\ answer.event.kind # "NewRequest"
      BY <1>1, <2>2, MetAnswered
    <2> HIDE DEF answer, event
    <2> QED
      BY <1>1, <1>5, <1>7, <2>1, <2>3 DEF f, read
  <1> QED
    BY <1>1, <1>4, <1>6, <1>7

-----------------------------------------------------------------------------
(* The two peers.                                                           *)

\* Both peers run this code, no request is cancelled, no user reports an error, and
\* no payload is larger than what its channel is configured for.
Cooperative ==
    /\ ~MayTimeOut /\ ErrorPayloads = {} /\ ForeignKinds = {}
    /\ \A c \in Channels :
         /\ \A payload \in RequestPayloads : payload <= MaxRequestPayload[c]
         /\ \A payload \in ResponsePayloads : payload <= MaxResponsePayload[c]

\* The connection, as either of the peers sees it.
Exchange ==
    \A p \in Peers : Met(IoIds, core[p], net[p], todo[p],
                         core[Other(p)], net[Other(p)], todo[Other(p)])

\* A step of a peer p, which may put a frame on the line.
LEMMA ExchangeStep ==
  ASSUME Types, Exchange, NEW p \in Peers, NEW k, NEW n, NEW nb, NEW d,
         core' = [core EXCEPT ![p] = k], todo' = [todo EXCEPT ![p] = d],
         net' = [net EXCEPT ![p] = n, ![Other(p)] = nb],
         Met(IoIds, core[p], net[p], todo[p], core[Other(p)], net[Other(p)], todo[Other(p)])
           => Met(IoIds, k, n, d, core[Other(p)], nb, todo[Other(p)])
  PROVE  Exchange'
  <1> DEFINE o == Other(p)
  <1>1. o \in Peers /\ o # p /\ Other(o) = p /\ \A q \in Peers : q = p \/ q = o
    BY PeerFacts
  <1>2. Met(IoIds, k, n, d, core[o], nb, todo[o])
    BY DEF Exchange
  <1> HIDE DEF o
  <1>3. /\ core'[p] = k /\ todo'[p] = d /\ net'[p] = n
        /\ core'[o] = core[o] /\ todo'[o] = todo[o] /\ net'[o] = nb
    BY <1>1 DEF Types, o
  <1>4. Met(IoIds, core'[p], net'[p], todo'[p], core'[o], net'[o], todo'[o])
    BY <1>2, <1>3
  <1>5. Met(IoIds, core'[o], net'[o], todo'[o], core'[p], net'[p], todo'[p])
    BY <1>4, MetTurned
  <1>6. \A q \in Peers : Met(IoIds, core'[q], net'[q], todo'[q],
                             core'[Other(q)], net'[Other(q)], todo'[Other(q)])
    BY <1>1, <1>4, <1>5 DEF o
  <1> QED
    BY <1>6 DEF Exchange

\* The same, if only the core changes.
LEMMA CoreChanges ==
  ASSUME Types, Exchange, NEW p \in Peers, NEW k,
         core' = [core EXCEPT ![p] = k], UNCHANGED <<net, todo>>,
         Met(IoIds, core[p], net[p], todo[p], core[Other(p)], net[Other(p)], todo[Other(p)])
           => Met(IoIds, k, net[p], todo[p], core[Other(p)], net[Other(p)], todo[Other(p)])
  PROVE  Exchange'
  <1>1. /\ todo' = [todo EXCEPT ![p] = todo[p]]
        /\ net' = [net EXCEPT ![p] = net[p], ![Other(p)] = net[Other(p)]]
    BY PeerFacts DEF Types
  <1> QED
    BY <1>1, ExchangeStep

\* An item is put in the channel.
LEMMA SendExchange ==
  ASSUME Types, Exchange, NEW p \in Peers, Running(p), NEW item \in Orders(IoIds),
         NEW d \in [Channels -> SUBSET Ids], Less(todo[p], item, d),
         NEW k, CoreOK(IoIds, k), Agree(core[p], k), k.result = core[p].result,
         k.receiver = Append(core[p].receiver, item),
         core' = [core EXCEPT ![p] = k], todo' = [todo EXCEPT ![p] = d], UNCHANGED net
  PROVE  Exchange'
  <1>1. net' = [net EXCEPT ![p] = net[p], ![Other(p)] = net[Other(p)]]
    BY PeerFacts DEF Types
  <1>2. ASSUME Met(IoIds, core[p], net[p], todo[p], core[Other(p)], net[Other(p)], todo[Other(p)])
        PROVE  Met(IoIds, k, net[p], d, core[Other(p)], net[Other(p)], todo[Other(p)])
    BY <1>2, MetItem DEF Running
  <1> QED
    BY <1>1, <1>2, ExchangeStep

\* enqueue_request
LEMMA EnqueueRequestExchange ==
  ASSUME Cooperative, Inv, Exchange, NEW p \in Peers, NEW c \in Channels,
         NEW payload \in RequestPayloads, EnqueueRequest(p, c, payload)
  PROVE  Exchange'
  <1> DEFINE io_id == next_io_id[p]
             item == Item("Request", c, io_id, 0, payload)
             k == WithRequest(core[p], item, c)
  <1>1. Types /\ CoreOK(IoIds, core[p])
    BY RunningFacts, ServesLedger DEF Inv
  <1>2. Running(p) /\ core[p].buffered_requests[c] > 0 /\ io_id \in IoIds /\ UNCHANGED <<net, todo>>
    BY <1>1, PeersAssumption DEF EnqueueRequest, IoIds, Types
  <1>3. core' = [core EXCEPT ![p] = k]
    BY <1>1 DEF EnqueueRequest, WithRequest, Types, CoreStates
  <1>4. item \in Items(IoIds)
    BY <1>2, NewItems
  <1>5. item.kind = "Request" /\ item.channel = c /\ item.payload = payload
    BY DEF Item
  <1> HIDE DEF item
  <1>6. item \in Orders(IoIds)
    BY <1>4, <1>5 DEF Orders, IsRequest, Cooperative
  <1>7. todo[p] \in [Channels -> SUBSET Ids] /\ todo' = [todo EXCEPT ![p] = todo[p]]
    BY <1>1, <1>2 DEF Types
  <1>8. Less(todo[p], item, todo[p])
    BY <1>5 DEF Less, AnswerId, Answering
  <1>9. CoreOK(IoIds, k) /\ Agree(core[p], k) /\ k.result = core[p].result
        /\ k.receiver = Append(core[p].receiver, item)
    <2> DEFINE b == [core[p].buffered_requests EXCEPT ![c] = core[p].buffered_requests[c] - 1]
               q == Append(core[p].receiver, item)
    <2>1. b \in [Channels -> Nat]
      BY <1>1, <1>2 DEF CoreOK, CoreStates
    <2>2. q \in Seq(Items(IoIds))
      BY <1>1, <1>4, AppendFacts DEF CoreOK, CoreStates
    <2>3. k = [core[p] EXCEPT !.receiver = q, !.buffered_requests = b]
      BY <1>1 DEF WithRequest, CoreOK, CoreStates
    <2> HIDE DEF b, q, k
    <2>4. CoreOK(IoIds, k) /\ Agree(core[p], k) /\ k.result = core[p].result /\ k.receiver = q
      BY <1>1, <2>1, <2>2, <2>3 DEF CoreOK, CoreStates, Agree
    <2> QED
      BY <2>4 DEF q
  <1> HIDE DEF k
  <1> QED
    BY <1>1, <1>2, <1>3, <1>6, <1>7, <1>8, <1>9, SendExchange

\* An answer is put in the channel.
LEMMA AnswerExchange ==
  ASSUME Inv, Exchange, NEW p \in Peers, NEW c \in Channels, NEW id,
         NEW item \in Orders(IoIds), Answering(item), item.channel = c, item.id = id,
         id \in todo[p][c], Send(p, item), todo' = [todo EXCEPT ![p][c] = @ \ {id}], UNCHANGED net
  PROVE  Exchange'
  <1> DEFINE k == WithItem(core[p], item)
             d == [todo[p] EXCEPT ![c] = todo[p][c] \ {id}]
  <1>1. Types /\ CoreOK(IoIds, core[p]) /\ Running(p)
    BY RunningFacts, ServesLedger DEF Inv, Send
  <1>2. core' = [core EXCEPT ![p] = k]
    BY <1>1 DEF Send, WithItem, Types
  <1>3. todo[p] \in [Channels -> SUBSET Ids] /\ todo' = [todo EXCEPT ![p] = d]
    BY <1>1 DEF Types
  <1>4. d \in [Channels -> SUBSET Ids] /\ Less(todo[p], item, d)
    BY <1>3 DEF Less, AnswerId
  <1>5. Append(core[p].receiver, item) \in Seq(Items(IoIds))
    BY <1>1, AppendFacts DEF CoreOK, CoreStates, Orders
  <1>6. CoreOK(IoIds, k) /\ Agree(core[p], k) /\ k.result = core[p].result
        /\ k.receiver = Append(core[p].receiver, item)
    BY <1>1, <1>5 DEF CoreOK, CoreStates, Agree, WithItem
  <1> HIDE DEF k, d
  <1> QED
    BY <1>1, <1>2, <1>3, <1>4, <1>6, SendExchange

\* enqueue_response
LEMMA EnqueueResponseExchange ==
  ASSUME Cooperative, Inv, Exchange, NEW p \in Peers, NEW c \in Channels, NEW id \in Ids,
         NEW payload \in ResponsePayloads, EnqueueResponse(p, c, id, payload)
  PROVE  Exchange'
  <1> DEFINE item == Item("Response", c, 0, id, payload)
  <1>1. item \in Items(IoIds)
    BY NewItems
  <1>2. item.kind = "Response" /\ item.channel = c /\ item.payload = payload /\ item.id = id
    BY DEF Item
  <1>3. /\ id \in todo[p][c] /\ Send(p, item)
        /\ todo' = [todo EXCEPT ![p][c] = @ \ {id}] /\ UNCHANGED net
    BY DEF EnqueueResponse
  <1> HIDE DEF item
  <1>4. item \in Orders(IoIds) /\ Answering(item)
    BY <1>1, <1>2 DEF Orders, IsRequest, Cooperative, Answering
  <1> QED
    BY <1>2, <1>3, <1>4, AnswerExchange

\* enqueue_response_cancellation
LEMMA EnqueueResponseCancellationExchange ==
  ASSUME Inv, Exchange, NEW p \in Peers, NEW c \in Channels, NEW id \in Ids,
         EnqueueResponseCancellation(p, c, id)
  PROVE  Exchange'
  <1> DEFINE item == Item("ResponseCancellation", c, 0, id, NoPayload)
  <1>1. item \in Items(IoIds)
    BY NewItems
  <1>2. item.kind = "ResponseCancellation" /\ item.channel = c /\ item.id = id
    BY DEF Item
  <1>3. /\ id \in todo[p][c] /\ Send(p, item)
        /\ todo' = [todo EXCEPT ![p][c] = @ \ {id}] /\ UNCHANGED net
    BY DEF EnqueueResponseCancellation
  <1> HIDE DEF item
  <1>4. item \in Orders(IoIds) /\ Answering(item)
    BY <1>1, <1>2 DEF Orders, IsRequest, Answering
  <1> QED
    BY <1>2, <1>3, <1>4, AnswerExchange

\* The write branch: the frame is on the line, or lost with the peer.
LEMMA WriteFrameExchange ==
  ASSUME Inv, Exchange, NEW p \in Peers, WriteFrame(p)
  PROVE  Exchange'
  <1> DEFINE o == Other(p)
             f == core[p].current_frame.frame
             k == FrameWritten(core[p])
             result == "WriteFailed"
  <1>1. Types /\ o \in Peers /\ o # p
    BY PeerFacts DEF Inv
  <1>2. core[p].result = "Running" /\ core[p].current_frame # NoFrame /\ UNCHANGED todo
    BY DEF WriteFrame, CanWrite, Selecting, Running
  <1>3. todo' = [todo EXCEPT ![p] = todo[p]] /\ net = [net EXCEPT ![p] = net[p], ![o] = net[o]]
    BY <1>1, <1>2 DEF Types
  <1>4. \/ /\ core[o].result = "Running" /\ core' = [core EXCEPT ![p] = k]
           /\ net' = [net EXCEPT ![o] = Append(net[o], f)]
        \/ /\ core[o].result # "Running" /\ core' = [core EXCEPT ![p] = k] /\ net' = net
        \/ /\ core' = [core EXCEPT ![p] = Ended(core[p], result)] /\ net' = net
    BY DEF WriteFrame, Running
  <1>5. result \in Endings /\ result # "Running"
    BY DEF Endings
  <1> HIDE DEF k, o, f, result
  <1>6. CASE /\ core[o].result = "Running" /\ core' = [core EXCEPT ![p] = k]
             /\ net' = [net EXCEPT ![o] = Append(net[o], f)]
    <2> DEFINE nb == Append(net[o], f)
    <2>1. net' = [net EXCEPT ![p] = net[p], ![o] = nb]
      BY <1>1, <1>6 DEF Types
    <2>2. ASSUME Met(IoIds, core[p], net[p], todo[p], core[o], net[o], todo[o])
          PROVE  Met(IoIds, k, net[p], todo[p], core[o], nb, todo[o])
      BY <1>2, <1>6, <2>2, MetWrites DEF k, f
    <2> HIDE DEF nb
    <2> QED
      BY <1>1, <1>3, <1>6, <2>1, <2>2, ExchangeStep DEF o
  <1>7. CASE core[o].result # "Running" /\ core' = [core EXCEPT ![p] = k] /\ net' = net
    <2>1. ASSUME Met(IoIds, core[p], net[p], todo[p], core[o], net[o], todo[o])
          PROVE  Met(IoIds, k, net[p], todo[p], core[o], net[o], todo[o])
      BY <1>2, <1>7, <2>1, MetWrites DEF k
    <2> QED
      BY <1>1, <1>2, <1>7, <2>1, CoreChanges DEF o
  <1>8. CASE core' = [core EXCEPT ![p] = Ended(core[p], result)] /\ net' = net
    <2>1. ASSUME Met(IoIds, core[p], net[p], todo[p], core[o], net[o], todo[o])
          PROVE  Met(IoIds, Ended(core[p], result), net[p], todo[p], core[o], net[o], todo[o])
      BY <1>2, <1>5, <2>1, MetEnds
    <2> QED
      BY <1>1, <1>2, <1>8, <2>1, CoreChanges DEF o
  <1> QED
    BY <1>4, <1>6, <1>7, <1>8

\* ready_next_frame
LEMMA PrepareFrameExchange ==
  ASSUME Inv, Exchange, NEW p \in Peers, PrepareFrame(p)
  PROVE  Exchange'
  <1> DEFINE k == ReadyNextFrame(core[p])
             o == Other(p)
  <1>1. /\ Types /\ core[p].result = "Running" /\ core' = [core EXCEPT ![p] = k]
        /\ UNCHANGED <<net, todo>>
    BY DEF Inv, PrepareFrame, CanPrepare, Selecting, Running
  <1>2. ASSUME Met(IoIds, core[p], net[p], todo[p], core[o], net[o], todo[o])
        PROVE  Met(IoIds, k, net[p], todo[p], core[o], net[o], todo[o])
    BY <1>1, <1>2, MetPrepares
  <1> HIDE DEF k
  <1> QED
    BY <1>1, <1>2, CoreChanges

\* The read branch, for a frame.
LEMMA ReadFrameExchange ==
  ASSUME Inv, Exchange, NEW p \in Peers, ReadFrame(p)
  PROVE  Exchange'
  <1> DEFINE o == Other(p)
             f == Head(net[p])
             read == FrameRead(core[p], f)
             k == read.core
             d == Told(todo[p], read.event)
             n == Tail(net[p])
  <1>1. /\ Types /\ core[p].result = "Running" /\ net[p] # <<>>
        /\ net' = [net EXCEPT ![p] = Tail(net[p])]
    BY DEF Inv, ReadFrame, CanRead, Running
  <1>2. Met(IoIds, core[p], net[p], todo[p], core[o], net[o], todo[o])
    BY DEF Exchange
  <1>3. f \in FramesOf(Kind) /\ Met(IoIds, k, n, d, core[o], net[o], todo[o])
    BY <1>1, <1>2, MetReads
  <1>4. core' = [core EXCEPT ![p] = k] /\ Deliver(p, read.event)
    BY DEF ReadFrame
  <1> HIDE DEF read, f
  <1>5. todo' = [todo EXCEPT ![p] = d]
    BY <1>1, <1>4 DEF Deliver, Told, Types
  <1>6. net' = [net EXCEPT ![p] = n, ![Other(p)] = net[o]]
    BY <1>1, PeerFacts DEF Types
  <1> HIDE DEF k, d, n
  <1> QED
    BY <1>1, <1>3, <1>4, <1>5, <1>6, ExchangeStep

\* What is torn is never sent.
LEMMA NothingTorn ==
  ASSUME Inv, Exchange, NEW p \in Peers
  PROVE  ~ReadTorn(p)
  <1> SUFFICES ASSUME ReadTorn(p) PROVE FALSE
    OBVIOUS
  <1> DEFINE o == Other(p)
             f == Head(net[p])
  <1>1. core[p].result = "Running" /\ net[p] # <<>> /\ f = Torn
    BY DEF ReadTorn, CanRead, Running
  <1>2. Met(IoIds, core[p], net[p], todo[p], core[o], net[o], todo[o])
    BY DEF Exchange
  <1>3. f \in FramesOf(Kind)
    BY <1>1, <1>2, MetReads
  <1> HIDE DEF f
  <1>4. f.header.kind \in Kind
    BY <1>3 DEF FramesOf, MessageHeaders
  <1> QED
    BY <1>1, <1>4 DEF Torn, NoFrame, NextFrame, Frames, NoHeader, Header, Kind

\* The read branch, after the peer hung up.
LEMMA ReadEofExchange ==
  ASSUME Inv, Exchange, NEW p \in Peers, ReadEof(p)
  PROVE  Exchange'
  <1> DEFINE result == "Shutdown"
             o == Other(p)
             k == Ended(core[p], result)
  <1>1. /\ Types /\ core[p].result = "Running" /\ core' = [core EXCEPT ![p] = k]
        /\ UNCHANGED <<net, todo>>
    BY DEF Inv, ReadEof, CanReadEof, Selecting, Running
  <1>2. result \in Endings /\ result # "Running"
    BY DEF Endings
  <1> HIDE DEF result
  <1>3. ASSUME Met(IoIds, core[p], net[p], todo[p], core[o], net[o], todo[o])
        PROVE  Met(IoIds, k, net[p], todo[p], core[o], net[o], todo[o])
    BY <1>1, <1>2, <1>3, MetEnds
  <1> HIDE DEF k
  <1> QED
    BY <1>1, <1>3, CoreChanges

\* The receive branch.
LEMMA ReceiveItemsExchange ==
  ASSUME Inv, Exchange, NEW p \in Peers, ReceiveItems(p)
  PROVE  Exchange'
  <1> DEFINE dropped == ~handles[p]
             k == ItemsReceived(core[p], dropped)
             o == Other(p)
  <1>1. /\ Types /\ core[p].result = "Running" /\ core' = [core EXCEPT ![p] = k]
        /\ UNCHANGED <<net, todo>>
    BY DEF Inv, ReceiveItems, CanReceive, Selecting, Running
  <1> HIDE DEF dropped
  <1>2. ASSUME Met(IoIds, core[p], net[p], todo[p], core[o], net[o], todo[o])
        PROVE  Met(IoIds, k, net[p], todo[p], core[o], net[o], todo[o])
    BY <1>1, <1>2, MetReceives
  <1> HIDE DEF k
  <1> QED
    BY <1>1, <1>2, CoreChanges

\* There is no error to send.
LEMMA NoErrorPending ==
  ASSUME Exchange, NEW p \in Peers
  PROVE  ~SendPendingError(p)
  <1>1. Calm(core[p])
    BY MetFacts DEF Exchange
  <1> QED
    BY <1>1 DEF Calm, SendPendingError, CanSendError

-----------------------------------------------------------------------------
(* The invariant.                                                           *)

\* Before anything is sent.
LEMMA NewMet ==
  ASSUME NEW W, NEW d, d = [c \in Channels |-> {}]
  PROVE  Met(W, NewCore, <<>>, d, NewCore, <<>>, d)
  <1> DEFINE rcv == [c \in Channels |-> Ready]
             T == <<>>
             R == <<rcv>>
             a == End(NewCore, <<>>, d, T, R)
  <1>1. a.k = NewCore /\ a.n = <<>> /\ a.d = d /\ a.t = T /\ a.r = R
    BY EndFields
  <1>2. CoreOK(W, NewCore)
    BY NewServes, ServesLedger
  <1>3. /\ NewCore.receiver = <<>> /\ NewCore.ready_queue = <<>>
        /\ NewCore.current_frame = NoFrame /\ NewCore.result = "Running"
        /\ ~NewCore.closed /\ NewCore.pending_error = NoFrame
        /\ \A c \in Channels : /\ NewCore.wait_queue[c] = <<>>
                               /\ NewCore.juliet[c].incoming_requests = {}
                               /\ NewCore.juliet[c].outgoing_requests = {}
                               /\ NewCore.juliet[c].current_multiframe_receiver = Ready
    BY DEF NewCore, NewChannel
  <1>4. Receiving(NewCore) = rcv
    BY <1>3 DEF Receiving
  <1>5. rcv \in ReceiverStates
    BY WireAssumption DEF ReceiverStates, Receivers, Headers, Ready, NoHeader, Header, Kind
  <1> HIDE DEF a, rcv
  <1>6. Alive(a) /\ \A c \in Channels : Due(a)[c] = {}
    BY <1>1, <1>3, AnswersEmpty DEF Alive, Due, Ahead
  <1>7. Inbox(W, d, <<>>)
    BY AnswersEmpty, EmptySeq DEF Inbox
  <1>8. Owns(W, a)
    BY <1>1, <1>2, <1>3, <1>6, <1>7, AnswersEmpty, EmptySeq DEF Owns, Calm, Waiting, Endings
  <1>9. /\ T \in Seq(Traffic) /\ R \in Seq(ReceiverStates) /\ Len(T) = 0 /\ Len(R) = 1 /\ R[1] = rcv
    BY <1>5, EmptySeq
  <1>10. \A c \in Channels : R[1][c] = Ready
    BY <1>9 DEF rcv
  <1>11. <<>> \in Seq(FramesOf(Kind)) /\ Len(<<>>) = 0
    BY EmptySeq
  <1> HIDE DEF T, R
  <1>12. Ordered(T, R)
    BY <1>9, <1>10 DEF Ordered, Links, GoesOn, Resumes, InTurn, Apart
  <1>13. View(a).pipe = <<>> /\ View(a).recv = rcv
    BY <1>1, <1>4, <1>6, ViewFields
  <1>14. Carries(View(a), T, R, NewCore)
    BY <1>3, <1>9, <1>11, <1>13 DEF Carries, LineOf
  <1>15. Flags(T, R, NewCore)
    BY <1>3, <1>9 DEF Flags
  <1>16. Reaches(a, a)
    BY <1>1, <1>12, <1>14, <1>15 DEF Reaches, Transit
  <1>17. \A c, K : Underway(T, c, K) = {} /\ Unopened(T, c, K) = {}
    BY <1>9 DEF Underway, Unopened, Places
  <1>18. SlotsOf(a, a)
    BY <1>1, <1>3, <1>6, <1>17, AnswersEmpty DEF SlotsOf, SlotAt, Slots
  <1>19. Pair(W, a, a)
    BY <1>8, <1>16, <1>18 DEF Pair
  <1> QED
    BY <1>19, Zenon DEF Met, a

\* The initial states.
LEMMA InitExchange == Init => Exchange
  <1> SUFFICES ASSUME Init, NEW p \in Peers
               PROVE  Met(IoIds, core[p], net[p], todo[p],
                          core[Other(p)], net[Other(p)], todo[Other(p)])
    BY DEF Exchange
  <1> DEFINE o == Other(p)
             d == [c \in Channels |-> {}]
  <1>1. o \in Peers
    BY PeerFacts
  <1>2. /\ core[p] = NewCore /\ net[p] = <<>> /\ todo[p] = d
        /\ core[o] = NewCore /\ net[o] = <<>> /\ todo[o] = d
    BY <1>1 DEF Init
  <1>3. Met(IoIds, NewCore, <<>>, d, NewCore, <<>>, d)
    BY NewMet
  <1> QED
    BY <1>2, <1>3

\* Every step of cooperating peers keeps the invariant, one lemma per action.
LEMMA NextExchange ==
  ASSUME Cooperative
  PROVE  Inv /\ Exchange /\ [Next]_vars => Exchange'
  <1> SUFFICES ASSUME Inv, Exchange, [Next]_vars PROVE Exchange'
    OBVIOUS
  <1>1. CASE UNCHANGED vars
    BY <1>1 DEF vars, Exchange
  <1>2. ASSUME NEW p \in Peers, User(p) PROVE Exchange'
    <2>1. ASSUME NEW io_id \in IoIds PROVE ~EnqueueRequestCancellation(p, io_id)
      BY DEF Cooperative, EnqueueRequestCancellation
    <2>2. ErrorPayloads = {}
      BY DEF Cooperative
    <2>3. CASE DropHandles(p)
      BY <2>3 DEF DropHandles, Exchange
    <2> QED
      BY <1>2, <2>1, <2>2, <2>3, EnqueueRequestExchange DEF User
  <1>3. ASSUME NEW p \in Peers, Answer(p) PROVE Exchange'
    BY <1>3, EnqueueResponseExchange, EnqueueResponseCancellationExchange DEF Answer
  <1>4. ASSUME NEW p \in Peers, Core(p) PROVE Exchange'
    BY <1>4, WriteFrameExchange, PrepareFrameExchange, ReadFrameExchange, ReadEofExchange,
       ReceiveItemsExchange, NothingTorn, NoErrorPending DEF Core
  <1>5. ASSUME NEW p \in Peers, Foreign(p) PROVE FALSE
    BY <1>5 DEF Foreign, Cooperative
  <1> QED
    BY <1>1, <1>2, <1>3, <1>4, <1>5 DEF Next

\* So it always holds.
LEMMA SpecExchange ==
  ASSUME Cooperative
  PROVE  Spec => []Exchange
  <1>1. Inv /\ Exchange /\ [Next]_vars => Exchange'
    BY NextExchange
  <1> QED
    BY <1>1, InitExchange, SpecInv, PTL DEF Spec

-----------------------------------------------------------------------------
(* What follows from it.                                                    *)

\* OneMultiFrame: as long as both peers run this code and keep to its limits, only the
\* message that active_multi_frame names is being sent in several frames.
THEOREM OneMultiFrameHolds ==
  ASSUME Cooperative
  PROVE  Spec => []OneMultiFrame
  <1>1. ASSUME Exchange PROVE OneMultiFrame
    <2> SUFFICES ASSUME NEW p \in Peers, Running(p), NEW c \in Channels,
                        NEW m \in ToSet(core[p].ready_queue),
                        m.header.channel = c, PayloadIsMultiFrame(m.payload)
                 PROVE  core[p].active_multi_frame[c] = m.header /\ m.header # NoHeader
      BY DEF OneMultiFrame
    <2> DEFINE k == core[p]
               q == k.ready_queue
    <2>1. PICK e : Tidy(IoIds, e, Ahead(todo[p], k.receiver), k)
      BY <1>1, MetTidy DEF Exchange, Running
    <2>2. PICK T, R : Sound(e, Ahead(todo[p], k.receiver), k, T, R)
      BY <2>1 DEF Tidy
    <2>3. Ordered(T, R) /\ Carries(e, T, R, k) /\ Flags(T, R, k) /\ q \in Seq(Messages)
      BY <2>1, <2>2 DEF Tidy, Sound, CoreOK, CoreStates
    <2> HIDE DEF k, q
    <2>4. PICK i \in 1 .. Len(q) : m = q[i]
      BY <2>3, LenProperties DEF ToSet, k, q
    <2> DEFINE n == Len(R) - 1
    <2>5. /\ Len(q) \in Nat /\ Len(R) \in Nat /\ Len(T) = n + Len(q) /\ q[i] = T[n + i]
          /\ T \in Seq(Traffic)
      BY <2>3, LenProperties DEF Carries, q, Ordered
    <2>6. n + i \in Len(R) .. Len(T) /\ n + i \in 1 .. Len(T)
      <3>1. Len(R) \in 1 .. Len(T) + 1
        BY <2>3 DEF Ordered
      <3> QED
        BY <2>5, <3>1
    <2>7. m \in Traffic
      BY <2>4, <2>5, <2>6, ElementOfSeq
    <2>8. Named(k, m)
      BY <2>3, <2>4, <2>5, <2>6 DEF Flags
    <2> QED
      BY <2>7, <2>8, TrafficFacts DEF Named, Long, k
  <1>2. Spec => []Exchange
    BY SpecExchange
  <1> QED
    BY <1>1, <1>2, PTL

\* NoFault: two peers that run this code and keep to its limits never make each other
\* fail, if no request ID is used twice.
THEOREM NoFaultHolds ==
  ASSUME Cooperative, MaxRequests < IdCount
  PROVE  Spec => []NoFault
  <1>1. ASSUME Exchange, NoInternalError PROVE NoFault
    <2> SUFFICES ASSUME NEW p \in Peers
                 PROVE  /\ core[p].result \notin {"InternalError", "LocalProtocolViolation", "Misread"}
                        /\ core[p].pending_error.frame.header.kind \in {"None", "Other"}
      BY DEF NoFault
    <2>1. Calm(core[p]) /\ core[p].result \in Endings
      BY <1>1, MetFacts DEF Exchange
    <2>2. NoFrame.frame.header.kind = "None"
      BY DEF NoFrame, NextFrame, Frames, NoHeader, Header
    <2> QED
      BY <1>1, <2>1, <2>2 DEF Calm, Endings, NoInternalError
  <1>2. Spec => []Exchange
    BY SpecExchange
  <1>3. Spec => []NoInternalError
    BY InternalErrorImpossible
  <1> QED
    BY <1>1, <1>2, <1>3, PTL

\* A frame with which a message begins.
Opens(f) == ~(f.len = NoLen /\ f.seg > 0)

\* The first frame of a message begins it, and no other does.
LEMMA OpensFacts ==
  ASSUME NEW m \in Traffic
  PROVE  Opens(NextFrame(m)) <=> m.processed = 0
  <1>1. /\ m.payload \in Nat \cup {NoPayload} /\ m.processed \in Nat
        /\ m.processed # 0 => m.payload \in Nat /\ m.processed < m.payload
    BY TrafficFacts DEF Traffic, Messages
  <1>2. MaxFrameSize - HeaderSize \in Nat /\ MaxFrameSize - HeaderSize > 0
    BY WireAssumption DEF MinFrameSize, HeaderSize, VarintMaxLen
  <1>3. CASE m.processed = 0
    BY <1>1, <1>3 DEF Opens, NextFrame, NoLen, NoPayload
  <1>4. CASE m.processed # 0
    BY <1>1, <1>2, <1>4 DEF Opens, NextFrame, NoLen, NoPayload, Least
  <1> QED
    BY <1>3, <1>4

\* The messages T are those in queue q, and those that the frames s and cf are of.
Spread(T, q, s, cf) ==
    /\ \A i \in 1 .. Len(T) :
         /\ T[i] \in Traffic
         /\ \/ T[i] \in ToSet(q)
            \/ NextFrame(T[i]) \in ToSet(s)
            \/ cf # NoFrame /\ cf.frame = NextFrame(T[i])
    /\ \A m \in ToSet(q) : \E i \in 1 .. Len(T) : m = T[i]
    /\ \A f \in ToSet(s) : \E i \in 1 .. Len(T) : f = NextFrame(T[i])
    /\ cf # NoFrame => \E i \in 1 .. Len(T) : cf.frame = NextFrame(T[i])

\* What is on the line and in the queue are the messages of T.
LEMMA LineMembers ==
  ASSUME NEW W, NEW e, NEW T, NEW R, NEW k, Transit(e, T, R, k), CoreOK(W, k)
  PROVE  Spread(T, k.ready_queue, e.pipe, k.current_frame)
  <1> DEFINE q == k.ready_queue
             s == e.pipe
             cf == k.current_frame
             line == LineOf(s, cf)
             n == Len(R) - 1
  <1>1. Ordered(T, R) /\ Carries(e, T, R, k)
    BY DEF Transit
  <1>2. /\ T \in Seq(Traffic) /\ R \in Seq(ReceiverStates) /\ Len(R) \in 1 .. Len(T) + 1
    BY <1>1 DEF Ordered
  <1>3. /\ s \in Seq(FramesOf(Kind)) /\ Len(line) = n /\ Len(T) = n + Len(q)
        /\ \A i \in 1 .. n : line[i] = NextFrame(T[i])
        /\ \A i \in 1 .. Len(q) : q[i] = T[n + i]
    BY <1>1 DEF Carries
  <1>4. /\ q \in Seq(Messages)
        /\ cf \in {NoFrame} \cup [frame : FramesOf(Kind), final : BOOLEAN]
    BY DEF CoreOK, CoreStates
  <1> HIDE DEF q, s, cf
  <1>5. /\ Len(q) \in Nat /\ Len(T) \in Nat /\ Len(R) \in Nat /\ Len(s) \in Nat
        /\ DOMAIN q = 1 .. Len(q) /\ DOMAIN s = 1 .. Len(s)
    BY <1>2, <1>3, <1>4, LenProperties
  <1>6. /\ \A x : x \in ToSet(q) <=> \E i \in 1 .. Len(q) : x = q[i]
        /\ \A x : x \in ToSet(s) <=> \E i \in 1 .. Len(s) : x = s[i]
    BY <1>5 DEF ToSet
  <1>7. /\ \A i \in 1 .. Len(s) : line[i] = s[i]
        /\ cf = NoFrame => n = Len(s)
        /\ cf # NoFrame => n = Len(s) + 1 /\ line[n] = cf.frame
    <2>1. CASE cf = NoFrame
      BY <1>3, <2>1 DEF LineOf
    <2>2. CASE cf # NoFrame
      <3>1. cf.frame \in FramesOf(Kind)
        BY <1>4, <2>2
      <3>2. /\ line = Append(s, cf.frame) /\ Len(line) = Len(s) + 1
            /\ line[Len(s) + 1] = cf.frame /\ \A i \in 1 .. Len(s) : line[i] = s[i]
        BY <1>3, <2>2, <3>1, AppendProperties DEF LineOf
      <3> QED
        BY <1>3, <2>2, <3>2
    <2> QED
      BY <2>1, <2>2
  <1> HIDE DEF line
  <1>8. ASSUME NEW i \in 1 .. Len(T)
        PROVE  /\ T[i] \in Traffic
               /\ \/ T[i] \in ToSet(q)
                  \/ NextFrame(T[i]) \in ToSet(s)
                  \/ cf # NoFrame /\ cf.frame = NextFrame(T[i])
    <2>1. T[i] \in Traffic
      BY <1>2, ElementOfSeq
    <2>2. CASE i > n
      <3>1. i - n \in 1 .. Len(q) /\ n + (i - n) = i
        BY <1>2, <1>3, <1>5, <2>2
      <3>2. q[i - n] = T[i]
        BY <1>3, <3>1
      <3> QED
        BY <1>6, <2>1, <3>1, <3>2
    <2>3. CASE i <= n
      <3>1. i \in 1 .. n /\ line[i] = NextFrame(T[i])
        BY <1>2, <1>3, <1>5, <2>3
      <3>2. CASE i \in 1 .. Len(s)
        BY <1>6, <1>7, <2>1, <3>1, <3>2
      <3>3. CASE i \notin 1 .. Len(s)
        <4>1. cf # NoFrame /\ i = n
          BY <1>5, <1>7, <3>1, <3>3
        <4> QED
          BY <1>7, <2>1, <3>1, <4>1
      <3> QED
        BY <3>2, <3>3
    <2> QED
      BY <1>2, <1>5, <2>2, <2>3
  <1>9. ASSUME NEW m \in ToSet(q) PROVE \E i \in 1 .. Len(T) : m = T[i]
    <2>1. PICK j \in 1 .. Len(q) : m = q[j]
      BY <1>6
    <2>2. n + j \in 1 .. Len(T)
      BY <1>2, <1>3, <1>5
    <2> QED
      BY <1>3, <2>1, <2>2
  <1>10. ASSUME NEW f \in ToSet(s) PROVE \E i \in 1 .. Len(T) : f = NextFrame(T[i])
    <2>1. PICK j \in 1 .. Len(s) : f = s[j]
      BY <1>6
    <2>2. j \in 1 .. n /\ j \in 1 .. Len(T)
      BY <1>3, <1>5, <1>7
    <2> QED
      BY <1>3, <1>7, <2>1, <2>2
  <1>11. ASSUME cf # NoFrame PROVE \E i \in 1 .. Len(T) : cf.frame = NextFrame(T[i])
    <2>1. n \in 1 .. n /\ n \in 1 .. Len(T)
      BY <1>3, <1>5, <1>7, <1>11
    <2> QED
      BY <1>3, <1>7, <1>11, <2>1
  <1> QED
    BY <1>8, <1>9, <1>10, <1>11 DEF Spread, q, s, cf

\* So the headers that can be seen there tell the requests and answers on their way.
LEMMA HeadersSeen ==
  ASSUME NEW W, NEW e, NEW T, NEW R, NEW k, Transit(e, T, R, k), CoreOK(W, k),
         NEW c, NEW K, "None" \notin K
  PROVE  LET q == k.ready_queue
             s == e.pipe
             f == k.current_frame.frame
             all == {m.header : m \in ToSet(q)} \cup {f.header} \cup {g.header : g \in ToSet(s)}
             new == {m.header : m \in {n \in ToSet(q) : n.processed = 0}}
                      \cup {g.header : g \in {h \in {f} \cup ToSet(s) : Opens(h)}}
         IN  /\ Underway(T, c, K) = {h.id : h \in {g \in all : g.kind \in K /\ g.channel = c}}
             /\ Unopened(T, c, K) = {h.id : h \in {g \in new : g.kind \in K /\ g.channel = c}}
  <1> DEFINE q == k.ready_queue
             s == e.pipe
             cf == k.current_frame
             f == cf.frame
             all == {m.header : m \in ToSet(q)} \cup {f.header} \cup {g.header : g \in ToSet(s)}
             new == {m.header : m \in {n \in ToSet(q) : n.processed = 0}}
                      \cup {g.header : g \in {h \in {f} \cup ToSet(s) : Opens(h)}}
             A == {h.id : h \in {g \in all : g.kind \in K /\ g.channel = c}}
             N == {h.id : h \in {g \in new : g.kind \in K /\ g.channel = c}}
  <1>1. /\ \A i \in 1 .. Len(T) :
             /\ T[i] \in Traffic
             /\ \/ T[i] \in ToSet(q)
                \/ NextFrame(T[i]) \in ToSet(s)
                \/ cf # NoFrame /\ f = NextFrame(T[i])
        /\ \A m \in ToSet(q) : \E i \in 1 .. Len(T) : m = T[i]
        /\ \A g \in ToSet(s) : \E i \in 1 .. Len(T) : g = NextFrame(T[i])
        /\ cf # NoFrame => \E i \in 1 .. Len(T) : f = NextFrame(T[i])
    <2>1. Spread(T, q, s, cf)
      BY LineMembers
    <2> HIDE DEF q, s, cf
    <2> QED
      BY <2>1 DEF Spread
  <1>2. \A i \in 1 .. Len(T) : /\ NextFrame(T[i]).header = T[i].header
                               /\ Opens(NextFrame(T[i])) <=> T[i].processed = 0
    BY <1>1, FinalFacts, OpensFacts
  <1>3. cf = NoFrame => f.header.kind \notin K
    BY DEF NoFrame, NextFrame, Frames, NoHeader, Header
  <1> HIDE DEF q, s, cf, f
  <1>4. ASSUME NEW x PROVE x \in Underway(T, c, K) <=> x \in A
    <2>1. ASSUME x \in Underway(T, c, K) PROVE x \in A
      <3>1. PICK i \in 1 .. Len(T) : IsAt(T, i, c, K, x)
        BY <2>1, UnderwayIff
      <3>2. T[i].header \in all
        BY <1>1, <1>2
      <3> HIDE DEF all
      <3> QED
        BY <3>1, <3>2 DEF IsAt
    <2>2. ASSUME x \in A PROVE x \in Underway(T, c, K)
      <3>1. PICK h \in all : h.kind \in K /\ h.channel = c /\ h.id = x
        BY <2>2
      <3>2. \E i \in 1 .. Len(T) : h = T[i].header
        <4>1. CASE h \in {m.header : m \in ToSet(q)}
          BY <1>1, <4>1
        <4>2. CASE h \in {g.header : g \in ToSet(s)}
          BY <1>1, <1>2, <4>2
        <4>3. CASE h = f.header
          BY <1>1, <1>2, <1>3, <3>1, <4>3
        <4> QED
          BY <4>1, <4>2, <4>3
      <3> QED
        BY <3>1, <3>2, UnderwayIff DEF IsAt
    <2> QED
      BY <2>1, <2>2
  <1>5. ASSUME NEW x PROVE x \in Unopened(T, c, K) <=> x \in N
    <2>1. ASSUME x \in Unopened(T, c, K) PROVE x \in N
      <3>1. PICK i \in 1 .. Len(T) : IsAt(T, i, c, K, x) /\ T[i].processed = 0
        BY <2>1, UnderwayIff
      <3>2. T[i].header \in new
        BY <1>1, <1>2, <3>1
      <3> HIDE DEF new
      <3> QED
        BY <3>1, <3>2 DEF IsAt
    <2>2. ASSUME x \in N PROVE x \in Unopened(T, c, K)
      <3>1. PICK h \in new : h.kind \in K /\ h.channel = c /\ h.id = x
        BY <2>2
      <3>2. \E i \in 1 .. Len(T) : h = T[i].header /\ T[i].processed = 0
        <4>1. CASE h \in {m.header : m \in {n \in ToSet(q) : n.processed = 0}}
          BY <1>1, <4>1
        <4>2. CASE \E g \in ToSet(s) : Opens(g) /\ h = g.header
          BY <1>1, <1>2, <4>2
        <4>3. CASE h = f.header /\ Opens(f)
          BY <1>1, <1>2, <1>3, <3>1, <4>3
        <4> QED
          BY <4>1, <4>2, <4>3
      <3> QED
        BY <3>1, <3>2, UnderwayIff DEF IsAt
    <2> QED
      BY <2>1, <2>2
  <1> HIDE DEF A, N
  <1>6. Underway(T, c, K) = A /\ Unopened(T, c, K) = N
    BY <1>4, <1>5
  <1> QED
    BY <1>6 DEF A, N, all, new, q, s, cf, f

\* SlotsAgree: the two peers agree on the requests that are in flight, and each is in one
\* place.
THEOREM SlotsAgreeHolds ==
  ASSUME Cooperative
  PROVE  Spec => []SlotsAgree
  <1>1. ASSUME Exchange PROVE SlotsAgree
    <2> SUFFICES ASSUME Healthy, NEW p \in Peers, NEW c \in Channels
                 PROVE  LET asking    == InFlightIds(Beginning(p, c, {"Request", "RequestPl"}))
                            held      == core[Other(p)].juliet[c].incoming_requests
                            answering == InFlightIds(Outstanding(Other(p), c,
                                             {"Response", "ResponsePl", "CancelResp"}))
                        IN  /\ core[p].juliet[c].outgoing_requests = asking \cup held \cup answering
                            /\ asking \cap held = {} /\ asking \cap answering = {}
                            /\ held \cap answering = {}
      BY DEF SlotsAgree
    <2> DEFINE o == Other(p)
    <2>1. o \in Peers /\ Other(o) = p
      BY PeerFacts
    <2>2. PICK t, r, tb, rb : Pair(IoIds, End(core[p], net[p], todo[p], t, r),
                                          End(core[o], net[o], todo[o], tb, rb))
      BY <1>1 DEF Exchange, Met
    <2> DEFINE a == End(core[p], net[p], todo[p], t, r)
               b == End(core[o], net[o], todo[o], tb, rb)
               asking == InFlightIds(Beginning(p, c, AskKinds))
               answering == InFlightIds(Outstanding(o, c, AnswerKinds))
               held == core[o].juliet[c].incoming_requests
               out == core[p].juliet[c].outgoing_requests
    <2>3. a.k = core[p] /\ a.n = net[p] /\ a.t = t /\ a.r = r
      BY EndFields
    <2>4. b.k = core[o] /\ b.n = net[o] /\ b.t = tb /\ b.r = rb
      BY EndFields
    <2> HIDE DEF a, b, o
    <2>5. Pair(IoIds, a, b) /\ Alive(a) /\ Alive(b)
      BY <2>1, <2>2, <2>3, <2>4 DEF a, b, Alive, Healthy, Running
    <2>6. View(a).pipe = net[p] /\ View(b).pipe = net[o]
      BY <2>3, <2>4, <2>5, ViewFields
    <2>7. /\ Transit(View(b), t, r, core[p]) /\ CoreOK(IoIds, core[p])
          /\ Transit(View(a), tb, rb, core[o]) /\ CoreOK(IoIds, core[o])
      BY <2>3, <2>4, <2>5 DEF Pair, Reaches, Owns
    <2>8. "None" \notin AskKinds /\ "None" \notin AnswerKinds
      BY DEF AskKinds, AnswerKinds
    <2>9. asking = Unopened(t, c, AskKinds)
      <3> DEFINE K == AskKinds
                 q == core[p].ready_queue
                 f == core[p].current_frame.frame
                 s == net[o]
                 new == {m.header : m \in {n \in ToSet(q) : n.processed = 0}}
                          \cup {g.header : g \in {h \in {f} \cup ToSet(s) : Opens(h)}}
      <3>1. Beginning(p, c, K) = {g \in new : g.kind \in K /\ g.channel = c}
        BY DEF Beginning, Opens, o
      <3>2. Unopened(t, c, K) = {h.id : h \in {g \in new : g.kind \in K /\ g.channel = c}}
        BY <2>6, <2>7, <2>8, HeadersSeen
      <3> QED
        BY <3>1, <3>2 DEF InFlightIds
    <2>10. answering = Underway(tb, c, AnswerKinds)
      <3> DEFINE K == AnswerKinds
                 q == core[o].ready_queue
                 f == core[o].current_frame.frame
                 s == net[p]
                 all == {m.header : m \in ToSet(q)} \cup {f.header} \cup {g.header : g \in ToSet(s)}
      <3>1. Outstanding(o, c, K) = {g \in all : g.kind \in K /\ g.channel = c}
        BY <2>1 DEF Outstanding, ToSend
      <3>2. Underway(tb, c, K) = {h.id : h \in {g \in all : g.kind \in K /\ g.channel = c}}
        BY <2>6, <2>7, <2>8, HeadersSeen
      <3> QED
        BY <3>1, <3>2 DEF InFlightIds
    <2>11. SlotAt(a, b, c)
      BY <2>5 DEF Pair, SlotsOf
    <2>12. Unopened(t, c, AskKinds) \subseteq Underway(t, c, AskKinds)
      BY DEF Unopened, Underway
    <2> HIDE DEF asking, answering, held, out
    <2>13. /\ out = asking \cup held \cup answering
           /\ asking \cap held = {} /\ asking \cap answering = {} /\ held \cap answering = {}
      <3> DEFINE Out == Underway(t, c, AskKinds)
                 X == Due(b)[c] \cup AnswerIds(b.k.wait_queue[c], c)
      <3>1. /\ Out \cup held \cup answering \subseteq out
            /\ asking \cap held = {} /\ answering \cap (Out \cup held) = {}
            /\ Out \subseteq asking \cup held /\ out \subseteq Out \cup held \cup answering
            /\ asking \subseteq Out
        BY <2>3, <2>4, <2>5, <2>9, <2>10, <2>11, <2>12 DEF SlotAt, Slots, held, out
      <3> HIDE DEF Out
      <3> QED
        BY <3>1
    <2> QED
      BY <2>13 DEF asking, answering, held, out, AskKinds, AnswerKinds, o
  <1>2. Spec => []Exchange
    BY SpecExchange
  <1> QED
    BY <1>1, <1>2, PTL

=============================================================================
