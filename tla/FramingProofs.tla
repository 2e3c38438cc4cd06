---------------------------- MODULE FramingProofs ---------------------------
(***************************************************************************)
(* Proofs about the encodings and about the reader of a stream of bytes,   *)
(* for every stream of frames and every way to cut it into reads.          *)
(***************************************************************************)
EXTENDS Framing, ChannelProofs, SequenceTheorems, LoopProofs

-----------------------------------------------------------------------------
(* Headers.                                                                 *)

\* Every kind has a discriminant, and the discriminant stands for it.
LEMMA KindDiscriminant ==
  ASSUME NEW kind \in Kind
  PROVE  LET d == Discriminant(KindBytes, kind)
         IN  d \in 0 .. 5 /\ KindBytes[d + 1] = kind
  <1> DEFINE k == CHOOSE k \in DOMAIN KindBytes : KindBytes[k] = kind
             d == Discriminant(KindBytes, kind)
  <1>1. DOMAIN KindBytes = 1 .. 6
    BY DEF KindBytes
  <1>2. \E j \in DOMAIN KindBytes : KindBytes[j] = kind
    BY <1>1 DEF KindBytes, Kind
  <1>3. k \in DOMAIN KindBytes /\ KindBytes[k] = kind
    BY <1>2
  <1>4. d = k - 1
    BY DEF Discriminant
  <1> HIDE DEF k, d
  <1>5. k \in 1 .. 6
    BY <1>1, <1>3
  <1>6. d \in 0 .. 5 /\ d + 1 = k
    BY <1>4, <1>5
  <1> QED
    BY <1>3, <1>6 DEF d

\* Every error kind has one, too.
LEMMA ErrorKindDiscriminant ==
  ASSUME NEW kind \in ErrorKind
  PROVE  LET d == Discriminant(ErrorKindBytes, kind)
         IN  d \in 0 .. 13 /\ ErrorKindBytes[d + 1] = kind
  <1> DEFINE k == CHOOSE k \in DOMAIN ErrorKindBytes : ErrorKindBytes[k] = kind
             d == Discriminant(ErrorKindBytes, kind)
  <1>1. DOMAIN ErrorKindBytes = 1 .. 14
    BY DEF ErrorKindBytes
  <1>2. \E j \in DOMAIN ErrorKindBytes : ErrorKindBytes[j] = kind
    BY <1>1 DEF ErrorKindBytes, ErrorKind
  <1>3. k \in DOMAIN ErrorKindBytes /\ ErrorKindBytes[k] = kind
    BY <1>2
  <1>4. d = k - 1
    BY DEF Discriminant
  <1> HIDE DEF k, d
  <1>5. k \in 1 .. 14
    BY <1>1, <1>3
  <1>6. d \in 0 .. 13 /\ d + 1 = k
    BY <1>4, <1>5
  <1> QED
    BY <1>3, <1>6 DEF d

\* What Header::parse makes of a kind byte, whatever its reserved bits.
LEMMA KindByteParsed ==
  ASSUME NEW b, NEW kind \in Kind, NEW reserved \in 0 .. 7,
         b[1] = Discriminant(KindBytes, kind) + 16 * reserved
  PROVE  Parse(b) = Header(kind, b[2], HeaderId(b))
  <1> DEFINE d == Discriminant(KindBytes, kind)
             v == KindByte(b[1])
  <1>1. d \in 0 .. 5 /\ KindBytes[d + 1] = kind
    BY KindDiscriminant
  <1> HIDE DEF d
  <1>2. v = d
    BY <1>1 DEF KindByte, d
  <1>3. Len(KindBytes) = 6
    BY DEF KindBytes
  <1> HIDE DEF v
  <1>4. ~(v >= 128) /\ v % 8 < Len(KindBytes) /\ v % 8 = v
    BY <1>1, <1>2, <1>3
  <1>5. KindBytes[v + 1] = kind
    BY <1>1, <1>2
  <1> QED
    BY <1>4, <1>5, Zenon DEF Parse, v

\* What it makes of one with the error bit.
LEMMA ErrorKindByteParsed ==
  ASSUME NEW b, NEW kind \in ErrorKind, NEW reserved \in 0 .. 7,
         b[1] = 128 + Discriminant(ErrorKindBytes, kind) + 16 * reserved
  PROVE  Parse(b) = Header(kind, b[2], HeaderId(b))
  <1> DEFINE d == Discriminant(ErrorKindBytes, kind)
             v == KindByte(b[1])
  <1>1. d \in 0 .. 13 /\ ErrorKindBytes[d + 1] = kind
    BY ErrorKindDiscriminant
  <1> HIDE DEF d
  <1>2. v = 128 + d
    BY <1>1 DEF KindByte, d
  <1>3. Len(ErrorKindBytes) = 14
    BY DEF ErrorKindBytes
  <1> HIDE DEF v
  <1>4. v >= 128 /\ v % 16 < Len(ErrorKindBytes) /\ v % 16 = d
    BY <1>1, <1>2, <1>3
  <1> QED
    BY <1>1, <1>4, Zenon DEF Parse, v

\* What is known of the header of a frame.
LEMMA WireHeaderFacts ==
  ASSUME NEW h \in WireHeaders
  PROVE  /\ h = Header(h.kind, h.channel, h.id)
         /\ h.kind \in WireKinds /\ h.channel \in Byte /\ h.id \in Ids
         /\ h # NoHeader
  <1>1. /\ h = [kind |-> h.kind, channel |-> h.channel, id |-> h.id]
        /\ h.kind \in WireKinds /\ h.channel \in Byte /\ h.id \in Ids
    BY DEF WireHeaders
  <1>2. h.kind # "None"
    BY <1>1 DEF WireKinds, Kind, ErrorKind
  <1>3. NoHeader.kind = "None"
    BY DEF NoHeader, Header
  <1> QED
    BY <1>1, <1>2, <1>3 DEF Header

\* Header::parse gives back what Header::new and Header::new_error made.
LEMMA HeaderParsed ==
  ASSUME NEW h \in WireHeaders, NEW b, \A i \in 1 .. 4 : b[i] = HeaderBytes(h)[i]
  PROVE  Parse(b) = h
  <1>1. /\ b[2] = h.channel /\ b[3] = h.id % 256 /\ b[4] = h.id \div 256
        /\ b[1] = IF h.kind \in Kind THEN Discriminant(KindBytes, h.kind)
                  ELSE 128 + Discriminant(ErrorKindBytes, h.kind)
    BY DEF HeaderBytes
  <1>0. /\ h = Header(h.kind, h.channel, h.id)
        /\ h.kind \in Kind \cup ErrorKind /\ h.id \in Nat
    BY WireHeaderFacts, IdsFinite DEF WireKinds
  <1>2. HeaderId(b) = h.id
    BY <1>0, <1>1 DEF HeaderId
  <1>3. CASE h.kind \in Kind
    <2>1. b[1] = Discriminant(KindBytes, h.kind) + 16 * 0
      BY <1>1, <1>3, KindDiscriminant
    <2>2. Parse(b) = Header(h.kind, b[2], HeaderId(b))
      BY <1>3, <2>1, KindByteParsed
    <2> QED
      BY <1>0, <1>1, <1>2, <2>2
  <1>4. CASE h.kind \in ErrorKind
    <2>1. h.kind \notin Kind
      BY <1>4 DEF Kind, ErrorKind
    <2>2. b[1] = 128 + Discriminant(ErrorKindBytes, h.kind) + 16 * 0
      BY <1>1, <1>4, <2>1, ErrorKindDiscriminant
    <2>3. Parse(b) = Header(h.kind, b[2], HeaderId(b))
      BY <1>4, <2>2, ErrorKindByteParsed
    <2> QED
      BY <1>0, <1>1, <1>2, <2>3
  <1> QED
    BY <1>0, <1>3, <1>4

\* Bytes that are no header are recognised.
LEMMA NoHeaderParsed ==
  ASSUME NEW b, b[1] = 8
  PROVE  Parse(b) = NoHeader
  <1>1. KindByte(b[1]) = 8
    BY DEF KindByte
  <1> QED
    BY <1>1 DEF Parse

-----------------------------------------------------------------------------
(* Varints.                                                                 *)

\* Bytes are numbers.
LEMMA ByteFacts ==
  ASSUME NEW input \in Seq(Byte)
  PROVE  /\ Len(input) \in Nat /\ DOMAIN input = 1 .. Len(input)
         /\ \A n \in 1 .. Len(input) : input[n] \in Byte /\ input[n] \in 0 .. 255
  <1>1. \A n \in 1 .. Len(input) : input[n] \in Byte
    BY ElementOfSeq
  <1>2. \A n \in 1 .. Len(input) : input[n] \in 0 .. 255
    BY <1>1, Zenon DEF Byte
  <1> QED
    BY <1>1, <1>2

\* What the bits of byte n of a varint are multiplied with.
Weight(n) == 2 ^ (7 * (n - 1))

\* Weights are numbers; the first is one.
LEMMA WeightIsInt ==
  Weight(1) = 1 /\ \A n \in Nat \ {0} : Weight(n) \in Int
  <1>1. 2 ^ 0 = 1 /\ 7 * (1 - 1) = 0
    OBVIOUS
  <1>2. ASSUME NEW n \in Nat \ {0} PROVE Weight(n) \in Int
    <2> DEFINE m == 7 * (n - 1)
    <2>1. m \in Nat
      OBVIOUS
    <2> HIDE DEF m
    <2>2. 2 ^ m \in Int
      BY <2>1
    <2> QED
      BY <2>2, Zenon DEF m, Weight
  <1> QED
    BY <1>1, <1>2, Zenon DEF Weight

\* The weights of the bytes a varint may have.
LEMMA Weights ==
  /\ Weight(1) = 1 /\ Weight(2) = 128 /\ Weight(3) = 16384
  /\ Weight(4) = 2097152 /\ Weight(5) = 268435456
  <1> DEFINE P(e) == 2 ^ e
  <1>1. P(0) = 1 /\ P(7) = 128 /\ P(14) = 16384 /\ P(21) = 2097152 /\ P(28) = 268435456
    BY SMT
  <1>2. \A n : Weight(n) = P(7 * (n - 1))
    BY Zenon DEF Weight
  <1>3. /\ 7 * (1 - 1) = 0 /\ 7 * (2 - 1) = 7 /\ 7 * (3 - 1) = 14
        /\ 7 * (4 - 1) = 21 /\ 7 * (5 - 1) = 28
    OBVIOUS
  <1> HIDE DEF P
  <1> QED
    BY SMT, <1>1, <1>2, <1>3

\* What the first k bytes of a varint stand for.
ValueOf(input, k) ==
    (input[1] % 128)
    + (IF k >= 2 THEN (input[2] % 128) * Weight(2) ELSE 0)
    + (IF k >= 3 THEN (input[3] % 128) * Weight(3) ELSE 0)
    + (IF k >= 4 THEN (input[4] % 128) * Weight(4) ELSE 0)
    + (IF k >= 5 THEN (input[5] % 128) * Weight(5) ELSE 0)

\* The loop of decode_varint32, for an input in which it ends at byte k.
LEMMA DecodeLoop ==
  ASSUME NEW input \in Seq(Byte), NEW k \in 1 .. 5, StopByte(input) = {k}
  PROVE  DecodeVarint32(input) =
            IF Overflows(input, k) THEN [value |-> BadLen, offset |-> 0]
            ELSE [value |-> ValueOf(input, k), offset |-> k]
  <1> DEFINE N == Len(input)
             S == [n \in 0 .. N |-> Int]
             F == [n \in 1 .. N |-> [s \in Int |-> s + (input[n] % 128) * Weight(n)]]
             part == CHOOSE g : g = [n \in 0 .. N |->
                        IF n = 0 THEN 0
                        ELSE g[n - 1] + (input[n] % 128) * 2 ^ (7 * (n - 1))]
  <1>1. N \in Nat /\ DOMAIN input = 1 .. N /\ \A n \in 1 .. N : input[n] \in 0 .. 255
    BY ByteFacts
  <1>2. DecodeVarint32(input) =
           IF Overflows(input, k) THEN [value |-> BadLen, offset |-> 0]
           ELSE [value |-> part[k], offset |-> k]
    <2>1. (CHOOSE j \in StopByte(input) : TRUE) = k /\ StopByte(input) # {}
      OBVIOUS
    <2> QED
      BY <2>1 DEF DecodeVarint32
  <1>3. k \in 1 .. N
    BY <1>1 DEF StopByte
  <1>4. part = CHOOSE g : g = [n \in 0 .. N |->
                  IF n = 0 THEN 0 ELSE g[n - 1] + (input[n] % 128) * Weight(n)]
    BY Zenon DEF Weight
  <1> HIDE DEF N, part
  <1>5. \A n \in 1 .. N : input[n] % 128 \in Int /\ Weight(n) \in Int
    <2>1. \A n \in 1 .. N : n \in Nat \ {0}
      BY <1>1
    <2>2. \A x \in 0 .. 255 : x % 128 \in Int
      OBVIOUS
    <2> QED
      BY <1>1, <2>1, <2>2, WeightIsInt, Zenon
  <1>6. \A n \in 1 .. N : \A s \in Int : s + (input[n] % 128) * Weight(n) \in Int
    BY <1>5
  <1>7. PICK f : IsLoop(f, N, 0, F) /\ \A n \in 0 .. N : f[n] \in S[n]
    <2>1. /\ 0 \in S[0]
          /\ \A n \in 1 .. N : \A s \in S[n - 1] : F[n][s] \in S[n]
      BY <1>1, <1>6
    <2> HIDE DEF S, F
    <2> QED
      BY <1>1, <2>1, LoopStates
  <1>8. f = [n \in 0 .. N |-> IF n = 0 THEN 0 ELSE f[n - 1] + (input[n] % 128) * Weight(n)]
    <2>1. ASSUME NEW n \in 0 .. N
          PROVE  f[n] = IF n = 0 THEN 0 ELSE f[n - 1] + (input[n] % 128) * Weight(n)
      <3>1. CASE n = 0
        BY <1>7, <3>1 DEF IsLoop
      <3>2. CASE n \in 1 .. N
        <4>1. f[n] = F[n][f[n - 1]]
          BY <1>7, <3>2, Zenon DEF IsLoop
        <4>2. n - 1 \in 0 .. N
          BY <1>1, <3>2
        <4>3. f[n - 1] \in Int
          BY <1>7, <4>2
        <4> QED
          BY <1>1, <3>2, <4>1, <4>3
      <3> QED
        BY <1>1, <3>1, <3>2
    <2> QED
      BY <1>7, <2>1 DEF IsLoop
  <1>9. part = [n \in 0 .. N |->
                   IF n = 0 THEN 0 ELSE part[n - 1] + (input[n] % 128) * Weight(n)]
    BY <1>4, <1>8
  <1>10. /\ part[0] = 0
         /\ \A n \in 1 .. N : part[n] = part[n - 1] + (input[n] % 128) * Weight(n)
    BY <1>1, <1>9
  <1>11. \A n \in 1 .. k : /\ part[n] = part[n - 1] + (input[n] % 128) * Weight(n)
                           /\ input[n] % 128 \in Int /\ Weight(n) \in Int
    BY <1>3, <1>1, <1>5, <1>10
  <1>12. part[1] = input[1] % 128 /\ part[1] \in Int
    BY <1>10, <1>11, WeightIsInt
  <1>13. part[k] = ValueOf(input, k)
    <2> DEFINE a(n) == input[n] % 128
               t(n) == a(n) * Weight(n)
    <2>1. \A n \in 1 .. k : t(n) \in Int /\ part[n] = part[n - 1] + t(n)
      BY <1>11
    <2>2. ValueOf(input, k) = a(1) + (IF k >= 2 THEN t(2) ELSE 0)
             + (IF k >= 3 THEN t(3) ELSE 0) + (IF k >= 4 THEN t(4) ELSE 0)
             + (IF k >= 5 THEN t(5) ELSE 0)
      BY DEF ValueOf
    <2>0. part[1] = a(1)
      BY <1>12
    <2> HIDE DEF t, a
    <2>3. k >= 2 => part[2] = part[1] + t(2) /\ part[2] \in Int /\ t(2) \in Int
      BY <1>12, <2>1
    <2>4. k >= 3 => part[3] = part[2] + t(3) /\ part[3] \in Int /\ t(3) \in Int
      BY <2>1, <2>3
    <2>5. k >= 4 => part[4] = part[3] + t(4) /\ part[4] \in Int /\ t(4) \in Int
      BY <2>1, <2>4
    <2>6. k >= 5 => part[5] = part[4] + t(5) /\ t(5) \in Int
      BY <2>1, <2>5
    <2>7. a(1) \in Int
      BY <1>12, <2>0
    <2>8. CASE k = 1
      BY <2>0, <2>2, <2>7, <2>8
    <2>9. CASE k = 2
      BY <2>0, <2>2, <2>3, <2>7, <2>9
    <2>10. CASE k = 3
      BY <2>0, <2>2, <2>3, <2>4, <2>7, <2>10
    <2>11. CASE k = 4
      BY <2>0, <2>2, <2>3, <2>4, <2>5, <2>7, <2>11
    <2>12. CASE k = 5
      <3>1. ValueOf(input, k) = part[1] + t(2) + t(3) + t(4) + t(5)
        BY <2>0, <2>2, <2>12
      <3>2. part[5] = part[4] + t(5) /\ part[4] = part[1] + t(2) + t(3) + t(4)
        BY <1>12, <2>3, <2>4, <2>5, <2>6, <2>12
      <3> QED
        BY <2>12, <3>1, <3>2
    <2>13. k = 1 \/ k = 2 \/ k = 3 \/ k = 4 \/ k = 5
      OBVIOUS
    <2> QED
      BY <2>8, <2>9, <2>10, <2>11, <2>12, <2>13, Zenon
  <1> QED
    BY <1>2, <1>13

\* What is left of a number after some shifts.
LEMMA ShiftedValues ==
  ASSUME NEW v \in Nat
  PROVE  /\ Shifted(v, 0) = v /\ Shifted(v, 1) = v \div 128 /\ Shifted(v, 2) = v \div 16384
         /\ Shifted(v, 3) = v \div 2097152 /\ Shifted(v, 4) = v \div 268435456
  <1> DEFINE P(e) == 2 ^ e
  <1>1. P(0) = 1 /\ P(7) = 128 /\ P(14) = 16384 /\ P(21) = 2097152 /\ P(28) = 268435456
    BY SMT
  <1>2. \A k : Shifted(v, k) = v \div P(7 * k)
    BY Zenon DEF Shifted
  <1>3. 7 * 0 = 0 /\ 7 * 1 = 7 /\ 7 * 2 = 14 /\ 7 * 3 = 21 /\ 7 * 4 = 28
    OBVIOUS
  <1> HIDE DEF P
  <1>4. /\ Shifted(v, 0) = v \div P(0) /\ Shifted(v, 1) = v \div P(7)
        /\ Shifted(v, 2) = v \div P(14) /\ Shifted(v, 3) = v \div P(21)
        /\ Shifted(v, 4) = v \div P(28)
    BY SMT, <1>2, <1>3
  <1> QED
    BY SMT, <1>1, <1>4

\* The seven bits of byte k of a number.
Digit(v, k) == Shifted(v, k - 1) % 128

\* A number of 32 bits is made of the bits of as many bytes as length_of says, or of
\* more; the fifth has four bits.
LEMMA DigitSum ==
  ASSUME NEW v \in Nat, Shifted(v, 4) < 16, NEW off \in LengthOf(v) .. 5
  PROVE  /\ off \in 1 .. 5
         /\ \A k \in 1 .. 5 : Digit(v, k) \in 0 .. 127
         /\ Digit(v, 5) < 16
         /\ v = Digit(v, 1)
                + (IF off >= 2 THEN Digit(v, 2) * Weight(2) ELSE 0)
                + (IF off >= 3 THEN Digit(v, 3) * Weight(3) ELSE 0)
                + (IF off >= 4 THEN Digit(v, 4) * Weight(4) ELSE 0)
                + (IF off >= 5 THEN Digit(v, 5) * Weight(5) ELSE 0)
  <1>1. /\ Digit(v, 1) = v % 128 /\ Digit(v, 2) = (v \div 128) % 128
        /\ Digit(v, 3) = (v \div 16384) % 128 /\ Digit(v, 4) = (v \div 2097152) % 128
        /\ Digit(v, 5) = (v \div 268435456) % 128
    <2>1. /\ Digit(v, 1) = Shifted(v, 0) % 128 /\ Digit(v, 2) = Shifted(v, 1) % 128
          /\ Digit(v, 3) = Shifted(v, 2) % 128 /\ Digit(v, 4) = Shifted(v, 3) % 128
          /\ Digit(v, 5) = Shifted(v, 4) % 128
      BY SMT DEF Digit
    <2> QED
      BY SMT, <2>1, ShiftedValues
  <1>2. v \div 268435456 < 16
    BY SMT, ShiftedValues
  <1>3. /\ off \in 1 .. 5
        /\ off < 2 => v < 128
        /\ off < 3 => v < 16384
        /\ off < 4 => v < 2097152
        /\ off < 5 => v < 268435456
    BY SMT DEF LengthOf
  <1>4. \A k \in 1 .. 5 : Digit(v, k) \in 0 .. 127
    BY SMT, <1>1
  <1>5. Digit(v, 5) < 16
    BY SMT, <1>1, <1>2
  <1>6. v = (v % 128) + (IF off >= 2 THEN ((v \div 128) % 128) * 128 ELSE 0)
            + (IF off >= 3 THEN ((v \div 16384) % 128) * 16384 ELSE 0)
            + (IF off >= 4 THEN ((v \div 2097152) % 128) * 2097152 ELSE 0)
            + (IF off >= 5 THEN ((v \div 268435456) % 128) * 268435456 ELSE 0)
    BY SMT, <1>2, <1>3
  <1> QED
    BY SMT, <1>1, <1>3, <1>4, <1>5, <1>6, Weights

\* decode_varint32 on an input that starts with a number as encode writes it, or with
\* more bytes than it needs; or that ends before all of them.
LEMMA VarintDecoded ==
  ASSUME NEW input \in Seq(Byte), NEW v \in Nat, Shifted(v, 4) < 16,
         NEW off \in LengthOf(v) .. 5,
         \A k \in 1 .. off : k <= Len(input) =>
            input[k] = Digit(v, k) + IF k < off THEN 128 ELSE 0
  PROVE  DecodeVarint32(input) =
            IF off <= Len(input) THEN [value |-> v, offset |-> off]
            ELSE [value |-> NoLen, offset |-> 0]
  <1> DEFINE N == Len(input)
             Stops1(k) == Overflows(input, k) \/ input[k] < 128
  <1>1. N \in Nat /\ DOMAIN input = 1 .. N
    BY ByteFacts
  <1>2. /\ off \in 1 .. 5 /\ \A k \in 1 .. 5 : Digit(v, k) \in 0 .. 127
        /\ Digit(v, 5) < 16
    BY DigitSum
  <1>3. StopByte(input) = {k \in 1 .. N : Stops1(k) /\ \A j \in 1 .. k - 1 : ~Stops1(j)}
    BY <1>1 DEF StopByte
  <1>4. \A k \in 1 .. N : k < off => ~Stops1(k)
    <2> SUFFICES ASSUME NEW k \in 1 .. N, k < off PROVE ~Stops1(k)
      OBVIOUS
    <2>1. k \in 1 .. off /\ k <= N /\ ~(k >= 5) /\ k \in 1 .. 5
      BY <1>1, <1>2
    <2>2. input[k] = Digit(v, k) + 128
      BY <2>1
    <2>3. Digit(v, k) \in 0 .. 127
      BY <1>2, <2>1, Zenon
    <2>4. \A d \in 0 .. 127 : ~(d + 128 < 128)
      OBVIOUS
    <2> QED
      BY <2>1, <2>2, <2>3, <2>4, Zenon DEF Overflows
  <1>5. off <= N => Stops1(off) /\ ~Overflows(input, off)
    <2> SUFFICES ASSUME off <= N PROVE input[off] < 128 /\ ~(off >= 5 /\ input[off] >= 16)
      BY DEF Overflows
    <2>1. input[off] = Digit(v, off) + 0
      BY <1>1, <1>2
    <2>2. Digit(v, off) \in 0 .. 127
      BY <1>2, Zenon
    <2>3. off >= 5 => Digit(v, off) < 16
      BY <1>2
    <2> HIDE DEF N
    <2>4. \A d \in 0 .. 127 : d + 0 < 128 /\ (d < 16 => ~(d + 0 >= 16))
      OBVIOUS
    <2> QED
      BY <2>1, <2>2, <2>3, <2>4, Zenon
  <1> HIDE DEF N, Stops1
  <1>6. CASE off <= N
    <2>1. StopByte(input) = {off}
      BY <1>1, <1>2, <1>3, <1>4, <1>5, <1>6
    <2>2. DecodeVarint32(input) = [value |-> ValueOf(input, off), offset |-> off]
      BY <1>2, <1>5, <1>6, <2>1, DecodeLoop
    <2>3. \A k \in 1 .. off : input[k] % 128 = Digit(v, k)
      <3> SUFFICES ASSUME NEW k \in 1 .. off PROVE input[k] % 128 = Digit(v, k)
        OBVIOUS
      <3>1. input[k] = Digit(v, k) + IF k < off THEN 128 ELSE 0
        BY <1>1, <1>2, <1>6 DEF N
      <3>2. k \in 1 .. 5
        BY <1>2
      <3>3. Digit(v, k) \in 0 .. 127
        BY <1>2, <3>2, Zenon
      <3>4. \A d \in 0 .. 127 : (d + 128) % 128 = d /\ (d + 0) % 128 = d
        OBVIOUS
      <3> QED
        BY <3>1, <3>3, <3>4, Zenon
    <2>4. ValueOf(input, off) = v
      <3>1. v = Digit(v, 1)
                + (IF off >= 2 THEN Digit(v, 2) * Weight(2) ELSE 0)
                + (IF off >= 3 THEN Digit(v, 3) * Weight(3) ELSE 0)
                + (IF off >= 4 THEN Digit(v, 4) * Weight(4) ELSE 0)
                + (IF off >= 5 THEN Digit(v, 5) * Weight(5) ELSE 0)
        BY DigitSum
      <3>2. /\ input[1] % 128 = Digit(v, 1)
            /\ off >= 2 => input[2] % 128 = Digit(v, 2)
            /\ off >= 3 => input[3] % 128 = Digit(v, 3)
            /\ off >= 4 => input[4] % 128 = Digit(v, 4)
            /\ off >= 5 => input[5] % 128 = Digit(v, 5)
        BY <1>2, <2>3
      <3> DEFINE T(n, d) == IF off >= n THEN d * Weight(n) ELSE 0
      <3>3. /\ T(2, input[2] % 128) = T(2, Digit(v, 2))
            /\ T(3, input[3] % 128) = T(3, Digit(v, 3))
            /\ T(4, input[4] % 128) = T(4, Digit(v, 4))
            /\ T(5, input[5] % 128) = T(5, Digit(v, 5))
        BY <3>2, Zenon
      <3>4. v = Digit(v, 1) + T(2, Digit(v, 2)) + T(3, Digit(v, 3)) + T(4, Digit(v, 4))
                + T(5, Digit(v, 5))
        BY <3>1, Zenon
      <3>5. ValueOf(input, off) =
               (input[1] % 128) + T(2, input[2] % 128) + T(3, input[3] % 128)
               + T(4, input[4] % 128) + T(5, input[5] % 128)
        BY Zenon DEF ValueOf
      <3> HIDE DEF T
      <3> QED
        BY <3>2, <3>3, <3>4, <3>5, Zenon
    <2> QED
      BY <1>6, <2>2, <2>4 DEF N
  <1>7. CASE ~(off <= N)
    <2>1. StopByte(input) = {}
      BY <1>1, <1>2, <1>3, <1>4, <1>7
    <2> QED
      BY <1>7, <2>1 DEF N, DecodeVarint32
  <1> QED
    BY <1>6, <1>7

\* decode_varint32 on five bytes that do not fit 32 bits, or on the first of them.
LEMMA BadVarintDecoded ==
  ASSUME NEW input \in Seq(Byte), \A k \in 1 .. 5 : k <= Len(input) => input[k] = 255
  PROVE  DecodeVarint32(input) =
            IF 5 <= Len(input) THEN [value |-> BadLen, offset |-> 0]
            ELSE [value |-> NoLen, offset |-> 0]
  <1> DEFINE N == Len(input)
             Stops1(k) == Overflows(input, k) \/ input[k] < 128
  <1>1. N \in Nat /\ DOMAIN input = 1 .. N
    BY ByteFacts
  <1>2. StopByte(input) = {k \in 1 .. N : Stops1(k) /\ \A j \in 1 .. k - 1 : ~Stops1(j)}
    BY <1>1 DEF StopByte
  <1>3. \A k \in 1 .. N : k < 5 => ~Stops1(k)
    BY <1>1 DEF Overflows
  <1>4. 5 <= N => Stops1(5) /\ Overflows(input, 5)
    BY <1>1 DEF Overflows
  <1> HIDE DEF N, Stops1
  <1>5. CASE 5 <= N
    <2>1. StopByte(input) = {5}
      BY <1>1, <1>2, <1>3, <1>4, <1>5
    <2> QED
      BY <1>4, <1>5, <2>1, DecodeLoop DEF N
  <1>6. CASE ~(5 <= N)
    <2>1. StopByte(input) = {}
      BY <1>1, <1>2, <1>3, <1>6
    <2> QED
      BY <1>6, <2>1 DEF N, DecodeVarint32
  <1> QED
    BY <1>5, <1>6

\* The bytes of a number, in `off` bytes.
Varint(v, off) == [k \in 1 .. off |-> Digit(v, k) + IF k < off THEN 128 ELSE 0]

\* They are bytes.
LEMMA VarintBytes ==
  ASSUME NEW v \in Nat, Shifted(v, 4) < 16, NEW off \in LengthOf(v) .. 5
  PROVE  /\ off \in 1 .. 5
         /\ Varint(v, off) \in Seq(Byte) /\ Len(Varint(v, off)) = off
         /\ \A k \in 1 .. off :
               Varint(v, off)[k] = Digit(v, k) + IF k < off THEN 128 ELSE 0
  <1>1. off \in 1 .. 5 /\ \A k \in 1 .. 5 : Digit(v, k) \in 0 .. 127
    BY DigitSum
  <1>2. \A d \in 0 .. 127 : d + 128 \in Byte /\ d + 0 \in Byte
    BY DEF Byte
  <1>3. \A k \in 1 .. off : k \in 1 .. 5
    BY <1>1
  <1>4. \A k \in 1 .. off : (Digit(v, k) + IF k < off THEN 128 ELSE 0) \in Byte
    BY <1>1, <1>2, <1>3, Zenon
  <1>5. Varint(v, off) \in [1 .. off -> Byte]
    BY <1>4, Zenon DEF Varint
  <1>6. off \in Nat
    BY <1>1
  <1>7. Varint(v, off) \in Seq(Byte) /\ Len(Varint(v, off)) = off
    BY <1>5, <1>6
  <1> QED
    BY <1>1, <1>7, Zenon DEF Varint

\* Varint32::encode takes the bytes that length_of says.
LEMMA EncodeIsVarint ==
  ASSUME NEW v \in Nat, Shifted(v, 4) < 16
  PROVE  LengthOf(v) \in 1 .. 5 /\ Encode(v) = Varint(v, LengthOf(v))
  <1> DEFINE Q(n) == /\ n = VarintMaxLen \/ Shifted(v, n) = 0
                     /\ \A m \in 1 .. n - 1 : Shifted(v, m) > 0
             count == CHOOSE n \in 1 .. VarintMaxLen : Q(n)
             len == LengthOf(v)
  <1>1. /\ 1 < len => v >= 128
        /\ 1 >= len => v < 128
        /\ 2 < len => v >= 16384
        /\ 2 >= len => v < 16384
        /\ 3 < len => v >= 2097152
        /\ 3 >= len => v < 2097152
        /\ 4 < len => v >= 268435456
        /\ 4 >= len => v < 268435456
    BY SMT DEF LengthOf
  <1>2. \A n \in 1 .. 4 : /\ Shifted(v, n) \in Nat
                          /\ n < len => Shifted(v, n) > 0
                          /\ n >= len => Shifted(v, n) = 0
    <2> HIDE DEF len
    <2> DEFINE R(n) == /\ Shifted(v, n) \in Nat
                       /\ n < len => Shifted(v, n) > 0
                       /\ n >= len => Shifted(v, n) = 0
    <2>1. R(1)
      <3>1. Shifted(v, 1) = v \div 128
        BY SMT, ShiftedValues
      <3>2. v >= 128 => v \div 128 > 0
        BY SMT
      <3>3. v < 128 => v \div 128 = 0
        BY SMT
      <3>4. v \div 128 \in Nat
        BY SMT
      <3> QED
        BY SMT, <1>1, <3>1, <3>2, <3>3, <3>4
    <2>2. R(2)
      <3>1. Shifted(v, 2) = v \div 16384
        BY SMT, ShiftedValues
      <3>2. v >= 16384 => v \div 16384 > 0
        BY SMT
      <3>3. v < 16384 => v \div 16384 = 0
        BY SMT
      <3>4. v \div 16384 \in Nat
        BY SMT
      <3> QED
        BY SMT, <1>1, <3>1, <3>2, <3>3, <3>4
    <2>3. R(3)
      <3>1. Shifted(v, 3) = v \div 2097152
        BY SMT, ShiftedValues
      <3>2. v >= 2097152 => v \div 2097152 > 0
        BY SMT
      <3>3. v < 2097152 => v \div 2097152 = 0
        BY SMT
      <3>4. v \div 2097152 \in Nat
        BY SMT
      <3> QED
        BY SMT, <1>1, <3>1, <3>2, <3>3, <3>4
    <2>4. R(4)
      <3>1. Shifted(v, 4) = v \div 268435456
        BY SMT, ShiftedValues
      <3>2. v >= 268435456 => v \div 268435456 > 0
        BY SMT
      <3>3. v < 268435456 => v \div 268435456 = 0
        BY SMT
      <3>4. v \div 268435456 \in Nat
        BY SMT
      <3> QED
        BY SMT, <1>1, <3>1, <3>2, <3>3, <3>4
    <2> HIDE DEF R
    <2>5. \A n \in 1 .. 4 : n = 1 \/ n = 2 \/ n = 3 \/ n = 4
      OBVIOUS
    <2>6. \A n \in 1 .. 4 : R(n)
      BY <2>1, <2>2, <2>3, <2>4, <2>5, Zenon
    <2> QED
      BY <2>6, Zenon DEF R
  <1>3. len \in 1 .. 5
    BY SMT DEF LengthOf
  <1> HIDE DEF len
  <1>4. Q(len)
    <2>1. len = 5 \/ Shifted(v, len) = 0
      BY SMT, <1>2, <1>3
    <2>2. \A m \in 1 .. len - 1 : m \in 1 .. 4 /\ m < len
      BY SMT, <1>3
    <2> QED
      BY <1>2, <2>1, <2>2, Zenon DEF VarintMaxLen
  <1>5. ASSUME NEW n \in 1 .. 5, Q(n) PROVE n = len
    <2>1. CASE n < len
      <3>1. n \in 1 .. 4 /\ n # VarintMaxLen
        BY SMT, <1>3, <2>1 DEF VarintMaxLen
      <3>2. Shifted(v, n) > 0 /\ Shifted(v, n) = 0
        BY <1>2, <1>5, <2>1, <3>1, Zenon
      <3> QED
        BY SMT, <3>2
    <2>2. CASE n > len
      <3>1. len \in 1 .. 4 /\ len \in 1 .. n - 1 /\ len >= len
        BY SMT, <1>3, <2>2
      <3>2. Shifted(v, len) > 0 /\ Shifted(v, len) = 0
        BY <1>2, <1>5, <3>1, Zenon
      <3> QED
        BY SMT, <3>2
    <2> QED
      BY SMT, <1>3, <2>1, <2>2
  <1>6. count = len
    <2>1. 1 .. VarintMaxLen = 1 .. 5
      BY DEF VarintMaxLen
    <2> HIDE DEF Q
    <2> QED
      BY <1>3, <1>4, <1>5, <2>1, Zenon
  <1>7. Encode(v) = [k \in 1 .. count |-> Digit(v, k) + IF k < count THEN 128 ELSE 0]
    BY Zenon DEF Encode, Digit
  <1> QED
    BY <1>3, <1>6, <1>7, Zenon DEF Varint, len

\* For every number of 32 bits.
LEMMA VarintDecodes ==
  ASSUME NEW v \in Nat, Shifted(v, 4) < 16
  PROVE  LET bytes == Encode(v) IN
         /\ Len(bytes) = LengthOf(v)
         /\ DecodeVarint32(bytes \o <<255>>) = [value |-> v, offset |-> Len(bytes)]
         /\ \A k \in 0 .. Len(bytes) - 1 : DecodeVarint32(SubSeq(bytes, 1, k)).value = NoLen
  <1> DEFINE bytes == Encode(v)
             off == LengthOf(v)
  <1>1. off \in 1 .. 5 /\ bytes = Varint(v, off)
    BY EncodeIsVarint
  <1>2. off \in LengthOf(v) .. 5
    BY <1>1
  <1>3. /\ bytes \in Seq(Byte) /\ Len(bytes) = off
        /\ \A k \in 1 .. off : bytes[k] = Digit(v, k) + IF k < off THEN 128 ELSE 0
    BY <1>1, <1>2, VarintBytes
  <1> HIDE DEF bytes
  <1>4. DecodeVarint32(bytes \o <<255>>) = [value |-> v, offset |-> off]
    <2> DEFINE input == bytes \o <<255>>
    <2>1. 255 \in Byte
      BY DEF Byte
    <2>2. /\ input \in Seq(Byte) /\ Len(input) = off + 1
          /\ \A k \in 1 .. off : input[k] = bytes[k]
      <3> HIDE DEF off
      <3> QED
        BY <1>1, <1>3, <2>1
    <2> HIDE DEF input
    <2>3. \A k \in 1 .. off : k <= Len(input) =>
              input[k] = Digit(v, k) + IF k < off THEN 128 ELSE 0
      BY <1>3, <2>2
    <2>4. off <= Len(input)
      BY <1>1, <2>2
    <2> QED
      BY <1>2, <2>2, <2>3, <2>4, VarintDecoded DEF input
  <1>5. ASSUME NEW k \in 0 .. off - 1
        PROVE  DecodeVarint32(SubSeq(bytes, 1, k)).value = NoLen
    <2> DEFINE input == SubSeq(bytes, 1, k)
    <2>1. /\ input \in Seq(Byte) /\ Len(input) = k
          /\ \A j \in 1 .. k : input[j] = bytes[j]
      <3> HIDE DEF off
      <3> QED
        BY <1>1, <1>3
    <2> HIDE DEF input
    <2>2. \A j \in 1 .. off : j <= Len(input) =>
              input[j] = Digit(v, j) + IF j < off THEN 128 ELSE 0
      BY <1>1, <1>3, <2>1
    <2>3. ~(off <= Len(input))
      BY <1>1, <2>1
    <2>4. DecodeVarint32(input) = [value |-> NoLen, offset |-> 0]
      BY <1>2, <2>1, <2>2, <2>3, VarintDecoded
    <2> QED
      BY <2>4 DEF input
  <1> QED
    BY <1>3, <1>4, <1>5 DEF bytes

\* decode_varint32 gives back every number that encode was given, for all numbers of
\* 32 bits.
THEOREM VarintsRoundTrip == Spec => []VarintRoundTrip
  <1>1. VarintRoundTrip
    <2>1. \A v \in VarintValues : v \in Nat /\ Shifted(v, 4) < 16
      BY FramingAssumption
    <2> QED
      BY <2>1, VarintDecodes DEF VarintRoundTrip
  <1> QED
    BY <1>1, PTL

-----------------------------------------------------------------------------
(* Every header survives, and nothing else is one.                          *)

\* No two discriminants stand for the same kind.
LEMMA Discriminants ==
  /\ \A d \in 0 .. 5 : /\ KindBytes[d + 1] \in Kind
                       /\ Discriminant(KindBytes, KindBytes[d + 1]) = d
  /\ \A d \in 0 .. 13 : /\ ErrorKindBytes[d + 1] \in ErrorKind
                        /\ Discriminant(ErrorKindBytes, ErrorKindBytes[d + 1]) = d
  <1>1. ASSUME NEW d \in 0 .. 5
        PROVE  KindBytes[d + 1] \in Kind /\ Discriminant(KindBytes, KindBytes[d + 1]) = d
    <2>1. KindBytes[d + 1] \in Kind
      BY DEF KindBytes, Kind
    <2> DEFINE e == Discriminant(KindBytes, KindBytes[d + 1])
    <2>2. e \in 0 .. 5 /\ KindBytes[e + 1] = KindBytes[d + 1]
      BY <2>1, KindDiscriminant
    <2> HIDE DEF e
    <2>3. e = d
      BY <2>2 DEF KindBytes
    <2> QED
      BY <2>1, <2>3 DEF e
  <1>2. ASSUME NEW d \in 0 .. 13
        PROVE  /\ ErrorKindBytes[d + 1] \in ErrorKind
               /\ Discriminant(ErrorKindBytes, ErrorKindBytes[d + 1]) = d
    <2>1. ErrorKindBytes[d + 1] \in ErrorKind
      BY DEF ErrorKindBytes, ErrorKind
    <2> DEFINE e == Discriminant(ErrorKindBytes, ErrorKindBytes[d + 1])
    <2>2. e \in 0 .. 13 /\ ErrorKindBytes[e + 1] = ErrorKindBytes[d + 1]
      BY <2>1, ErrorKindDiscriminant
    <2> HIDE DEF e
    <2>3. e = d
      BY <2>2 DEF ErrorKindBytes
    <2> QED
      BY <2>1, <2>3 DEF e
  <1> QED
    BY <1>1, <1>2

\* The kind byte of a header.
LEMMA RawKinds ==
  /\ \A kind \in Kind : RawKind(kind) = Discriminant(KindBytes, kind)
  /\ \A kind \in ErrorKind : RawKind(kind) = 128 + Discriminant(ErrorKindBytes, kind)
  <1>1. Kind \cap ErrorKind = {}
    BY DEF Kind, ErrorKind
  <1> QED
    BY <1>1 DEF RawKind, HeaderBytes, Header

\* A header with any reserved bits is parsed.
LEMMA ReservedBitsIgnored ==
  ASSUME NEW kind \in WireKinds, NEW reserved \in 0 .. 7, NEW id \in Nat
  PROVE  Parse(RawHeader(RawKind(kind) + 16 * reserved, id)) = Header(kind, 7, id)
  <1> DEFINE raw == RawKind(kind) + 16 * reserved
             b == RawHeader(raw, id)
  <1>1. b[1] = raw /\ b[2] = 7 /\ b[3] = id % 256 /\ b[4] = id \div 256
    BY DEF RawHeader
  <1>2. HeaderId(b) = id
    BY <1>1 DEF HeaderId
  <1> HIDE DEF b
  <1>3. CASE kind \in Kind
    <2>1. b[1] = Discriminant(KindBytes, kind) + 16 * reserved
      BY <1>1, <1>3, RawKinds
    <2>2. Parse(b) = Header(kind, b[2], HeaderId(b))
      BY <1>3, <2>1, KindByteParsed
    <2> QED
      BY <1>1, <1>2, <2>2 DEF b
  <1>4. CASE kind \in ErrorKind
    <2>1. b[1] = 128 + Discriminant(ErrorKindBytes, kind) + 16 * reserved
      BY <1>1, <1>4, RawKinds
    <2>2. Parse(b) = Header(kind, b[2], HeaderId(b))
      BY <1>4, <2>1, ErrorKindByteParsed
    <2> QED
      BY <1>1, <1>2, <2>2 DEF b
  <1> QED
    BY <1>3, <1>4 DEF WireKinds

\* What is parsed as a header has the kind byte of one.
LEMMA NothingElseParsed ==
  ASSUME NEW raw \in Byte, Parse(RawHeader(raw, 0)) # NoHeader
  PROVE  \E kind \in WireKinds, reserved \in 0 .. 7 : raw = RawKind(kind) + 16 * reserved
  <1> DEFINE b == RawHeader(raw, 0)
             k == KindByte(raw)
             d == raw % 16
  <1>1. raw \in 0 .. 255
    BY DEF Byte
  <1>2. b[1] = raw
    BY DEF RawHeader
  <1>3. /\ Len(KindBytes) = 6 /\ Len(ErrorKindBytes) = 14
    BY DEF KindBytes, ErrorKindBytes
  <1>4. IF k >= 128 THEN k % 16 < 14 ELSE k % 8 < 6 /\ k % 8 = k
    BY <1>2, <1>3, Zenon DEF Parse
  <1>5. CASE k >= 128
    <2> DEFINE r == (raw - 128) \div 16
    <2>1. d \in 0 .. 13 /\ r \in 0 .. 7 /\ raw = 128 + d + 16 * r
      BY <1>1, <1>4, <1>5 DEF KindByte
    <2> HIDE DEF d, r
    <2> DEFINE kind == ErrorKindBytes[d + 1]
    <2>2. kind \in ErrorKind /\ Discriminant(ErrorKindBytes, kind) = d
      BY <2>1, Discriminants
    <2> HIDE DEF kind
    <2>3. RawKind(kind) = 128 + d
      BY <2>2, RawKinds
    <2> QED
      BY <2>1, <2>2, <2>3 DEF WireKinds
  <1>6. CASE ~(k >= 128)
    <2> DEFINE r == raw \div 16
    <2>1. d \in 0 .. 5 /\ r \in 0 .. 7 /\ raw = d + 16 * r
      BY <1>1, <1>4, <1>6 DEF KindByte
    <2> HIDE DEF d, r
    <2> DEFINE kind == KindBytes[d + 1]
    <2>2. kind \in Kind /\ Discriminant(KindBytes, kind) = d
      BY <2>1, Discriminants
    <2> HIDE DEF kind
    <2>3. RawKind(kind) = d
      BY <2>2, RawKinds
    <2> QED
      BY <2>1, <2>2, <2>3 DEF WireKinds
  <1> QED
    BY <1>5, <1>6

\* Header::parse gives back every header, whatever the reserved bits, and accepts no
\* other kind byte.
THEOREM HeadersRoundTrip == Spec => []HeaderRoundTrip
  <1>1. HeaderRoundTrip
    <2>1. \A id \in {1, 300, 65535} : id \in Nat
      OBVIOUS
    <2>2. \A kind \in WireKinds, reserved \in 0 .. 7, id \in {1, 300, 65535} :
              Parse(RawHeader(RawKind(kind) + 16 * reserved, id)) = Header(kind, 7, id)
      BY <2>1, ReservedBitsIgnored
    <2> QED
      BY <2>2, NothingElseParsed DEF HeaderRoundTrip
  <1> QED
    BY <1>1, PTL

-----------------------------------------------------------------------------
(* Frames one after the other.                                              *)

\* Concatenation is associative.
LEMMA ByteAssoc == \A s, t, u \in Seq(Byte) : (s \o t) \o u = s \o (t \o u)
  BY ConcatAssociative

\* f is what the bytes of the first n frames are, for every n.
IsBytes(f, frames) ==
    /\ f \in [0 .. Len(frames) -> Seq(Byte)]
    /\ f[0] = <<>>
    /\ \A n \in 1 .. Len(frames) : f[n] = f[n - 1] \o frames[n]
    /\ Bytes(frames) = f[Len(frames)]

\* Bytes puts its frames together one by one.
LEMMA BytesLoop ==
  ASSUME NEW frames \in Seq(Seq(Byte))
  PROVE  \E f : IsBytes(f, frames)
  <1> DEFINE N == Len(frames)
             S == [n \in 0 .. N |-> Seq(Byte)]
             F == [n \in 1 .. N |-> [s \in Seq(Byte) |-> s \o frames[n]]]
             upto == CHOOSE g : g = [n \in 0 .. N |->
                        IF n = 0 THEN <<>> ELSE g[n - 1] \o frames[n]]
  <1>1. N \in Nat /\ \A n \in 1 .. N : frames[n] \in Seq(Byte)
    BY ElementOfSeq
  <1>2. Bytes(frames) = upto[N]
    BY DEF Bytes
  <1> HIDE DEF N
  <1>3. \A n \in 1 .. N : \A s \in Seq(Byte) : s \o frames[n] \in Seq(Byte)
    BY <1>1
  <1>4. PICK f : IsLoop(f, N, <<>>, F) /\ \A n \in 0 .. N : f[n] \in S[n]
    <2>1. \A n \in 1 .. N : n \in 0 .. N /\ n - 1 \in 0 .. N
      BY <1>1
    <2>2. 0 \in 0 .. N /\ <<>> \in Seq(Byte)
      BY <1>1
    <2>3. \A n \in 0 .. N : S[n] = Seq(Byte)
      BY Zenon
    <2>4. \A n \in 1 .. N : \A s \in Seq(Byte) : F[n][s] = s \o frames[n]
      BY Zenon
    <2>5. /\ <<>> \in S[0]
          /\ \A n \in 1 .. N : \A s \in S[n - 1] : F[n][s] \in S[n]
      <3>1. ASSUME NEW n \in 1 .. N, NEW s \in S[n - 1] PROVE F[n][s] \in S[n]
        <4>1. s \in Seq(Byte)
          BY <2>1, <2>3, Zenon
        <4>2. F[n][s] \in Seq(Byte)
          BY <1>3, <2>4, <4>1, Zenon
        <4> QED
          BY <2>1, <2>3, <4>2, Zenon
      <3> QED
        BY <2>2, <2>3, <3>1, Zenon
    <2> HIDE DEF S, F
    <2> QED
      BY <1>1, <2>5, LoopStates
  <1>5. \A n \in 0 .. N : f[n] \in Seq(Byte)
    BY <1>4
  <1>6. f = [n \in 0 .. N |-> IF n = 0 THEN <<>> ELSE f[n - 1] \o frames[n]]
    <2>1. ASSUME NEW n \in 0 .. N
          PROVE  f[n] = IF n = 0 THEN <<>> ELSE f[n - 1] \o frames[n]
      <3>1. CASE n = 0
        BY <1>4, <3>1 DEF IsLoop
      <3>2. CASE n \in 1 .. N
        <4>1. f[n] = F[n][f[n - 1]]
          BY <1>4, <3>2, Zenon DEF IsLoop
        <4>2. n - 1 \in 0 .. N /\ n # 0
          BY <1>1, <3>2
        <4>3. f[n - 1] \in Seq(Byte)
          BY <1>5, <4>2
        <4> QED
          BY <3>2, <4>1, <4>2, <4>3, Zenon
      <3> QED
        BY <1>1, <3>1, <3>2
    <2> QED
      BY <1>4, <2>1 DEF IsLoop
  <1>7. upto = [n \in 0 .. N |-> IF n = 0 THEN <<>> ELSE upto[n - 1] \o frames[n]]
    BY <1>6
  <1> HIDE DEF upto
  <1> DEFINE T == {n \in 0 .. N : upto[n] = f[n]}
  <1>8. 0 \in T /\ \A n \in 1 .. N : n - 1 \in T => n \in T
    BY <1>1, <1>6, <1>7
  <1>9. 0 .. N \subseteq T
    <2> HIDE DEF T
    <2> QED
      BY <1>1, <1>8, EveryTurn
  <1>10. Bytes(frames) = f[N]
    BY <1>1, <1>2, <1>9
  <1>11. f \in [0 .. N -> Seq(Byte)]
    BY <1>4, <1>5 DEF IsLoop
  <1>12. f[0] = <<>> /\ \A n \in 1 .. N : f[n] = f[n - 1] \o frames[n]
    <2>1. 0 \in 0 .. N /\ \A n \in 1 .. N : n \in 0 .. N /\ n # 0
      BY <1>1
    <2> QED
      BY <1>6, <2>1, Zenon
  <1> QED
    BY <1>10, <1>11, <1>12 DEF IsBytes, N

\* The bytes of no frame.
LEMMA BytesEmpty == Bytes(<<>>) = <<>>
  <1>1. <<>> \in Seq(Seq(Byte)) /\ Len(<<>>) = 0
    OBVIOUS
  <1>2. PICK f : IsBytes(f, <<>>)
    BY <1>1, BytesLoop
  <1> QED
    BY <1>1, <1>2 DEF IsBytes

\* They are bytes.
LEMMA BytesType ==
  ASSUME NEW frames \in Seq(Seq(Byte))
  PROVE  Bytes(frames) \in Seq(Byte)
  <1>1. PICK f : IsBytes(f, frames)
    BY BytesLoop
  <1>2. Len(frames) \in Nat /\ Len(frames) \in 0 .. Len(frames)
    BY LenProperties
  <1> QED
    BY <1>1, <1>2 DEF IsBytes

\* A frame more at the end.
LEMMA BytesAppend ==
  ASSUME NEW frames \in Seq(Seq(Byte)), NEW x \in Seq(Byte)
  PROVE  Bytes(Append(frames, x)) = Bytes(frames) \o x
  <1> DEFINE N == Len(frames)
             more == Append(frames, x)
  <1>1. /\ N \in Nat /\ more \in Seq(Seq(Byte)) /\ Len(more) = N + 1
        /\ \A n \in 1 .. N : more[n] = frames[n]
        /\ more[N + 1] = x
    BY AppendProperties
  <1> HIDE DEF more
  <1>2. PICK f : IsBytes(f, frames)
    BY BytesLoop
  <1>3. PICK g : IsBytes(g, more)
    BY <1>1, BytesLoop
  <1> DEFINE T == {n \in 0 .. N : g[n] = f[n]}
  <1>4. 0 \in T
    BY <1>1, <1>2, <1>3 DEF IsBytes
  <1>5. ASSUME NEW n \in 1 .. N, n - 1 \in T PROVE n \in T
    <2>1. f[n] = f[n - 1] \o frames[n]
      BY <1>2 DEF IsBytes
    <2>2. n \in 1 .. Len(more)
      BY <1>1
    <2>3. g[n] = g[n - 1] \o more[n]
      BY <1>3, <2>2, Zenon DEF IsBytes
    <2>4. n \in 0 .. N /\ g[n - 1] = f[n - 1] /\ more[n] = frames[n]
      BY <1>1, <1>5
    <2> QED
      BY <2>1, <2>3, <2>4
  <1>6. 0 .. N \subseteq T
    <2> HIDE DEF T, N
    <2> QED
      BY <1>1, <1>4, <1>5, EveryTurn
  <1>7. g[N] = f[N]
    <2>1. N \in 0 .. N
      BY <1>1
    <2> QED
      BY <1>6, <2>1, Zenon
  <1>8. g[N + 1] = g[N] \o x
    <2>1. N + 1 \in 1 .. Len(more) /\ (N + 1) - 1 = N
      BY <1>1
    <2>2. g[N + 1] = g[(N + 1) - 1] \o more[N + 1]
      BY <1>3, <2>1, Zenon DEF IsBytes
    <2> QED
      BY <1>1, <2>1, <2>2
  <1> QED
    BY <1>1, <1>2, <1>3, <1>7, <1>8 DEF IsBytes, more

\* The first frame, and the bytes of the others.
LEMMA BytesHead ==
  ASSUME NEW frames \in Seq(Seq(Byte)), frames # <<>>
  PROVE  /\ Head(frames) \in Seq(Byte) /\ Tail(frames) \in Seq(Seq(Byte))
         /\ Bytes(frames) = Head(frames) \o Bytes(Tail(frames))
  <1> DEFINE N == Len(frames)
             rest == Tail(frames)
             first == Head(frames)
  <1>1. /\ N \in Nat /\ N >= 1 /\ rest \in Seq(Seq(Byte)) /\ Len(rest) = N - 1
        /\ \A n \in 1 .. N - 1 : rest[n] = frames[n + 1]
        /\ first = frames[1] /\ first \in Seq(Byte)
    BY HeadTailProperties, ElementOfSeq
  <1>2. \A n \in 1 .. N - 1 : rest[n] \in Seq(Byte)
    BY <1>1, ElementOfSeq
  <1> HIDE DEF rest, first
  <1>3. PICK f : IsBytes(f, frames)
    BY BytesLoop
  <1>4. PICK g : IsBytes(g, rest)
    BY <1>1, BytesLoop
  <1>5. f[0] = <<>> /\ \A n \in 1 .. N : f[n] = f[n - 1] \o frames[n]
    BY <1>3 DEF IsBytes
  <1>6. /\ g[0] = <<>>
        /\ \A n \in 1 .. N - 1 : g[n] = g[n - 1] \o rest[n]
        /\ \A n \in 0 .. N - 1 : g[n] \in Seq(Byte)
    BY <1>1, <1>4 DEF IsBytes
  <1> DEFINE T == {n \in 0 .. N - 1 : f[n + 1] = first \o g[n]}
  <1> HIDE DEF N
  <1>7. 0 \in T
    <2>1. 1 \in 1 .. N /\ 0 + 1 = 1 /\ 1 - 1 = 0 /\ 0 \in 0 .. N - 1
      BY <1>1
    <2>2. f[1] = f[0] \o frames[1]
      BY <1>5, <2>1
    <2>3. f[1] = <<>> \o first /\ <<>> \o first = first /\ first \o <<>> = first
      BY <1>1, <1>5, <2>2
    <2> QED
      BY <1>6, <2>1, <2>3
  <1>8. ASSUME NEW n \in 1 .. N - 1, n - 1 \in T PROVE n \in T
    <2>1. /\ n + 1 \in 1 .. N /\ (n + 1) - 1 = n /\ (n - 1) + 1 = n
          /\ n \in 0 .. N - 1 /\ n - 1 \in 0 .. N - 1
      BY <1>1
    <2>2. f[n + 1] = f[n] \o frames[n + 1]
      BY <1>5, <2>1
    <2>3. f[n] = first \o g[n - 1]
      BY <1>8, <2>1
    <2>4. g[n] = g[n - 1] \o rest[n] /\ rest[n] = frames[n + 1]
      BY <1>1, <1>6
    <2>5. g[n - 1] \in Seq(Byte) /\ rest[n] \in Seq(Byte)
      BY <1>2, <1>6, <2>1
    <2>6. (first \o g[n - 1]) \o rest[n] = first \o (g[n - 1] \o rest[n])
      BY <1>1, <2>5, ByteAssoc, Zenon
    <2> QED
      BY <2>1, <2>2, <2>3, <2>4, <2>6
  <1>9. 0 .. N - 1 \subseteq T
    <2>1. N - 1 \in Nat
      BY <1>1
    <2> HIDE DEF T
    <2> QED
      BY <1>7, <1>8, <2>1, EveryTurn
  <1>10. f[N] = first \o g[N - 1]
    <2>1. N - 1 \in 0 .. N - 1 /\ (N - 1) + 1 = N
      BY <1>1
    <2> QED
      BY <1>9, <2>1
  <1> QED
    BY <1>1, <1>3, <1>4, <1>10 DEF IsBytes, N, rest, first

-----------------------------------------------------------------------------
(* The bytes of a frame.                                                    *)

\* The first four bytes of a frame.
HeadOf(h) == IF h = NoHeader THEN <<8, 0, 0, 0>> ELSE HeaderBytes(h)

\* An ID takes two bytes.
LEMMA IdsAreBytes == \A id \in Ids : id % 256 \in Byte /\ id \div 256 \in Byte
  <1> DEFINE N == 65536
  <1>1. IdCount = N
    BY SMT, FramingAssumption
  <1>2. ASSUME NEW id \in 0 .. N - 1
        PROVE  id % 256 \in 0 .. 255 /\ id \div 256 \in 0 .. 255
    <2>1. id \in Nat /\ id < 65536
      BY SMT
    <2>2. id % 256 \in 0 .. 255
      BY SMT, <2>1
    <2>3. id \div 256 >= 0 /\ id \div 256 < 256 /\ id \div 256 \in Int
      BY SMT, <2>1
    <2> QED
      BY SMT, <2>2, <2>3
  <1> HIDE DEF N
  <1>3. Ids = 0 .. N - 1
    BY <1>1, Zenon DEF Ids
  <1> QED
    BY SMT, <1>2, <1>3 DEF Byte

\* Discriminants are bytes, with or without the error bit.
LEMMA RawKindsAreBytes ==
  /\ \A kind \in Kind : Discriminant(KindBytes, kind) \in Byte
  /\ \A kind \in ErrorKind : 128 + Discriminant(ErrorKindBytes, kind) \in Byte
  <1>1. \A kind \in Kind : Discriminant(KindBytes, kind) \in 0 .. 5
    BY KindDiscriminant
  <1>2. \A kind \in ErrorKind : Discriminant(ErrorKindBytes, kind) \in 0 .. 13
    BY ErrorKindDiscriminant
  <1>3. /\ \A d \in 0 .. 5 : d \in 0 .. 255
        /\ \A d \in 0 .. 13 : 128 + d \in 0 .. 255
    OBVIOUS
  <1> QED
    BY <1>1, <1>2, <1>3, Zenon DEF Byte

\* Four bytes are a sequence of bytes.
LEMMA FourBytes ==
  ASSUME NEW a \in Byte, NEW b \in Byte, NEW c \in Byte, NEW d \in Byte
  PROVE  <<a, b, c, d>> \in Seq(Byte) /\ Len(<<a, b, c, d>>) = 4
  OBVIOUS

\* They are bytes, and Header::parse finds the header in them.
LEMMA HeadBytes ==
  ASSUME NEW h, h \in WireHeaders \/ h = NoHeader
  PROVE  /\ HeadOf(h) \in Seq(Byte) /\ Len(HeadOf(h)) = 4
         /\ \A b : (\A i \in 1 .. 4 : b[i] = HeadOf(h)[i]) => Parse(b) = h
  <1>1. CASE h = NoHeader
    <2>1. HeadOf(h) = <<8, 0, 0, 0>>
      BY <1>1, Zenon DEF HeadOf
    <2>2. 8 \in Byte /\ 0 \in Byte
      BY DEF Byte
    <2>3. ASSUME NEW b, \A i \in 1 .. 4 : b[i] = HeadOf(h)[i] PROVE Parse(b) = h
      <3>1. b[1] = 8
        BY <2>1, <2>3
      <3> QED
        BY <1>1, <3>1, NoHeaderParsed, Zenon
    <2>4. HeadOf(h) \in Seq(Byte) /\ Len(HeadOf(h)) = 4
      BY <2>1, <2>2, FourBytes, Zenon
    <2> QED
      BY <2>3, <2>4, Zenon
  <1>2. CASE h \in WireHeaders
    <2>1. h.kind \in WireKinds /\ h.channel \in Byte /\ h.id \in Ids /\ h # NoHeader
      BY <1>2, WireHeaderFacts
    <2>2. HeadOf(h) = HeaderBytes(h)
      BY <2>1, Zenon DEF HeadOf
    <2> DEFINE raw == IF h.kind \in Kind THEN Discriminant(KindBytes, h.kind)
                      ELSE 128 + Discriminant(ErrorKindBytes, h.kind)
    <2>3. raw \in Byte
      BY <2>1, RawKindsAreBytes, Zenon DEF WireKinds
    <2>4. h.id % 256 \in Byte /\ h.id \div 256 \in Byte
      BY <2>1, IdsAreBytes, Zenon
    <2>5. HeaderBytes(h) = <<raw, h.channel, h.id % 256, h.id \div 256>>
      BY Zenon DEF HeaderBytes
    <2> HIDE DEF raw
    <2>6. HeaderBytes(h) \in Seq(Byte) /\ Len(HeaderBytes(h)) = 4
      <3> DEFINE lo == h.id % 256
                 hi == h.id \div 256
      <3> HIDE DEF lo, hi
      <3>1. lo \in Byte /\ hi \in Byte /\ HeaderBytes(h) = <<raw, h.channel, lo, hi>>
        BY <2>4, <2>5, Zenon DEF lo, hi
      <3> QED
        BY <2>1, <2>3, <3>1, FourBytes, Zenon
    <2> QED
      BY <1>2, <2>2, <2>6, HeaderParsed, Zenon
  <1> QED
    BY <1>1, <1>2

\* The bytes of a payload.
LEMMA PayloadBytesFacts ==
  ASSUME NEW first \in Nat, NEW count \in Nat
  PROVE  /\ PayloadBytes(first, count) \in Seq(Byte)
         /\ Len(PayloadBytes(first, count)) = count
         /\ \A k \in 1 .. count : PayloadBytes(first, count)[k] = (first + k) % 256
  <1>1. \A k \in 1 .. count : (first + k) % 256 \in Byte
    BY DEF Byte
  <1>2. PayloadBytes(first, count) \in [1 .. count -> Byte]
    BY <1>1 DEF PayloadBytes
  <1> QED
    BY <1>2 DEF PayloadBytes

\* A payload grows at its end.
LEMMA PayloadGrows ==
  ASSUME NEW m \in Nat, NEW n \in Nat
  PROVE  PayloadBytes(0, m) \o PayloadBytes(m, n) = PayloadBytes(0, m + n)
  <1> DEFINE s == PayloadBytes(0, m)
             t == PayloadBytes(m, n)
             u == PayloadBytes(0, m + n)
  <1>0. 0 \in Nat /\ m + n \in Nat
    OBVIOUS
  <1>1. /\ s \in Seq(Byte) /\ Len(s) = m /\ t \in Seq(Byte) /\ Len(t) = n
        /\ u \in Seq(Byte) /\ Len(u) = m + n
    BY <1>0, PayloadBytesFacts, Zenon
  <1>2. /\ \A k \in 1 .. m : s[k] = (0 + k) % 256
        /\ \A k \in 1 .. n : t[k] = (m + k) % 256
        /\ \A k \in 1 .. m + n : u[k] = (0 + k) % 256
    BY <1>0, PayloadBytesFacts, Zenon
  <1> HIDE DEF s, t, u
  <1>3. /\ s \o t \in Seq(Byte) /\ Len(s \o t) = m + n
        /\ \A i \in 1 .. m + n : (s \o t)[i] = IF i <= m THEN s[i] ELSE t[i - m]
    BY <1>1, ConcatProperties
  <1>4. ASSUME NEW i \in 1 .. m + n PROVE (s \o t)[i] = u[i]
    <2>1. CASE i <= m
      BY <1>2, <1>3, <2>1
    <2>2. CASE ~(i <= m)
      <3>1. i - m \in 1 .. n /\ m + (i - m) = 0 + i
        BY <2>2
      <3>2. t[i - m] = (0 + i) % 256
        BY <1>2, <3>1
      <3> QED
        BY <1>2, <1>3, <2>2, <3>2
    <2> QED
      BY <2>1, <2>2
  <1>5. s \o t = u
    BY <1>1, <1>3, <1>4, SeqEqual
  <1> QED
    BY <1>5 DEF s, t, u

\* The bytes of a length prefix.
LEMMA PrefixBytesFacts ==
  ASSUME NEW len, NEW off, IsPrefix(len, off)
  PROVE  /\ PrefixBytes(len, off) \in Seq(Byte)
         /\ len = BadLen => /\ off = 0 /\ Len(PrefixBytes(len, off)) = 5
                            /\ \A k \in 1 .. 5 : PrefixBytes(len, off)[k] = 255
         /\ len # BadLen => /\ len \in Nat /\ Shifted(len, 4) < 16
                            /\ off \in LengthOf(len) .. 5 /\ off \in 1 .. 5
                            /\ PrefixBytes(len, off) = Varint(len, off)
                            /\ Len(PrefixBytes(len, off)) = off
  <1>1. CASE len = BadLen
    <2>1. PrefixBytes(len, off) = <<255, 255, 255, 255, 255>>
      BY <1>1 DEF PrefixBytes, BadLen, NoLen
    <2>2. 255 \in Byte
      BY DEF Byte
    <2>3. off = 0
      BY <1>1 DEF IsPrefix, BadLen
    <2> QED
      BY <1>1, <2>1, <2>2, <2>3
  <1>2. CASE len # BadLen
    <2>1. len \in Nat /\ Shifted(len, 4) < 16 /\ off \in LengthOf(len) .. 5
      BY <1>2 DEF IsPrefix, VarintMaxLen
    <2>2. /\ off \in 1 .. 5 /\ Varint(len, off) \in Seq(Byte) /\ Len(Varint(len, off)) = off
      BY <2>1, VarintBytes
    <2>3. len # NoLen /\ len >= 0
      BY <2>1 DEF NoLen
    <2>4. PrefixBytes(len, off) =
             [k \in 1 .. off |-> (Shifted(len, k - 1) % 128) + IF k < off THEN 128 ELSE 0]
      BY <1>2, <2>3, Zenon DEF PrefixBytes
    <2>5. PrefixBytes(len, off) = Varint(len, off)
      BY <2>4, Zenon DEF Varint, Digit
    <2> QED
      BY <1>2, <2>1, <2>2, <2>5, Zenon
  <1> QED
    BY <1>1, <1>2

-----------------------------------------------------------------------------
(* The frames the peer sends.                                               *)

\* A channel per channel number, each within its bounds.
ChannelsOK(chs) ==
    chs = [c \in Channels |-> chs[c]] /\ \A c \in Channels : ChannelOK(c, chs[c])

\* The frame that Send makes of an offer, and its bytes.
Offered(chs, offer)    == Frame(chs, offer.header, offer.len, offer.off)
OfferBytes(chs, offer) == SentBytes(chs, Offered(chs, offer))

\* A frame whose length prefix the reader refuses.
Refused(chs, offer) ==
    /\ ~DecidedByHeader(chs, offer.header) /\ ~Continues(chs, offer.header)
    /\ PrefixRefused(offer.header, offer.len, offer.off)

PrefixedKinds == {"RequestPl", "ResponsePl", "Other"}

\* What the peer may offer.
LEMMA OfferFacts ==
  ASSUME NEW offer \in Offers
  PROVE  /\ offer.header \in WireHeaders \/ offer.header = NoHeader
         /\ offer.header.kind \in PrefixedKinds => IsPrefix(offer.len, offer.off)
  BY SMT, FramingAssumption DEF PrefixedKinds

\* A frame that is not decided by its header has a length prefix or continues a
\* transfer.
LEMMA NotDecided ==
  ASSUME NEW chs, NEW h, h \in WireHeaders \/ h = NoHeader, ~DecidedByHeader(chs, h)
  PROVE  /\ h \in WireHeaders /\ h.kind \in PrefixedKinds
         /\ h.kind # "Other" => h.kind \in Kind /\ h.channel \in Channels
         /\ h.kind = "ResponsePl" => h.id \in chs[h.channel].outgoing_requests
  <1>1. h \in WireHeaders
    BY DEF DecidedByHeader
  <1>2. h.kind \in Kind \/ h.kind \in ErrorKind
    BY <1>1, WireHeaderFacts DEF WireKinds
  <1>3. CASE h.kind \in ErrorKind
    <2>1. h.kind = "Other"
      BY <1>3 DEF DecidedByHeader
    <2> QED
      BY <1>1, <2>1 DEF PrefixedKinds
  <1>4. CASE h.kind \in Kind
    <2>1. h.kind \in {"RequestPl", "ResponsePl"} /\ h.channel \in Channels
      BY <1>4 DEF DecidedByHeader, Kind
    <2> QED
      BY <1>1, <1>4, <2>1 DEF PrefixedKinds, DecidedByHeader
  <1> QED
    BY <1>2, <1>3, <1>4

\* The transfer that a frame continues.
LEMMA ContinuedTransfer ==
  ASSUME NEW chs, ChannelsOK(chs), NEW h, Continues(chs, h)
  PROVE  LET rcv == chs[h.channel].current_multiframe_receiver IN
         /\ h.channel \in Channels /\ h.kind \in {"RequestPl", "ResponsePl"}
         /\ rcv \in Receivers /\ rcv # Ready /\ rcv.header = h
         /\ rcv.received \in Nat /\ rcv.total \in Nat /\ rcv.received < rcv.total
         /\ LaterSegment(rcv) \in Nat /\ LaterSegment(rcv) > 0
         /\ Before(chs, h) = rcv.received
  <1> DEFINE c == h.channel
             rcv == chs[c].current_multiframe_receiver
  <1>1. c \in Channels /\ h.kind \in Kind /\ rcv.header = h
    BY DEF Continues
  <1>2. chs[c] \in ChannelStates /\ ReceiverBounded(c, rcv)
    BY <1>1 DEF ChannelsOK, ChannelOK, ChannelBounded
  <1>3. rcv \in Receivers
    BY <1>2 DEF ChannelStates
  <1>4. Ready.header.kind = "None"
    BY DEF Ready, NoHeader, Header
  <1>5. h.kind # "None"
    BY <1>1 DEF Kind
  <1>6. rcv # Ready
    BY <1>1, <1>4, <1>5
  <1> HIDE DEF rcv
  <1>7. /\ h.kind \in {"RequestPl", "ResponsePl"}
        /\ rcv.received < rcv.total
    BY <1>1, <1>2, <1>6 DEF ReceiverBounded
  <1>8. rcv.received \in Nat /\ rcv.total \in Nat
    BY <1>3 DEF Receivers
  <1>9. LaterSegment(rcv) \in Nat /\ LaterSegment(rcv) > 0
    BY <1>7, <1>8, WireAssumption DEF LaterSegment, Least, HeaderSize, MinFrameSize, VarintMaxLen
  <1>10. Before(chs, h) = rcv.received
    BY DEF Before, rcv
  <1> QED
    BY <1>1, <1>3, <1>6, <1>7, <1>8, <1>9, <1>10 DEF rcv

\* The segment of a frame with a length prefix.
StartOf(len, off) == Least(MaxFrameSize - HeaderSize - off, len)

\* A frame is one of three.
LEMMA FrameIs ==
  ASSUME NEW chs, NEW h, NEW len, NEW off
  PROVE  /\ DecidedByHeader(chs, h) =>
               Frame(chs, h, len, off) = [header |-> h, len |-> NoLen, off |-> 0, seg |-> 0]
         /\ ~DecidedByHeader(chs, h) /\ Continues(chs, h) =>
               Frame(chs, h, len, off) =
                  [header |-> h, len |-> NoLen, off |-> 0,
                   seg |-> LaterSegment(chs[h.channel].current_multiframe_receiver)]
         /\ ~DecidedByHeader(chs, h) /\ ~Continues(chs, h) =>
               Frame(chs, h, len, off) =
                  [header |-> h, len |-> len, off |-> off,
                   seg |-> IF PrefixRefused(h, len, off) THEN 0 ELSE StartOf(len, off)]
  BY DEF Frame, StartOf

\* The size of the first segment of a payload.
LEMMA StartSize ==
  ASSUME NEW h, NEW len, NEW off, IsPrefix(len, off), ~PrefixRefused(h, len, off)
  PROVE  /\ len # BadLen /\ len \in Nat /\ off \in 1 .. 5 /\ StartOf(len, off) \in Nat
         /\ h.kind = "Other" => StartOf(len, off) = len
  <1>1. len # BadLen
    BY DEF PrefixRefused
  <1>2. len \in Nat /\ off \in 1 .. 5
    BY <1>1, PrefixBytesFacts
  <1>3. h.kind = "Other" => ~(HeaderSize + off + len > MaxFrameSize)
    BY DEF PrefixRefused
  <1>4. MaxFrameSize \in Nat /\ MaxFrameSize >= 10
    BY WireAssumption DEF HeaderSize, MinFrameSize, VarintMaxLen
  <1> QED
    BY <1>1, <1>2, <1>3, <1>4 DEF StartOf, Least, HeaderSize

\* The bytes of two sequences in a row.
LEMMA TwoParts ==
  \A s, t \in Seq(Byte) :
     /\ s \o t \in Seq(Byte) /\ Len(s \o t) = Len(s) + Len(t)
     /\ \A i \in 1 .. Len(s) + Len(t) :
            (s \o t)[i] = IF i <= Len(s) THEN s[i] ELSE t[i - Len(s)]
  BY ConcatProperties

\* The bytes of three sequences in a row.
LEMMA ThreeParts ==
  ASSUME NEW s \in Seq(Byte), NEW t \in Seq(Byte), NEW u \in Seq(Byte)
  PROVE  LET all == (s \o t) \o u IN
         /\ all \in Seq(Byte) /\ Len(all) = Len(s) + Len(t) + Len(u)
         /\ \A i \in 1 .. Len(s) : all[i] = s[i]
         /\ \A i \in 1 .. Len(t) : all[Len(s) + i] = t[i]
         /\ \A i \in 1 .. Len(u) : all[Len(s) + Len(t) + i] = u[i]
  <1> DEFINE st == s \o t
             all == st \o u
  <1>1. /\ st \in Seq(Byte) /\ Len(st) = Len(s) + Len(t)
        /\ \A i \in 1 .. Len(s) + Len(t) :
               st[i] = IF i <= Len(s) THEN s[i] ELSE t[i - Len(s)]
    BY TwoParts, Zenon
  <1> HIDE DEF st
  <1>2. /\ all \in Seq(Byte) /\ Len(all) = Len(st) + Len(u)
        /\ \A i \in 1 .. Len(st) + Len(u) :
               all[i] = IF i <= Len(st) THEN st[i] ELSE u[i - Len(st)]
    BY <1>1, TwoParts, Zenon
  <1> HIDE DEF all
  <1>3. Len(s) \in Nat /\ Len(t) \in Nat /\ Len(u) \in Nat
    OBVIOUS
  <1>4. \A i \in 1 .. Len(s) : all[i] = s[i]
    BY <1>1, <1>2, <1>3
  <1>5. ASSUME NEW i \in 1 .. Len(t) PROVE all[Len(s) + i] = t[i]
    <2> DEFINE j == Len(s) + i
    <2>1. /\ j \in 1 .. Len(s) + Len(t) /\ j \in 1 .. Len(st) + Len(u)
          /\ ~(j <= Len(s)) /\ j <= Len(st) /\ j - Len(s) = i
      BY <1>1, <1>3
    <2> HIDE DEF j
    <2>2. all[j] = st[j] /\ st[j] = t[j - Len(s)]
      BY <1>1, <1>2, <2>1
    <2> QED
      BY <2>1, <2>2 DEF j
  <1>6. ASSUME NEW i \in 1 .. Len(u) PROVE all[Len(s) + Len(t) + i] = u[i]
    <2> DEFINE j == Len(s) + Len(t) + i
    <2>1. j \in 1 .. Len(st) + Len(u) /\ ~(j <= Len(st)) /\ j - Len(st) = i
      BY <1>1, <1>3
    <2> HIDE DEF j
    <2>2. all[j] = u[j - Len(st)]
      BY <1>2, <2>1
    <2> QED
      BY <2>1, <2>2 DEF j
  <1> QED
    BY <1>1, <1>2, <1>3, <1>4, <1>5, <1>6 DEF all, st

\* The bytes of a frame that was sent: its header, its length prefix and its segment.
SentParts(chs, offer, f, bytes) ==
    LET head == HeadOf(offer.header)
        pre  == PrefixBytes(f.len, f.off)
        seg  == PayloadBytes(Before(chs, offer.header), f.seg)
    IN  /\ f.header = offer.header /\ f.seg \in Nat /\ Before(chs, offer.header) \in Nat
        /\ pre \in Seq(Byte)
        /\ bytes \in Seq(Byte) /\ Len(bytes) = 4 + Len(pre) + f.seg
        /\ \A i \in 1 .. 4 : bytes[i] = head[i]
        /\ \A i \in 1 .. Len(pre) : bytes[4 + i] = pre[i]
        /\ \A i \in 1 .. f.seg : bytes[4 + Len(pre) + i] = seg[i]

\* A frame without a length prefix.
LEMMA NoPrefixBytes == \A off : PrefixBytes(NoLen, off) = <<>>
  BY DEF PrefixBytes, NoLen, BadLen

\* Every frame is made of these parts.
LEMMA OfferedParts ==
  ASSUME NEW chs, ChannelsOK(chs), NEW offer \in Offers
  PROVE  SentParts(chs, offer, Offered(chs, offer), OfferBytes(chs, offer))
  <1> DEFINE h == offer.header
             f == Offered(chs, offer)
             head == HeadOf(h)
             pre  == PrefixBytes(f.len, f.off)
             seg  == PayloadBytes(Before(chs, h), f.seg)
             bytes == OfferBytes(chs, offer)
  <1>1. h \in WireHeaders \/ h = NoHeader
    BY OfferFacts
  <1>2. f.header = h
    BY FrameIs DEF Offered
  <1>3. bytes = (head \o pre) \o seg
    BY <1>2, Zenon DEF OfferBytes, SentBytes, HeadOf
  <1>4. Before(chs, h) \in Nat
    <2>1. CASE Continues(chs, h)
      BY <2>1, ContinuedTransfer
    <2>2. CASE ~Continues(chs, h)
      BY <2>2 DEF Before
    <2> QED
      BY <2>1, <2>2
  <1>5. f.seg \in Nat /\ pre \in Seq(Byte)
    <2>1. CASE DecidedByHeader(chs, h)
      <3>1. f.seg = 0 /\ f.len = NoLen
        BY <2>1, FrameIs DEF Offered
      <3> HIDE DEF f
      <3>2. pre = <<>>
        BY <3>1, NoPrefixBytes, Zenon
      <3> QED
        BY <3>1, <3>2
    <2>2. CASE ~DecidedByHeader(chs, h) /\ Continues(chs, h)
      <3> DEFINE later == LaterSegment(chs[h.channel].current_multiframe_receiver)
      <3>1. f.seg = later /\ f.len = NoLen
        BY <2>2, FrameIs DEF Offered
      <3>2. later \in Nat
        BY <2>2, ContinuedTransfer
      <3> HIDE DEF f, later
      <3>3. pre = <<>>
        BY <3>1, NoPrefixBytes, Zenon
      <3> QED
        BY <3>1, <3>2, <3>3
    <2>3. CASE ~DecidedByHeader(chs, h) /\ ~Continues(chs, h)
      <3>1. f.len = offer.len /\ f.off = offer.off
        BY <2>3, FrameIs DEF Offered
      <3>2. IsPrefix(offer.len, offer.off)
        BY <1>1, <2>3, NotDecided, OfferFacts
      <3>3. pre \in Seq(Byte)
        BY <3>1, <3>2, PrefixBytesFacts
      <3>4. CASE PrefixRefused(h, offer.len, offer.off)
        BY <2>3, <3>3, <3>4, FrameIs DEF Offered
      <3>5. CASE ~PrefixRefused(h, offer.len, offer.off)
        <4>1. f.seg = StartOf(offer.len, offer.off)
          BY <2>3, <3>5, FrameIs DEF Offered
        <4> QED
          BY <3>2, <3>3, <3>5, <4>1, StartSize
      <3> QED
        BY <3>4, <3>5
    <2> QED
      BY <2>1, <2>2, <2>3
  <1>6. head \in Seq(Byte) /\ Len(head) = 4
    BY <1>1, HeadBytes
  <1>7. seg \in Seq(Byte) /\ Len(seg) = f.seg
    BY <1>4, <1>5, PayloadBytesFacts
  <1> HIDE DEF f, head, pre, seg, bytes, h
  <1>8. /\ bytes \in Seq(Byte) /\ Len(bytes) = Len(head) + Len(pre) + Len(seg)
        /\ \A i \in 1 .. Len(head) : bytes[i] = head[i]
        /\ \A i \in 1 .. Len(pre) : bytes[Len(head) + i] = pre[i]
        /\ \A i \in 1 .. Len(seg) : bytes[Len(head) + Len(pre) + i] = seg[i]
    <2> DEFINE all == (head \o pre) \o seg
    <2>1. /\ all \in Seq(Byte) /\ Len(all) = Len(head) + Len(pre) + Len(seg)
          /\ \A i \in 1 .. Len(head) : all[i] = head[i]
          /\ \A i \in 1 .. Len(pre) : all[Len(head) + i] = pre[i]
          /\ \A i \in 1 .. Len(seg) : all[Len(head) + Len(pre) + i] = seg[i]
      BY <1>5, <1>6, <1>7, ThreeParts, Zenon
    <2>2. bytes = all
      BY <1>3
    <2> HIDE DEF all
    <2> QED
      BY <2>1, <2>2, Zenon
  <1> QED
    BY <1>2, <1>4, <1>5, <1>6, <1>7, <1>8, Zenon DEF SentParts, h, f, head, pre, seg, bytes

\* A buffer and the bytes of a frame agree as far as both go.
Agrees(b, bytes) == \A i \in 1 .. Len(b) : i <= Len(bytes) => b[i] = bytes[i]

\* The buffer agrees with the frame whose bytes come first.
LEMMA FrontAgrees ==
  ASSUME NEW b \in Seq(Byte), NEW w \in Seq(Byte), NEW bytes \in Seq(Byte),
         NEW rest \in Seq(Byte), b \o w = bytes \o rest
  PROVE  Agrees(b, bytes) /\ Len(b) + Len(w) = Len(bytes) + Len(rest)
  <1> DEFINE all == b \o w
  <1>1. /\ Len(all) = Len(b) + Len(w)
        /\ \A i \in 1 .. Len(b) + Len(w) : all[i] = IF i <= Len(b) THEN b[i] ELSE w[i - Len(b)]
    BY TwoParts, Zenon
  <1>2. /\ Len(all) = Len(bytes) + Len(rest)
        /\ \A i \in 1 .. Len(bytes) + Len(rest) :
              all[i] = IF i <= Len(bytes) THEN bytes[i] ELSE rest[i - Len(bytes)]
    <2> DEFINE other == bytes \o rest
    <2>1. /\ Len(other) = Len(bytes) + Len(rest)
          /\ \A i \in 1 .. Len(bytes) + Len(rest) :
                other[i] = IF i <= Len(bytes) THEN bytes[i] ELSE rest[i - Len(bytes)]
      BY TwoParts, Zenon
    <2>2. all = other
      OBVIOUS
    <2> HIDE DEF all, other
    <2> QED
      BY <2>1, <2>2, Zenon
  <1>3. Len(b) \in Nat /\ Len(w) \in Nat /\ Len(bytes) \in Nat /\ Len(rest) \in Nat
    OBVIOUS
  <1> HIDE DEF all
  <1>4. ASSUME NEW i \in 1 .. Len(b), i <= Len(bytes) PROVE b[i] = bytes[i]
    <2>1. i \in 1 .. Len(b) + Len(w) /\ i \in 1 .. Len(bytes) + Len(rest) /\ i <= Len(b)
      BY <1>3
    <2> QED
      BY <1>1, <1>2, <1>4, <2>1, Zenon
  <1> QED
    BY <1>1, <1>2, <1>4, Zenon DEF Agrees

\* The header of the frame at the front of a buffer.
LEMMA FrontHeader ==
  ASSUME NEW chs, ChannelsOK(chs), NEW offer \in Offers, NEW b \in Seq(Byte),
         Agrees(b, OfferBytes(chs, offer)), Len(b) >= 4
  PROVE  Parse(b) = offer.header
  <1> DEFINE bytes == OfferBytes(chs, offer)
             f == Offered(chs, offer)
             pre == PrefixBytes(f.len, f.off)
  <1>1. SentParts(chs, offer, f, bytes)
    BY OfferedParts
  <1> HIDE DEF bytes, f
  <1>2. /\ Len(pre) \in Nat /\ f.seg \in Nat /\ Len(bytes) = 4 + Len(pre) + f.seg
        /\ \A i \in 1 .. 4 : bytes[i] = HeadOf(offer.header)[i]
    BY <1>1, LenProperties DEF SentParts
  <1>3. Len(b) \in Nat
    OBVIOUS
  <1>4. \A i \in 1 .. 4 : i \in 1 .. Len(b) /\ i <= Len(bytes)
    BY <1>2, <1>3
  <1>5. \A i \in 1 .. 4 : b[i] = HeadOf(offer.header)[i]
    BY <1>2, <1>4, Zenon DEF Agrees, bytes
  <1> QED
    BY <1>5, OfferFacts, HeadBytes, Zenon

\* The length prefix at the front of a buffer: what decode_varint32 makes of it.
LEMMA FrontPrefix ==
  ASSUME NEW chs, ChannelsOK(chs), NEW offer \in Offers, NEW b \in Seq(Byte),
         Agrees(b, OfferBytes(chs, offer)), Len(b) >= 4,
         ~DecidedByHeader(chs, offer.header), ~Continues(chs, offer.header)
  PROVE  LET size == Len(PrefixBytes(offer.len, offer.off))
             v == DecodeVarint32(SubSeq(b, HeaderSize + 1, Len(b)))
         IN  /\ IsPrefix(offer.len, offer.off) /\ size \in Nat
             /\ Len(b) < 4 + size => v.value = NoLen
             /\ Len(b) >= 4 + size =>
                   v.value = offer.len /\ v.offset = offer.off /\ v.value # NoLen
  <1> DEFINE bytes == OfferBytes(chs, offer)
             f == Offered(chs, offer)
             len == offer.len
             off == offer.off
             pre == PrefixBytes(len, off)
             size == Len(pre)
             input == SubSeq(b, HeaderSize + 1, Len(b))
  <1>1. SentParts(chs, offer, f, bytes)
    BY OfferedParts
  <1>2. f.len = len /\ f.off = off
    BY FrameIs DEF Offered
  <1>3. IsPrefix(len, off)
    BY OfferFacts, NotDecided
  <1> HIDE DEF bytes, f
  <1>4. /\ pre \in Seq(Byte) /\ size \in Nat /\ f.seg \in Nat /\ Len(bytes) = 4 + size + f.seg
        /\ \A i \in 1 .. size : bytes[4 + i] = pre[i]
    <2>1. pre \in Seq(Byte)
      BY <1>1, <1>2 DEF SentParts
    <2>2. size \in Nat
      BY <2>1, LenProperties
    <2> QED
      BY <1>1, <1>2, <2>1, <2>2, Zenon DEF SentParts
  <1>5. Len(b) \in Nat
    OBVIOUS
  <1>6. /\ input \in Seq(Byte) /\ Len(input) = Len(b) - 4
        /\ \A k \in 1 .. Len(b) - 4 : input[k] = b[4 + k]
    <2>1. \A i \in 4 + 1 .. Len(b) : b[i] \in Byte
      BY <1>5, ElementOfSeq
    <2>2. /\ input \in Seq(Byte)
          /\ Len(input) = IF 4 + 1 <= Len(b) THEN Len(b) - (4 + 1) + 1 ELSE 0
          /\ \A k \in 1 .. Len(b) - (4 + 1) + 1 : input[k] = b[(4 + 1) + k - 1]
      <3>1. HeaderSize + 1 = 4 + 1 /\ 4 + 1 \in Int /\ Len(b) \in Int
        BY <1>5 DEF HeaderSize
      <3> QED
        BY <2>1, <3>1, SubSeqProperties
    <2> HIDE DEF input
    <2>3. Len(input) = Len(b) - 4
      <3>1. \A n \in Nat : n >= 4 => (IF 4 + 1 <= n THEN n - (4 + 1) + 1 ELSE 0) = n - 4
        OBVIOUS
      <3> QED
        BY <1>5, <2>2, <3>1, Zenon
    <2>4. ASSUME NEW k \in 1 .. Len(b) - 4 PROVE input[k] = b[4 + k]
      <3>1. k \in 1 .. Len(b) - (4 + 1) + 1 /\ (4 + 1) + k - 1 = 4 + k
        BY <1>5
      <3>2. input[k] = b[(4 + 1) + k - 1]
        BY <2>2, <3>1, Zenon
      <3> QED
        BY <3>1, <3>2
    <2> QED
      BY <2>2, <2>3, <2>4
  <1> HIDE DEF input, pre, size
  <1>7. \A k \in 1 .. size : k <= Len(input) => input[k] = pre[k]
    <2> SUFFICES ASSUME NEW k \in 1 .. size, k <= Len(input) PROVE input[k] = pre[k]
      OBVIOUS
    <2>1. k \in 1 .. Len(b) - 4 /\ 4 + k \in 1 .. Len(b) /\ 4 + k <= Len(bytes)
      BY <1>4, <1>5, <1>6
    <2>2. b[4 + k] = bytes[4 + k]
      BY <2>1, Zenon DEF Agrees, bytes
    <2> QED
      BY <1>4, <1>6, <2>1, <2>2
  <1>8. DecodeVarint32(input) = IF size <= Len(input) THEN [value |-> len, offset |-> off]
                                ELSE [value |-> NoLen, offset |-> 0]
    <2>1. CASE len = BadLen
      <3>1. off = 0 /\ size = 5 /\ \A k \in 1 .. 5 : pre[k] = 255
        BY <1>3, <2>1, PrefixBytesFacts DEF pre, size
      <3>2. \A k \in 1 .. 5 : k <= Len(input) => input[k] = 255
        BY <1>7, <3>1
      <3> QED
        BY <1>6, <2>1, <3>1, <3>2, BadVarintDecoded
    <2>2. CASE len # BadLen
      <3>1. /\ len \in Nat /\ Shifted(len, 4) < 16 /\ off \in LengthOf(len) .. 5
            /\ off \in 1 .. 5 /\ size = off /\ pre = Varint(len, off)
        BY <1>3, <2>2, PrefixBytesFacts DEF pre, size
      <3>2. \A k \in 1 .. off : pre[k] = Digit(len, k) + IF k < off THEN 128 ELSE 0
        BY <3>1, VarintBytes
      <3> HIDE DEF len, off
      <3>3. \A k \in 1 .. off : k <= Len(input) =>
                input[k] = Digit(len, k) + IF k < off THEN 128 ELSE 0
        BY <1>7, <3>1, <3>2, Zenon
      <3>4. DecodeVarint32(input) = IF off <= Len(input) THEN [value |-> len, offset |-> off]
                                    ELSE [value |-> NoLen, offset |-> 0]
        BY <1>6, <3>1, <3>3, VarintDecoded
      <3> QED
        BY <3>1, <3>4, Zenon
    <2> QED
      BY <2>1, <2>2
  <1>9. len # NoLen
    BY <1>3 DEF IsPrefix, BadLen, NoLen
  <1>10. (Len(b) < 4 + size => ~(size <= Len(input))) /\ (Len(b) >= 4 + size => size <= Len(input))
    BY <1>4, <1>5, <1>6
  <1> HIDE DEF len, off
  <1>11. /\ Len(b) < 4 + size => DecodeVarint32(input).value = NoLen
         /\ Len(b) >= 4 + size => /\ DecodeVarint32(input).value = len
                                  /\ DecodeVarint32(input).offset = off
    BY <1>8, <1>10
  <1> QED
    BY <1>3, <1>4, <1>9, <1>11, Zenon DEF size, pre, input, len, off

\* The segment of the frame at the front of a buffer that holds all of it.
LEMMA FrontSegment ==
  ASSUME NEW chs, ChannelsOK(chs), NEW offer \in Offers, NEW b \in Seq(Byte),
         Agrees(b, OfferBytes(chs, offer)),
         NEW f, f = Offered(chs, offer), f.off \in Nat,
         f.seg # 0 => /\ Len(PrefixBytes(f.len, f.off)) = f.off
                      /\ Len(OfferBytes(chs, offer)) <= Len(b)
  PROVE  SubSeq(b, HeaderSize + f.off + 1, HeaderSize + f.off + f.seg)
         = PayloadBytes(Before(chs, f.header), f.seg)
  <1> DEFINE bytes == OfferBytes(chs, offer)
             pre == PrefixBytes(f.len, f.off)
             first == Before(chs, offer.header)
             seg == PayloadBytes(first, f.seg)
             front == 4 + f.off
             found == SubSeq(b, front + 1, front + f.seg)
  <1>1. SentParts(chs, offer, f, bytes)
    BY OfferedParts
  <1> HIDE DEF bytes
  <1>2. /\ f.header = offer.header /\ f.seg \in Nat /\ first \in Nat
        /\ Len(bytes) = 4 + Len(pre) + f.seg
        /\ \A i \in 1 .. f.seg : bytes[4 + Len(pre) + i] = seg[i]
    BY <1>1, Zenon DEF SentParts
  <1>3. seg \in Seq(Byte) /\ Len(seg) = f.seg
    BY <1>2, PayloadBytesFacts
  <1> HIDE DEF pre, first, seg
  <1>4. front \in Nat /\ front + 1 \in Int /\ front + f.seg \in Int /\ Len(b) \in Nat
    BY <1>2
  <1> HIDE DEF front
  <1>5. CASE f.seg = 0
    <2>1. found = <<>>
      BY <1>4, <1>5, SubSeqEmpty
    <2>2. seg = <<>>
      BY <1>3, <1>5, EmptySeq
    <2> QED
      BY <1>2, <2>1, <2>2 DEF HeaderSize, front, seg, first
  <1>6. CASE f.seg # 0
    <2>1. Len(bytes) = front + f.seg /\ front + f.seg <= Len(b) /\ Len(pre) = f.off
      BY <1>2, <1>6 DEF front, bytes, pre
    <2>2. \A i \in front + 1 .. front + f.seg : b[i] \in Byte
      <3>1. \A i \in front + 1 .. front + f.seg : i \in 1 .. Len(b)
        BY <1>2, <1>4, <2>1
      <3> QED
        BY <3>1, ElementOfSeq
    <2>3. /\ found \in Seq(Byte)
          /\ Len(found) = IF front + 1 <= front + f.seg
                          THEN (front + f.seg) - (front + 1) + 1 ELSE 0
          /\ \A i \in 1 .. (front + f.seg) - (front + 1) + 1 :
                found[i] = b[(front + 1) + i - 1]
      BY <1>4, <2>2, SubSeqProperties
    <2> HIDE DEF found
    <2>4. Len(found) = f.seg
      <3> DEFINE n == f.seg
      <3>1. n \in Nat /\ n # 0
        BY <1>2, <1>6
      <3> HIDE DEF n
      <3>2. front + 1 <= front + n /\ (front + n) - (front + 1) + 1 = n
        BY <1>4, <3>1
      <3>3. Len(found) = IF front + 1 <= front + n THEN (front + n) - (front + 1) + 1 ELSE 0
        BY <2>3 DEF n
      <3> QED
        BY <3>2, <3>3 DEF n
    <2>5. ASSUME NEW i \in 1 .. f.seg PROVE found[i] = seg[i]
      <3>1. /\ i \in 1 .. (front + f.seg) - (front + 1) + 1
            /\ (front + 1) + i - 1 = front + i
            /\ front + i \in 1 .. Len(b) /\ front + i <= Len(bytes)
        BY <1>2, <1>4, <2>1
      <3>0. 4 + Len(pre) + i = front + i
        BY <2>1, Zenon DEF front
      <3>2. found[i] = b[(front + 1) + i - 1]
        BY <2>3, <3>1, Zenon
      <3>3. b[front + i] = bytes[front + i]
        BY <3>1, Zenon DEF Agrees, bytes
      <3>4. bytes[4 + Len(pre) + i] = seg[i]
        BY <1>2
      <3> QED
        BY <3>0, <3>1, <3>2, <3>3, <3>4
    <2>6. found = seg
      BY <1>3, <2>3, <2>4, <2>5, SeqEqual
    <2> QED
      BY <1>2, <2>6, Zenon DEF HeaderSize, front, found, seg, first
  <1> QED
    BY <1>5, <1>6

\* What the reader finds at the front of its buffer: it asks for no byte behind the
\* frame it is in, and once it does not ask for more it finds the frame that was sent,
\* with all of its bytes unless its length prefix is refused.
FrontFound(chs, offer, b) ==
    LET f == Offered(chs, offer)
        size == Len(OfferBytes(chs, offer))
        n == Needs(chs, b)
    IN  /\ n \in Nat /\ n >= HeaderSize
        /\ n > Len(b) => n <= size
        /\ n <= Len(b) =>
              /\ FrameAt(chs, b) = f
              /\ SubSeq(b, HeaderSize + f.off + 1, HeaderSize + f.off + f.seg)
                 = PayloadBytes(Before(chs, f.header), f.seg)
              /\ ~Refused(chs, offer) => size = HeaderSize + f.off + f.seg /\ size <= Len(b)

\* It does.
LEMMA FrontFrame ==
  ASSUME NEW chs, ChannelsOK(chs), NEW offer \in Offers, NEW b \in Seq(Byte),
         Agrees(b, OfferBytes(chs, offer))
  PROVE  FrontFound(chs, offer, b)
  <1> DEFINE h == offer.header
             len == offer.len
             off == offer.off
             f == Offered(chs, offer)
             bytes == OfferBytes(chs, offer)
             pre == PrefixBytes(f.len, f.off)
             n == Needs(chs, b)
             v == DecodeVarint32(SubSeq(b, HeaderSize + 1, Len(b)))
             found == SubSeq(b, HeaderSize + f.off + 1, HeaderSize + f.off + f.seg)
             seg == PayloadBytes(Before(chs, f.header), f.seg)
  <1>1. SentParts(chs, offer, f, bytes)
    BY OfferedParts
  <1>2. /\ f.seg \in Nat /\ pre \in Seq(Byte) /\ Len(bytes) = 4 + Len(pre) + f.seg
    BY <1>1, Zenon DEF SentParts
  <1>3. Len(b) \in Nat /\ Len(pre) \in Nat /\ HeaderSize = 4
    BY <1>2, LenProperties DEF HeaderSize
  <1>4. f.off \in Nat /\ (f.seg # 0 => Len(pre) = f.off /\ Len(bytes) <= Len(b))
           => found = seg
    BY FrontSegment
  <1>5. FrontFound(chs, offer, b) <=>
          /\ n \in Nat /\ n >= 4
          /\ n > Len(b) => n <= Len(bytes)
          /\ n <= Len(b) =>
               /\ FrameAt(chs, b) = f
               /\ found = seg
               /\ ~Refused(chs, offer) => Len(bytes) = 4 + f.off + f.seg /\ Len(bytes) <= Len(b)
    BY <1>3 DEF FrontFound
  <1>6. FrameAt(chs, b) = Frame(chs, Parse(b), v.value, v.offset)
    BY DEF FrameAt
  <1>7. CASE Len(b) < 4
    <2>1. n = 4
      BY <1>3, <1>7 DEF Needs
    <2> HIDE DEF n, f, bytes, pre, found, seg
    <2> QED
      BY <1>2, <1>3, <1>5, <1>7, <2>1
  <1>8. CASE Len(b) >= 4 /\ DecidedByHeader(chs, h)
    <2>1. Parse(b) = h
      BY <1>8, FrontHeader
    <2>2. n = 4
      BY <1>3, <1>8, <2>1 DEF Needs
    <2>3. f = [header |-> h, len |-> NoLen, off |-> 0, seg |-> 0]
      BY <1>8, FrameIs DEF Offered
    <2>4. f.len = NoLen /\ f.off = 0 /\ f.seg = 0
      BY <2>3
    <2>5. FrameAt(chs, b) = f
      BY <1>6, <1>8, <2>1, <2>3, FrameIs
    <2>6. pre = <<>>
      BY <2>4, NoPrefixBytes, Zenon
    <2>7. Len(pre) = 0
      BY <2>6
    <2> HIDE DEF n, f, bytes, pre, found, seg
    <2>8. found = seg
      BY <1>4, <2>4
    <2> QED
      BY <1>2, <1>3, <1>5, <1>8, <2>2, <2>4, <2>5, <2>7, <2>8
  <1>9. CASE Len(b) >= 4 /\ ~DecidedByHeader(chs, h) /\ Continues(chs, h)
    <2> DEFINE later == LaterSegment(chs[h.channel].current_multiframe_receiver)
    <2>1. Parse(b) = h
      BY <1>9, FrontHeader
    <2>2. n = 4 + later
      BY <1>3, <1>9, <2>1 DEF Needs
    <2>3. later \in Nat
      BY <1>9, ContinuedTransfer
    <2>4. f = [header |-> h, len |-> NoLen, off |-> 0, seg |-> later]
      BY <1>9, FrameIs DEF Offered
    <2> HIDE DEF later
    <2>5. f.len = NoLen /\ f.off = 0 /\ f.seg = later
      BY <2>4
    <2>6. FrameAt(chs, b) = f
      BY <1>6, <1>9, <2>1, <2>4, FrameIs DEF later
    <2>7. pre = <<>>
      BY <2>5, NoPrefixBytes, Zenon
    <2>8. Len(pre) = 0
      BY <2>7
    <2> HIDE DEF n, f, bytes, pre, found, seg
    <2>9. n <= Len(b) => found = seg
      BY <1>2, <1>3, <1>4, <2>2, <2>5, <2>8
    <2> QED
      BY <1>2, <1>3, <1>5, <1>9, <2>2, <2>3, <2>5, <2>6, <2>8, <2>9
  <1>10. CASE Len(b) >= 4 /\ ~DecidedByHeader(chs, h) /\ ~Continues(chs, h)
    <2>1. Parse(b) = h
      BY <1>10, FrontHeader
    <2>2. f = [header |-> h, len |-> len, off |-> off,
               seg |-> IF PrefixRefused(h, len, off) THEN 0 ELSE StartOf(len, off)]
      BY <1>10, FrameIs DEF Offered
    <2>3. /\ f.len = len /\ f.off = off
          /\ f.seg = IF PrefixRefused(h, len, off) THEN 0 ELSE StartOf(len, off)
      BY <2>2
    <2>4. /\ IsPrefix(len, off)
          /\ Len(b) < 4 + Len(pre) => v.value = NoLen
          /\ Len(b) >= 4 + Len(pre) => v.value = len /\ v.offset = off /\ v.value # NoLen
      BY <1>10, <2>3, FrontPrefix
    <2>5. n = IF v.value = NoLen THEN Len(b) + 1
              ELSE IF PrefixRefused(h, v.value, v.offset) THEN 4
              ELSE 4 + v.offset + StartOf(v.value, v.offset)
      BY <1>3, <1>10, <2>1 DEF Needs, StartOf
    <2>6. CASE Len(b) < 4 + Len(pre)
      <3>1. n = Len(b) + 1
        BY <2>4, <2>5, <2>6
      <3> HIDE DEF n, f, bytes, pre, found, seg
      <3> QED
        BY <1>2, <1>3, <1>5, <1>10, <2>6, <3>1
    <2>7. CASE Len(b) >= 4 + Len(pre)
      <3>1. v.value = len /\ v.offset = off /\ len # NoLen
        BY <2>4, <2>7
      <3> HIDE DEF v
      <3>2. FrameAt(chs, b) = f
        BY <1>6, <2>1, <3>1 DEF Offered
      <3>3. CASE PrefixRefused(h, len, off)
        <4>1. n = 4 /\ f.seg = 0 /\ Refused(chs, offer)
          BY <1>10, <2>3, <2>5, <3>1, <3>3 DEF Refused
        <4>2. off \in Nat
          BY <2>4, PrefixBytesFacts
        <4> HIDE DEF n, f, bytes, pre, found, seg
        <4>3. found = seg
          BY <1>4, <2>3, <4>1, <4>2
        <4> QED
          BY <1>2, <1>3, <1>5, <1>10, <3>2, <4>1, <4>3
      <3>4. CASE ~PrefixRefused(h, len, off)
        <4>1. n = 4 + off + f.seg /\ f.seg = StartOf(len, off)
          BY <2>3, <2>5, <3>1, <3>4
        <4>2. len # BadLen /\ off \in 1 .. 5 /\ f.seg \in Nat
          BY <2>4, <3>4, <4>1, StartSize
        <4>3. Len(pre) = off
          BY <2>3, <2>4, <4>2, PrefixBytesFacts
        <4> HIDE DEF n, f, bytes, pre, found, seg, off
        <4>4. Len(bytes) = 4 + off + f.seg /\ n = Len(bytes)
          BY <1>2, <4>1, <4>3
        <4>5. f.off \in Nat /\ f.off = off /\ Len(pre) = f.off
          BY <2>3, <4>2, <4>3
        <4>6. n <= Len(b) => found = seg
          BY <1>4, <4>4, <4>5
        <4> QED
          BY <1>3, <1>5, <3>2, <4>2, <4>4, <4>5, <4>6
      <3> QED
        BY <3>3, <3>4
    <2> QED
      BY <1>3, <2>6, <2>7
  <1> QED
    BY <1>3, <1>7, <1>8, <1>9, <1>10

-----------------------------------------------------------------------------
(* What the reader makes of such a frame.                                   *)

\* What a frame with a segment of this size does to the receiver of its channel: the
\* transfer is over, goes on, starts, or is not touched.
ReceiverEffect(chs, h, seg, rcv, rcv2) ==
    \/ rcv2 = Ready
    \/ Continues(chs, h) /\ rcv2.header = h /\ rcv2.received = rcv.received + seg
    \/ ~Continues(chs, h) /\ rcv2.header = h /\ rcv2.received = seg
    \/ ~Continues(chs, h) /\ rcv2 = rcv

\* MultiframeReceiver::accept on a frame that was sent: a refused length is an error,
\* and a payload that is complete is what was sent before and the segment.
LEMMA AcceptSizes ==
  ASSUME NEW chs, ChannelsOK(chs), NEW offer \in Offers, NEW f, f = Offered(chs, offer),
         NEW h, h = offer.header, h.kind \in {"RequestPl", "ResponsePl"},
         ~DecidedByHeader(chs, h)
  PROVE  LET acc == Received(chs[h.channel], f) IN
         /\ Refused(chs, offer) => acc.frame \in ErrorKind
         /\ acc.payload # NoPayload => acc.payload = Before(chs, h) + f.seg
         /\ ReceiverEffect(chs, h, f.seg, chs[h.channel].current_multiframe_receiver,
                           acc.receiver)
  <1> DEFINE rcv == chs[h.channel].current_multiframe_receiver
             max == MaxPayload(h)
             exceeded == IF h.kind = "RequestPl" THEN "RequestTooLarge"
                         ELSE "ResponseTooLarge"
             acc == Received(chs[h.channel], f)
  <1>1. h \in WireHeaders \/ h = NoHeader
    BY OfferFacts
  <1>2. h.kind \in Kind /\ h.channel \in Channels /\ h.kind \in PrefixedKinds
    BY <1>1, NotDecided
  <1>3. f.header = h
    BY FrameIs DEF Offered
  <1>4. acc = Accept(rcv, f, max, exceeded)
    BY <1>3 DEF Received
  <1>5. exceeded \in ErrorKind
    BY DEF ErrorKind
  <1>6. CASE Continues(chs, h)
    <2>1. /\ f.seg = LaterSegment(rcv) /\ rcv.header = h /\ rcv \in Receivers
          /\ Before(chs, h) = rcv.received
      BY <1>6, FrameIs, ContinuedTransfer DEF Offered
    <2>2. ~Refused(chs, offer)
      BY <1>6 DEF Refused
    <2>3. acc = AcceptLater(rcv)
      BY <1>3, <1>4, <2>1 DEF Accept
    <2> HIDE DEF acc, rcv
    <2>4. CASE rcv.received + f.seg = rcv.total
      <3>1. acc = Accepted(Ready, "CompletedMultiFrame", rcv.received + f.seg)
        BY <2>1, <2>3, <2>4 DEF AcceptLater
      <3> QED
        BY <2>1, <2>2, <3>1 DEF Accepted, ReceiverEffect, acc, rcv
    <2>5. CASE rcv.received + f.seg # rcv.total
      <3> DEFINE rcv2 == [rcv EXCEPT !.received = rcv.received + f.seg]
      <3>1. acc = Accepted(rcv2, "IntermediateMultiFrame", NoPayload)
        BY <2>1, <2>3, <2>5 DEF AcceptLater
      <3>2. rcv2.header = h /\ rcv2.received = rcv.received + f.seg
        BY <2>1 DEF Receivers
      <3> HIDE DEF rcv2
      <3>3. acc.receiver = rcv2 /\ acc.payload = NoPayload
        BY <3>1 DEF Accepted
      <3> QED
        BY <1>6, <2>2, <3>2, <3>3 DEF ReceiverEffect, acc, rcv
    <2> QED
      BY <2>4, <2>5
  <1>7. CASE ~Continues(chs, h)
    <2>1. /\ f.len = offer.len /\ f.off = offer.off
          /\ f.seg = IF PrefixRefused(h, offer.len, offer.off) THEN 0
                     ELSE StartOf(offer.len, offer.off)
      BY <1>7, FrameIs DEF Offered
    <2>2. IsPrefix(f.len, f.off)
      BY <1>2, <2>1, OfferFacts
    <2>3. rcv.header # h /\ Before(chs, h) = 0
      BY <1>2, <1>7 DEF Continues, Before
    <2>4. acc = AcceptStart(rcv, f, max, exceeded)
      BY <1>3, <1>4, <2>3 DEF Accept
    <2>5. Refused(chs, offer) <=> PrefixRefused(h, f.len, f.off)
      BY <1>7, <2>1 DEF Refused
    <2>6. PrefixRefused(h, f.len, f.off) <=> f.len = BadLen \/ f.len > max
      BY DEF PrefixRefused
    <2>7. max \in Nat
      BY <1>2, LimitFacts DEF MaxPayload
    <2>8. StartingSegment(f) = StartOf(f.len, f.off)
      BY DEF StartingSegment, StartOf
    <2> HIDE DEF acc, rcv, max, exceeded
    <2>9. CASE f.len = BadLen
      <3>1. acc = Accepted(rcv, "BadVarInt", NoPayload)
        BY <2>4, <2>7, <2>9 DEF AcceptStart, BadLen
      <3>2. "BadVarInt" \in ErrorKind
        BY DEF ErrorKind
      <3> QED
        BY <1>7, <3>1, <3>2 DEF Accepted, ReceiverEffect, acc, rcv
    <2>10. CASE f.len # BadLen /\ f.len > max
      <3>1. f.len \notin 0 .. max
        BY <2>7, <2>10
      <3>2. acc = Accepted(rcv, exceeded, NoPayload)
        BY <2>4, <2>10, <3>1 DEF AcceptStart
      <3> QED
        BY <1>5, <1>7, <3>2 DEF Accepted, ReceiverEffect, acc, rcv
    <2>11. CASE f.len # BadLen /\ ~(f.len > max)
      <3>1. f.len \in Nat
        BY <2>2, <2>11, PrefixBytesFacts
      <3>2. f.len \in 0 .. max
        BY <2>7, <2>11, <3>1
      <3>3. f.seg = StartingSegment(f) /\ ~Refused(chs, offer)
        BY <2>1, <2>5, <2>6, <2>8, <2>11
      <3>4. CASE StartingSegment(f) = f.len
        <4>1. acc = Accepted(rcv, "SingleFrame", f.len)
          BY <2>4, <2>11, <3>2, <3>4 DEF AcceptStart
        <4>2. f.len = 0 + f.seg
          BY <3>1, <3>3, <3>4
        <4> QED
          BY <1>7, <2>3, <3>3, <4>1, <4>2 DEF Accepted, ReceiverEffect, acc, rcv
      <3>5. CASE StartingSegment(f) # f.len /\ rcv = Ready
        <4>1. acc = Accepted(InProgress(f.header, f.seg, f.len), "NewMultiFrame", NoPayload)
          BY <2>4, <2>11, <3>2, <3>3, <3>5 DEF AcceptStart
        <4>2. /\ acc.receiver.header = h /\ acc.receiver.received = f.seg
              /\ acc.payload = NoPayload
          BY <1>3, <4>1 DEF Accepted, InProgress
        <4> QED
          BY <1>7, <3>3, <4>2 DEF ReceiverEffect, acc, rcv
      <3>6. CASE StartingSegment(f) # f.len /\ rcv # Ready
        <4>1. acc = Accepted(rcv, "InProgress", NoPayload)
          BY <2>4, <2>11, <3>2, <3>6 DEF AcceptStart
        <4> QED
          BY <1>7, <3>3, <4>1 DEF Accepted, ReceiverEffect, acc, rcv
      <3> QED
        BY <3>4, <3>5, <3>6
    <2> QED
      BY <2>9, <2>10, <2>11
  <1> QED
    BY <1>6, <1>7

\* A handler leaves the receiver as accept left it, delivers no payload but the one
\* accept completed, and reports the errors of accept.
Follows(step, acc) ==
    /\ step.chan.current_multiframe_receiver = acc.receiver
    /\ step.payload \in {NoPayload, acc.payload}
    /\ acc.frame \in ErrorKind => step.outcome \in ErrorKind

\* The handler of RequestPl frames does.
LEMMA RequestPlFollows ==
  ASSUME NEW c \in Channels, NEW ch, ChannelOK(c, ch),
         NEW f, Legible(ch, f), f.header.channel = c, f.header.kind = "RequestPl"
  PROVE  Follows(OnRequestPl(c, ch, f), Received(ch, f))
  <1> DEFINE acc == Received(ch, f)
             ch2 == [ch EXCEPT !.current_multiframe_receiver = acc.receiver]
             rcv == ch.current_multiframe_receiver
             id  == f.header.id
             step == OnRequestPl(c, ch, f)
  <1>1. id \in Ids
    BY HeaderFacts DEF Legible
  <1>2. acc = Accept(rcv, f, MaxRequestPayload[c], "RequestTooLarge")
    BY DEF Received, MaxPayload
  <1>3. ReceivedOK(c, ch, f, acc, ch2)
    BY ReceivedFacts
  <1>4. step =
          CASE acc.frame = "NewMultiFrame" -> AdmitRequest(c, ch2, id, "Continue", NoPayload)
            [] acc.frame = "SingleFrame" -> AdmitRequest(c, ch2, id, "NewRequest", acc.payload)
            [] acc.frame = "IntermediateMultiFrame" -> Step(ch2, "Continue", NoPayload)
            [] acc.frame = "CompletedMultiFrame" -> Step(ch2, "NewRequest", acc.payload)
            [] acc.frame \in ErrorKind -> ErrMsg(ch2, acc.frame)
    BY <1>2 DEF OnRequestPl
  <1> SUFFICES Follows(step, acc)
    OBVIOUS
  <1> HIDE DEF acc, ch2, step
  <1>5. /\ ch2.current_multiframe_receiver = acc.receiver /\ ChannelOK(c, ch2)
        /\ acc.frame \in CompletedFrame \cup ErrorKind
    BY <1>3 DEF ReceivedOK
  <1>6. ASSUME NEW outcome, NEW payload \in {NoPayload, acc.payload},
               acc.frame \notin ErrorKind,
               step = AdmitRequest(c, ch2, id, outcome, payload)
        PROVE  Follows(step, acc)
    <2>1. \/ \E kind \in ErrorKind : step = ErrMsg(ch2, kind)
          \/ /\ step = Step(step.chan, outcome, payload)
             /\ step.chan.current_multiframe_receiver = ch2.current_multiframe_receiver
      BY <1>1, <1>5, <1>6, AdmitResult
    <2>2. CASE \E kind \in ErrorKind : step = ErrMsg(ch2, kind)
      <3>1. step.chan = ch2 /\ step.payload = NoPayload
        BY <2>2 DEF ErrMsg, Step
      <3> QED
        BY <1>5, <1>6, <3>1 DEF Follows
    <2>3. CASE /\ step = Step(step.chan, outcome, payload)
               /\ step.chan.current_multiframe_receiver = ch2.current_multiframe_receiver
      <3>1. step.payload = payload
        BY <2>3 DEF Step
      <3> QED
        BY <1>5, <1>6, <2>3, <3>1 DEF Follows
    <2> QED
      BY <2>1, <2>2, <2>3
  <1>7. CASE acc.frame = "NewMultiFrame"
    BY <1>4, <1>6, <1>7 DEF ErrorKind
  <1>8. CASE acc.frame = "SingleFrame"
    BY <1>4, <1>6, <1>8 DEF ErrorKind
  <1>9. CASE acc.frame = "IntermediateMultiFrame"
    BY <1>4, <1>5, <1>9 DEF ErrorKind, Follows, Step
  <1>10. CASE acc.frame = "CompletedMultiFrame"
    BY <1>4, <1>5, <1>10 DEF ErrorKind, Follows, Step
  <1>11. CASE acc.frame \in ErrorKind
    <2>1. step = ErrMsg(ch2, acc.frame)
      BY <1>4, <1>11 DEF ErrorKind
    <2> QED
      BY <1>5, <1>11, <2>1 DEF Follows, ErrMsg, Step
  <1> QED
    BY <1>5, <1>7, <1>8, <1>9, <1>10, <1>11 DEF CompletedFrame

\* The handler of ResponsePl frames does, for a request that is in flight.
LEMMA ResponsePlFollows ==
  ASSUME NEW c \in Channels, NEW ch, ChannelOK(c, ch),
         NEW f, Legible(ch, f), f.header.channel = c, f.header.kind = "ResponsePl",
         f.header.id \in ch.outgoing_requests
  PROVE  Follows(OnResponsePl(c, ch, f), Received(ch, f))
  <1> DEFINE acc == Received(ch, f)
             ch2 == [ch EXCEPT !.current_multiframe_receiver = acc.receiver]
             ch3 == [ch2 EXCEPT !.outgoing_requests = @ \ {f.header.id}]
             rcv == ch.current_multiframe_receiver
             id  == f.header.id
             step == OnResponsePl(c, ch, f)
  <1>1. id \in Ids
    BY HeaderFacts DEF Legible
  <1>2. acc = Accept(rcv, f, MaxResponsePayload[c], "ResponseTooLarge")
    BY DEF Received, MaxPayload
  <1>3. ReceivedOK(c, ch, f, acc, ch2)
    BY ReceivedFacts
  <1>4. step =
          CASE acc.frame \in {"NewMultiFrame", "IntermediateMultiFrame"} ->
                  Step(ch2, "Continue", NoPayload)
            [] acc.frame \in {"SingleFrame", "CompletedMultiFrame"} ->
                  Step(ch3, "ReceivedResponse", acc.payload)
            [] acc.frame \in ErrorKind -> ErrMsg(ch2, acc.frame)
    BY <1>2 DEF OnResponsePl
  <1> SUFFICES Follows(step, acc)
    OBVIOUS
  <1>5. /\ ch2.current_multiframe_receiver = acc.receiver /\ ChannelOK(c, ch2)
        /\ acc.frame \in CompletedFrame \cup ErrorKind
    <2> HIDE DEF acc, ch2
    <2> QED
      BY <1>3 DEF ReceivedOK
  <1>6. ch3.current_multiframe_receiver = acc.receiver
    <2> HIDE DEF acc, ch2
    <2> QED
      BY <1>1, <1>5, ForgetOutgoing
  <1> HIDE DEF acc, ch2, ch3, step
  <1>7. CASE acc.frame \in {"NewMultiFrame", "IntermediateMultiFrame"}
    BY <1>4, <1>5, <1>7 DEF ErrorKind, Follows, Step
  <1>8. CASE acc.frame \in {"SingleFrame", "CompletedMultiFrame"}
    BY <1>4, <1>6, <1>8 DEF ErrorKind, Follows, Step
  <1>9. CASE acc.frame \in ErrorKind
    <2>1. step = ErrMsg(ch2, acc.frame)
      BY <1>4, <1>9 DEF ErrorKind
    <2> QED
      BY <1>5, <1>9, <2>1 DEF Follows, ErrMsg, Step
  <1> QED
    BY <1>5, <1>7, <1>8, <1>9 DEF CompletedFrame

\* The frames without a payload deliver none, and leave the transfer alone or abort it.
LEMMA BareFrames ==
  ASSUME NEW c \in Channels, NEW ch, ChannelOK(c, ch), NEW f, f.header \in FrameHeaders,
         f.header.kind \in {"Request", "Response", "CancelReq", "CancelResp"}
  PROVE  LET step == ProcessFrame(c, ch, f) IN
         /\ step.payload = NoPayload
         /\ step.chan.current_multiframe_receiver \in {ch.current_multiframe_receiver, Ready}
  <1> DEFINE step == ProcessFrame(c, ch, f)
             id == f.header.id
             answered == [ch EXCEPT !.outgoing_requests = @ \ {id}]
  <1>1. id \in Ids /\ ch \in ChannelStates
    BY HeaderFacts DEF ChannelOK
  <1>2. answered.current_multiframe_receiver = ch.current_multiframe_receiver
    BY <1>1 DEF ChannelStates
  <1>3. CASE f.header.kind = "Request"
    <2>1. step = AdmitRequest(c, ch, id, "NewRequest", NoPayload)
      BY <1>3 DEF ProcessFrame, OnRequest
    <2> HIDE DEF step
    <2>2. \/ \E kind \in ErrorKind : step = ErrMsg(ch, kind)
          \/ /\ step = Step(step.chan, "NewRequest", NoPayload)
             /\ step.chan.current_multiframe_receiver = ch.current_multiframe_receiver
      BY <1>1, <2>1, AdmitResult
    <2>3. CASE \E kind \in ErrorKind : step = ErrMsg(ch, kind)
      BY <2>3 DEF ErrMsg, Step, step
    <2>4. CASE /\ step = Step(step.chan, "NewRequest", NoPayload)
               /\ step.chan.current_multiframe_receiver = ch.current_multiframe_receiver
      <3>1. step.payload = NoPayload
        BY <2>4 DEF Step
      <3> QED
        BY <2>4, <3>1 DEF step
    <2> QED
      BY <2>2, <2>3, <2>4
  <1>4. CASE f.header.kind = "Response"
    <2>1. step = IF id \in ch.outgoing_requests
                 THEN Step(answered, "ReceivedResponse", NoPayload)
                 ELSE ErrMsg(ch, "FictitiousRequest")
      BY <1>4 DEF ProcessFrame, OnResponse
    <2> HIDE DEF step, answered
    <2> QED
      BY <1>2, <2>1 DEF ErrMsg, Step, step
  <1>5. CASE f.header.kind = "CancelResp"
    <2>1. step = IF id \in ch.outgoing_requests
                 THEN Step(answered, "ResponseCancellation", NoPayload)
                 ELSE ErrMsg(ch, "FictitiousCancel")
      BY <1>5 DEF ProcessFrame, OnCancelResp
    <2> HIDE DEF step, answered
    <2> QED
      BY <1>2, <2>1 DEF ErrMsg, Step, step
  <1>6. CASE f.header.kind = "CancelReq"
    <2> DEFINE rcv2 == IF AbortsTransfer(ch, id) THEN Ready ELSE ch.current_multiframe_receiver
               in2 == IF AbortsTransfer(ch, id) THEN ch.incoming_requests \ {id}
                      ELSE ch.incoming_requests
               ch2 == [ch EXCEPT !.cancellation_allowance = @ - 1,
                                 !.current_multiframe_receiver = rcv2,
                                 !.incoming_requests = in2]
    <2>1. step = IF ch.cancellation_allowance = 0
                 THEN ErrMsg(ch, "CancellationLimitExceeded")
                 ELSE Step(ch2, IF id \in ch2.incoming_requests THEN "RequestCancellation"
                                ELSE "Continue", NoPayload)
      BY <1>6 DEF ProcessFrame, OnCancelReq
    <2>2. rcv2 \in {ch.current_multiframe_receiver, Ready}
      OBVIOUS
    <2> HIDE DEF rcv2, in2
    <2>3. ch2.current_multiframe_receiver = rcv2
      BY <1>1 DEF ChannelStates
    <2> HIDE DEF ch2, step
    <2> QED
      BY <2>1, <2>2, <2>3 DEF ErrMsg, Step, step
  <1> QED
    BY <1>3, <1>4, <1>5, <1>6

\* What handling a frame that was sent does to its channel.
LEMMA HandledFacts ==
  ASSUME NEW chs, ChannelsOK(chs), NEW offer \in Offers, NEW f, f = Offered(chs, offer),
         NEW h, h = offer.header, h.kind \in Kind, h.channel \in Channels
  PROVE  LET ch == chs[h.channel]
             step == ProcessFrame(h.channel, ch, f)
         IN  /\ ChannelOK(h.channel, step.chan)
             /\ Refused(chs, offer) => step.outcome \in ErrorKind
             /\ step.payload # NoPayload => step.payload = Before(chs, h) + f.seg
             /\ ReceiverEffect(chs, h, f.seg, ch.current_multiframe_receiver,
                               step.chan.current_multiframe_receiver)
  <1> DEFINE c == h.channel
             ch == chs[c]
             rcv == ch.current_multiframe_receiver
             step == ProcessFrame(c, ch, f)
  <1>1. h \in WireHeaders
    <2>1. "None" \notin Kind
      BY DEF Kind
    <2> QED
      BY <2>1, OfferFacts DEF NoHeader, Header
  <1>2. f.header = h /\ h \in FrameHeaders
    <2>1. f.header = h
      BY FrameIs DEF Offered
    <2>2. h = [kind |-> h.kind, channel |-> h.channel, id |-> h.id] /\ h.id \in Ids
      BY <1>1 DEF WireHeaders
    <2>3. h.channel \in Nat
      BY WireAssumption DEF Channels
    <2> QED
      BY <2>1, <2>2, <2>3 DEF FrameHeaders
  <1>3. ChannelOK(c, ch) /\ ch \in ChannelStates
    BY DEF ChannelsOK, ChannelOK
  <1>4. CASE h.kind \in {"Request", "Response", "CancelReq", "CancelResp"}
    <2>1. DecidedByHeader(chs, h) /\ ~Refused(chs, offer)
      BY <1>4 DEF DecidedByHeader, Refused
    <2>2. ~Continues(chs, h)
      BY <1>4, ContinuedTransfer
    <2>3. Legible(ch, f)
      BY <1>2, <1>4 DEF Legible
    <2>4. ChannelOK(c, step.chan)
      BY <1>2, <1>3, <2>3, ProcessFrameOK DEF HandledOK
    <2>5. /\ step.payload = NoPayload
          /\ step.chan.current_multiframe_receiver \in {rcv, Ready}
      BY <1>2, <1>3, <1>4, BareFrames
    <2> HIDE DEF step, rcv
    <2> QED
      BY <2>1, <2>2, <2>4, <2>5 DEF ReceiverEffect, step, rcv
  <1>5. CASE h.kind = "ResponsePl" /\ h.id \notin ch.outgoing_requests
    <2>1. DecidedByHeader(chs, h) /\ ~Refused(chs, offer)
      BY <1>5 DEF DecidedByHeader, Refused
    <2>2. f.seg = 0
      BY <2>1, FrameIs DEF Offered
    <2>3. step = ErrMsg(ch, "FictitiousRequest")
      BY <1>2, <1>5 DEF ProcessFrame, OnResponsePl
    <2>4. step.chan = ch /\ step.payload = NoPayload
      BY <2>3 DEF ErrMsg, Step
    <2>5. rcv.received \in Nat
      BY <1>3 DEF ChannelStates, Receivers
    <2>6. ReceiverEffect(chs, h, f.seg, rcv, rcv)
      <3>1. CASE Continues(chs, h)
        <4>1. rcv.header = h /\ rcv.received = rcv.received + f.seg
          BY <2>2, <2>5, <3>1 DEF Continues
        <4> QED
          BY <3>1, <4>1 DEF ReceiverEffect
      <3>2. CASE ~Continues(chs, h)
        BY <3>2 DEF ReceiverEffect
      <3> QED
        BY <3>1, <3>2
    <2> HIDE DEF step, rcv, ch
    <2> QED
      BY <1>3, <2>1, <2>4, <2>6 DEF step, rcv, ch
  <1>6. CASE /\ h.kind \in {"RequestPl", "ResponsePl"}
             /\ h.kind = "ResponsePl" => h.id \in ch.outgoing_requests
    <2> DEFINE acc == Received(ch, f)
    <2>1. ~DecidedByHeader(chs, h)
      <3>1. "None" \notin Kind /\ h.kind \notin ErrorKind
        BY <1>6 DEF Kind, ErrorKind
      <3>2. h # NoHeader
        BY <3>1 DEF NoHeader, Header
      <3> QED
        BY <1>6, <3>1, <3>2 DEF DecidedByHeader
    <2>2. rcv.header # h => Prefixed(f)
      <3>1. SUFFICES ASSUME rcv.header # h PROVE Prefixed(f)
        OBVIOUS
      <3>2. ~Continues(chs, h)
        BY <3>1 DEF Continues
      <3>3. f.len = offer.len /\ f.off = offer.off
        BY <2>1, <3>2, FrameIs DEF Offered
      <3>4. IsPrefix(f.len, f.off)
        BY <1>6, <3>3, OfferFacts DEF PrefixedKinds
      <3>5. f.len # BadLen => f.len \in Nat /\ f.off \in 1 .. 5
        BY <3>4, PrefixBytesFacts
      <3> QED
        BY <3>5 DEF Prefixed, VarintMaxLen
    <2>3. Legible(ch, f)
      BY <1>2, <2>2 DEF Legible
    <2>4. ChannelOK(c, step.chan)
      BY <1>2, <1>3, <2>3, ProcessFrameOK DEF HandledOK
    <2>5. Follows(step, acc)
      <3>1. CASE h.kind = "RequestPl"
        <4>1. step = OnRequestPl(c, ch, f)
          BY <1>2, <3>1 DEF ProcessFrame
        <4> QED
          BY <1>2, <1>3, <2>3, <3>1, <4>1, RequestPlFollows
      <3>2. CASE h.kind = "ResponsePl"
        <4>1. step = OnResponsePl(c, ch, f)
          BY <1>2, <3>2 DEF ProcessFrame
        <4> QED
          BY <1>2, <1>3, <1>6, <2>3, <3>2, <4>1, ResponsePlFollows
      <3> QED
        BY <1>6, <3>1, <3>2
    <2>6. /\ Refused(chs, offer) => acc.frame \in ErrorKind
          /\ acc.payload # NoPayload => acc.payload = Before(chs, h) + f.seg
          /\ ReceiverEffect(chs, h, f.seg, rcv, acc.receiver)
      BY <1>6, <2>1, AcceptSizes
    <2> HIDE DEF step, acc, rcv
    <2>7. step.payload # NoPayload => step.payload = Before(chs, h) + f.seg
      BY <2>5, <2>6 DEF Follows
    <2>8. ReceiverEffect(chs, h, f.seg, rcv, step.chan.current_multiframe_receiver)
      BY <2>5, <2>6 DEF Follows
    <2>9. Refused(chs, offer) => step.outcome \in ErrorKind
      BY <2>5, <2>6 DEF Follows
    <2> QED
      BY <2>4, <2>7, <2>8, <2>9 DEF step, rcv
  <1> QED
    BY <1>4, <1>5, <1>6 DEF Kind

\* What process_incoming does with a frame that was sent: the channels stay within
\* their bounds, a refused length prefix is an error, a payload that is delivered is
\* what was sent before and the segment, and no other channel is touched.
ReceivedWell(chs, f, refused, res) ==
    /\ ChannelsOK(res.channels)
    /\ refused => res.outcome \in ErrorKind
    /\ res.payload # NoPayload => res.payload = Before(chs, f.header) + f.seg
    /\ \A d \in Channels :
          IF f.header.kind \in Kind /\ d = f.header.channel
          THEN ReceiverEffect(chs, f.header, f.seg, chs[d].current_multiframe_receiver,
                              res.channels[d].current_multiframe_receiver)
          ELSE res.channels[d] = chs[d]

\* A frame that is decided without a look at a channel.
LEMMA NoChannelTouched ==
  ASSUME NEW chs, ChannelsOK(chs), NEW f, NEW refused \in BOOLEAN, NEW res,
         res.channels = chs, refused => res.outcome \in ErrorKind,
         f.header.kind \in Kind => f.header.channel \notin Channels,
         res.payload # NoPayload => res.payload = Before(chs, f.header) + f.seg
  PROVE  ReceivedWell(chs, f, refused, res)
  BY DEF ReceivedWell

\* It does, for every frame that is sent.
LEMMA ReceiveFacts ==
  ASSUME NEW chs, ChannelsOK(chs), NEW offer \in Offers
  PROVE  ReceivedWell(chs, Offered(chs, offer), Refused(chs, offer),
                      Receive(chs, Offered(chs, offer)))
  <1> DEFINE h == offer.header
             f == Offered(chs, offer)
             c == h.channel
             refused == Refused(chs, offer)
             res == Receive(chs, f)
             Now(outcome) == [channels |-> chs, outcome |-> outcome, payload |-> NoPayload]
  <1>1. h \in WireHeaders \/ h = NoHeader
    BY OfferFacts
  <1>2. f.header = h
    BY FrameIs DEF Offered
  <1>3. refused \in BOOLEAN
    BY DEF Refused
  <1>4. h = NoHeader \/ h.kind \in Kind \/ h.kind \in ErrorKind
    BY <1>1, WireHeaderFacts DEF WireKinds
  <1>5. NoHeader.kind = "None"
    BY DEF NoHeader, Header
  <1>6. CASE h.kind \in Kind /\ c \in Channels
    <2> DEFINE step == ProcessFrame(c, chs[c], f)
    <2>1. h # NoHeader /\ h.kind \notin ErrorKind /\ h.kind # "Other"
      BY <1>5, <1>6 DEF Kind, ErrorKind
    <2>2. res = [channels |-> [chs EXCEPT ![c] = step.chan],
                 outcome |-> step.outcome, payload |-> step.payload]
      BY <1>2, <1>6, <2>1 DEF Receive
    <2>3. /\ ChannelOK(c, step.chan)
          /\ refused => step.outcome \in ErrorKind
          /\ step.payload # NoPayload => step.payload = Before(chs, h) + f.seg
          /\ ReceiverEffect(chs, h, f.seg, chs[c].current_multiframe_receiver,
                            step.chan.current_multiframe_receiver)
      BY <1>6, HandledFacts
    <2> DEFINE chs2 == [chs EXCEPT ![c] = step.chan]
    <2> HIDE DEF step, f, refused, res
    <2>4. /\ chs2 = [d \in Channels |-> chs2[d]]
          /\ chs2[c] = step.chan
          /\ \A d \in Channels : d # c => chs2[d] = chs[d]
      BY <1>6 DEF ChannelsOK
    <2>5. res.channels = chs2 /\ res.outcome = step.outcome /\ res.payload = step.payload
      BY <2>2
    <2> HIDE DEF chs2
    <2>6. ChannelsOK(chs2)
      BY <2>3, <2>4 DEF ChannelsOK
    <2>7. \A d \in Channels :
              IF h.kind \in Kind /\ d = c
              THEN ReceiverEffect(chs, h, f.seg, chs[d].current_multiframe_receiver,
                                  chs2[d].current_multiframe_receiver)
              ELSE chs2[d] = chs[d]
      BY <1>6, <2>3, <2>4
    <2>8. ReceivedWell(chs, f, refused, res)
      BY <1>2, <2>3, <2>5, <2>6, <2>7 DEF ReceivedWell
    <2> QED
      BY <2>8 DEF f, refused, res
  <1>7. CASE h.kind \in Kind /\ c \notin Channels
    <2>1. h # NoHeader /\ h.kind \notin ErrorKind /\ h.kind # "Other"
      BY <1>5, <1>7 DEF Kind, ErrorKind
    <2>2. res = Now("InvalidChannel")
      BY <1>2, <1>7, <2>1 DEF Receive
    <2>3. "InvalidChannel" \in ErrorKind
      BY DEF ErrorKind
    <2> HIDE DEF f, refused, res
    <2>4. ReceivedWell(chs, f, refused, res)
      BY <1>2, <1>3, <1>7, <2>2, <2>3, NoChannelTouched
    <2> QED
      BY <2>4 DEF f, refused, res
  <1>8. CASE h = NoHeader
    <2>1. res = Now("InvalidHeader")
      BY <1>2, <1>8 DEF Receive, NoHeader, Header, ErrorKind, Kind
    <2>2. h.kind \notin Kind /\ "InvalidHeader" \in ErrorKind
      BY <1>5, <1>8 DEF ErrorKind, Kind
    <2> HIDE DEF f, refused, res
    <2>3. ReceivedWell(chs, f, refused, res)
      BY <1>2, <1>3, <2>1, <2>2, NoChannelTouched
    <2> QED
      BY <2>3 DEF f, refused, res
  <1>9. CASE h.kind \in ErrorKind /\ h.kind # "Other"
    <2>1. h # NoHeader /\ h.kind \notin Kind
      BY <1>5, <1>9 DEF Kind, ErrorKind
    <2>2. res = Now("ErrorReceived")
      BY <1>2, <1>9, <2>1 DEF Receive
    <2>3. ~refused
      BY <1>9 DEF Refused, DecidedByHeader
    <2> HIDE DEF f, refused, res
    <2>4. ReceivedWell(chs, f, refused, res)
      BY <1>2, <1>3, <2>1, <2>2, <2>3, NoChannelTouched
    <2> QED
      BY <2>4 DEF f, refused, res
  <1>10. CASE h.kind = "Other"
    <2>1. h # NoHeader /\ h.kind \notin Kind /\ "Other" \in ErrorKind
      BY <1>5, <1>10 DEF Kind, ErrorKind
    <2>2. ~DecidedByHeader(chs, h) /\ ~Continues(chs, h)
      BY <1>10, <2>1 DEF DecidedByHeader, Continues
    <2>3. /\ f.len = offer.len /\ f.off = offer.off
          /\ f.seg = IF PrefixRefused(h, offer.len, offer.off) THEN 0
                     ELSE StartOf(offer.len, offer.off)
      BY <2>2, FrameIs DEF Offered
    <2>4. IsPrefix(f.len, f.off)
      BY <1>10, <2>3, OfferFacts DEF PrefixedKinds
    <2>5. refused <=> PrefixRefused(h, f.len, f.off)
      BY <2>2, <2>3 DEF Refused
    <2>6. PrefixRefused(h, f.len, f.off)
             <=> f.len = BadLen \/ HeaderSize + f.off + f.len > MaxFrameSize
      BY <1>10 DEF PrefixRefused
    <2>7. Before(chs, h) = 0
      BY <2>2 DEF Before
    <2>8. MaxFrameSize \in Nat
      BY WireAssumption
    <2>9. "BadVarInt" \in ErrorKind /\ "SegmentViolation" \in ErrorKind
      BY DEF ErrorKind
    <2>10. CASE f.len = BadLen
      <3>1. ~(HeaderSize + f.off + f.len > MaxFrameSize)
        BY <2>4, <2>8, <2>10, PrefixBytesFacts, WireAssumption
        DEF BadLen, HeaderSize, MinFrameSize, VarintMaxLen
      <3>2. res = Now("BadVarInt")
        BY <1>2, <1>10, <2>1, <2>10, <3>1 DEF Receive
      <3> HIDE DEF f, refused, res
      <3>3. ReceivedWell(chs, f, refused, res)
        BY <1>2, <1>3, <2>1, <2>9, <3>2, NoChannelTouched
      <3> QED
        BY <3>3 DEF f, refused, res
    <2>11. CASE f.len # BadLen /\ HeaderSize + f.off + f.len > MaxFrameSize
      <3>1. f.len \in Nat /\ f.off \in Nat
        BY <2>4, <2>11, PrefixBytesFacts
      <3>2. ~(HeaderSize + f.off + f.len <= MaxFrameSize)
        BY <2>8, <2>11, <3>1 DEF HeaderSize
      <3>3. res = Now("SegmentViolation")
        BY <1>2, <1>10, <2>1, <2>11, <3>2 DEF Receive
      <3> HIDE DEF f, refused, res
      <3>4. ReceivedWell(chs, f, refused, res)
        BY <1>2, <1>3, <2>1, <2>9, <3>3, NoChannelTouched
      <3> QED
        BY <3>4 DEF f, refused, res
    <2>12. CASE f.len # BadLen /\ ~(HeaderSize + f.off + f.len > MaxFrameSize)
      <3>1. f.len \in Nat /\ f.off \in Nat
        BY <2>4, <2>12, PrefixBytesFacts
      <3>2. HeaderSize + f.off + f.len <= MaxFrameSize
        BY <2>8, <2>12, <3>1 DEF HeaderSize
      <3>3. res = [Now("ErrorReceived") EXCEPT !.payload = f.len]
        BY <1>2, <1>10, <2>1, <2>12, <3>2 DEF Receive
      <3>4. ~refused /\ f.seg = f.len
        BY <1>10, <2>3, <2>4, <2>5, <2>6, <2>12, StartSize
      <3> HIDE DEF f, refused, res
      <3>5. /\ res.channels = chs
            /\ res.payload # NoPayload => res.payload = Before(chs, f.header) + f.seg
        BY <1>2, <2>7, <3>1, <3>3, <3>4
      <3>6. ReceivedWell(chs, f, refused, res)
        BY <1>2, <1>3, <2>1, <3>4, <3>5, NoChannelTouched
      <3> QED
        BY <3>6 DEF f, refused, res
    <2> QED
      BY <2>10, <2>11, <2>12
  <1> QED
    BY <1>4, <1>6, <1>7, <1>8, <1>9, <1>10

-----------------------------------------------------------------------------
(* The frames on their way.                                                 *)

IsSequence(s) == \E T : s \in Seq(T)

\* A sequence is a prefix of itself and of what is appended to it.
LEMMA PrefixGrows ==
  ASSUME NEW s, IsSequence(s), NEW t, IsSequence(t), Prefix(s, t), NEW e
  PROVE  /\ IsSequence(Append(t, e))
         /\ Prefix(s, Append(t, e))
         /\ Prefix(Append(t, e), Append(t, e))
  <1>1. PICK T : s \in Seq(T) /\ t \in Seq(T) /\ e \in T
    <2>1. PICK A : s \in Seq(A)
      BY DEF IsSequence
    <2>2. PICK B : t \in Seq(B)
      BY DEF IsSequence
    <2> DEFINE T == A \cup B \cup {e}
    <2>3. s \in Seq(T)
      BY <2>1
    <2>4. t \in Seq(T)
      BY <2>2
    <2> QED
      BY <2>3, <2>4
  <1> DEFINE u == Append(t, e)
  <1>2. /\ u \in Seq(T) /\ Len(u) = Len(t) + 1 /\ Len(t) \in Nat /\ Len(s) \in Nat
        /\ \A i \in 1 .. Len(t) : u[i] = t[i]
    BY <1>1, AppendProperties
  <1>3. Len(s) <= Len(t) /\ s = SubSeq(t, 1, Len(s))
    BY DEF Prefix
  <1> HIDE DEF u
  <1>4. \A i \in 1 .. Len(s) : s[i] = u[i]
    <2>1. \A i \in 1 .. Len(s) : SubSeq(t, 1, Len(s))[i] = t[i]
      BY <1>1, <1>2, <1>3
    <2> QED
      BY <1>2, <1>3, <2>1
  <1>5. SubSeq(u, 1, Len(s)) = s
    BY <1>1, <1>2, <1>3, <1>4
  <1>6. SubSeq(u, 1, Len(u)) = u
    BY <1>2
  <1> QED
    BY <1>2, <1>3, <1>5, <1>6 DEF Prefix, IsSequence, u

\* A sequence is a prefix of itself.
LEMMA PrefixItself ==
  ASSUME NEW s, IsSequence(s)
  PROVE  Prefix(s, s)
  BY DEF IsSequence, Prefix

\* The state of a reader of whole frames, and the one after a frame.
Whole(chs, evs) == [channels |-> chs, events |-> evs]

After(s, offer) ==
    LET f   == Offered(s.channels, offer)
        res == Receive(s.channels, f)
    IN  Whole(res.channels,
              IF res.outcome = "Continue" THEN s.events
              ELSE Append(s.events, Event(f.header, res.outcome, Delivered(res.payload))))

\* S holds the states of that reader before, between and after the frames that are on
\* their way: every one of them was sent in the state that it will be read in.
Links(S, frames, first, last) ==
    /\ S[1] = first /\ S[Len(frames) + 1] = last
    /\ \A k \in 1 .. Len(frames) : \E offer \in Offers :
          frames[k] = OfferBytes(S[k].channels, offer) /\ S[k + 1] = After(S[k], offer)
    /\ \A k \in 1 .. Len(frames) + 1 :
          /\ ChannelsOK(S[k].channels) /\ IsSequence(S[k].events)
          /\ Prefix(S[k].events, last.events)

\* The ends of such a chain.
LEMMA LinkedEnds ==
  ASSUME NEW S, NEW frames \in Seq(Seq(Byte)), NEW first, NEW last,
         Links(S, frames, first, last)
  PROVE  /\ ChannelsOK(first.channels) /\ IsSequence(first.events)
         /\ ChannelsOK(last.channels) /\ IsSequence(last.events)
         /\ Prefix(first.events, last.events)
         /\ frames = <<>> => first = last
  <1>1. Len(frames) \in Nat /\ (frames = <<>> => Len(frames) = 0)
    BY LenProperties
  <1>2. 1 \in 1 .. Len(frames) + 1 /\ Len(frames) + 1 \in 1 .. Len(frames) + 1
    BY <1>1
  <1> QED
    BY <1>1, <1>2 DEF Links

\* What the state after a frame is.
LEMMA AfterFacts ==
  ASSUME NEW s, ChannelsOK(s.channels), IsSequence(s.events), NEW offer \in Offers,
         NEW t, IsSequence(t), Prefix(t, s.events)
  PROVE  /\ ChannelsOK(After(s, offer).channels)
         /\ IsSequence(After(s, offer).events)
         /\ Prefix(t, After(s, offer).events)
         /\ Prefix(After(s, offer).events, After(s, offer).events)
  <1> DEFINE f == Offered(s.channels, offer)
             res == Receive(s.channels, f)
             e == Event(f.header, res.outcome, Delivered(res.payload))
             after == After(s, offer)
  <1>1. ChannelsOK(res.channels)
    BY ReceiveFacts DEF ReceivedWell
  <1>2. /\ after.channels = res.channels
        /\ after.events = IF res.outcome = "Continue" THEN s.events ELSE Append(s.events, e)
    BY DEF After, Whole
  <1> HIDE DEF e, res, f, after
  <1>3. /\ IsSequence(after.events) /\ Prefix(t, after.events)
        /\ Prefix(after.events, after.events)
    <2>1. CASE res.outcome = "Continue"
      BY <1>2, <2>1, PrefixItself
    <2>2. CASE res.outcome # "Continue"
      BY <1>2, <2>2, PrefixGrows
    <2> QED
      BY <2>1, <2>2
  <1> QED
    BY <1>1, <1>2, <1>3 DEF after

\* A frame more that is sent.
LEMMA LinkMore ==
  ASSUME NEW S, NEW frames \in Seq(Seq(Byte)), NEW first, NEW last,
         Links(S, frames, first, last), NEW offer \in Offers,
         OfferBytes(last.channels, offer) \in Seq(Byte)
  PROVE  \E S2 : Links(S2, Append(frames, OfferBytes(last.channels, offer)), first,
                       After(last, offer))
  <1> DEFINE n == Len(frames)
             bytes == OfferBytes(last.channels, offer)
             more == Append(frames, bytes)
             after == After(last, offer)
             S2 == [k \in 1 .. n + 2 |-> IF k <= n + 1 THEN S[k] ELSE after]
  <1>1. /\ n \in Nat /\ Len(more) = n + 1 /\ more[n + 1] = bytes
        /\ \A k \in 1 .. n : more[k] = frames[k]
    BY AppendProperties
  <1> HIDE DEF more, n
  <1>2. \A k \in 1 .. n + 1 : S2[k] = S[k]
    BY <1>1
  <1>3. S2[n + 2] = after
    BY <1>1
  <1> HIDE DEF S2
  <1>4. /\ S[1] = first /\ S[n + 1] = last
        /\ \A k \in 1 .. n : \E o \in Offers :
              frames[k] = OfferBytes(S[k].channels, o) /\ S[k + 1] = After(S[k], o)
        /\ \A k \in 1 .. n + 1 :
              /\ ChannelsOK(S[k].channels) /\ IsSequence(S[k].events)
              /\ Prefix(S[k].events, last.events)
    BY DEF Links, n
  <1>5. ChannelsOK(last.channels) /\ IsSequence(last.events)
    BY LinkedEnds
  <1>6. S2[1] = first /\ S2[Len(more) + 1] = after
    BY <1>1, <1>2, <1>3, <1>4
  <1>7. ASSUME NEW k \in 1 .. Len(more)
        PROVE  \E o \in Offers :
                  more[k] = OfferBytes(S2[k].channels, o) /\ S2[k + 1] = After(S2[k], o)
    <2>1. CASE k \in 1 .. n
      <3>1. k \in 1 .. n + 1 /\ k + 1 \in 1 .. n + 1
        BY <1>1, <2>1
      <3>2. S2[k] = S[k] /\ S2[k + 1] = S[k + 1] /\ more[k] = frames[k]
        BY <1>1, <1>2, <2>1, <3>1
      <3> QED
        BY <1>4, <2>1, <3>2
    <2>2. CASE k = n + 1
      <3>1. n + 1 \in 1 .. n + 1 /\ k + 1 = n + 2
        BY <1>1, <2>2
      <3>2. S2[k] = last /\ S2[k + 1] = after /\ more[k] = bytes
        BY <1>1, <1>2, <1>3, <1>4, <2>2, <3>1
      <3> QED
        BY <3>2
    <2> QED
      BY <1>1, <2>1, <2>2
  <1>8. ASSUME NEW k \in 1 .. Len(more) + 1
        PROVE  /\ ChannelsOK(S2[k].channels) /\ IsSequence(S2[k].events)
               /\ Prefix(S2[k].events, after.events)
    <2>1. CASE k \in 1 .. n + 1
      <3>1. /\ S2[k] = S[k] /\ ChannelsOK(S[k].channels) /\ IsSequence(S[k].events)
            /\ Prefix(S[k].events, last.events)
        BY <1>2, <1>4, <2>1
      <3>2. Prefix(S[k].events, after.events)
        BY <1>5, <3>1, AfterFacts
      <3> QED
        BY <3>1, <3>2
    <2>2. CASE k = n + 2
      <3>1. Prefix(last.events, last.events)
        BY <1>5, PrefixItself
      <3>2. /\ ChannelsOK(after.channels) /\ IsSequence(after.events)
            /\ Prefix(after.events, after.events)
        BY <1>5, <3>1, AfterFacts
      <3> QED
        BY <1>3, <2>2, <3>2
    <2> QED
      BY <1>1, <2>1, <2>2
  <1>9. Links(S2, more, first, after)
    <2> HIDE DEF after
    <2> QED
      BY <1>6, <1>7, <1>8, Zenon DEF Links
  <1> QED
    BY <1>9 DEF more

\* A frame less that is to be read.
LEMMA LinkLess ==
  ASSUME NEW S, NEW frames \in Seq(Seq(Byte)), NEW first, NEW last,
         Links(S, frames, first, last), frames # <<>>
  PROVE  \E offer \in Offers :
            /\ Head(frames) = OfferBytes(first.channels, offer)
            /\ \E S2 : Links(S2, Tail(frames), After(first, offer), last)
  <1> DEFINE n == Len(frames)
             rest == Tail(frames)
             S2 == [k \in 1 .. n |-> S[k + 1]]
  <1>1. /\ n \in Nat /\ n >= 1 /\ Len(rest) = n - 1 /\ Head(frames) = frames[1]
        /\ \A k \in 1 .. n - 1 : rest[k] = frames[k + 1]
    BY EmptySeq, HeadTailProperties
  <1> HIDE DEF n, rest
  <1>2. \A k \in 1 .. n : S2[k] = S[k + 1]
    BY Zenon
  <1> HIDE DEF S2
  <1>3. /\ S[1] = first /\ S[n + 1] = last
        /\ \A k \in 1 .. n : \E o \in Offers :
              frames[k] = OfferBytes(S[k].channels, o) /\ S[k + 1] = After(S[k], o)
        /\ \A k \in 1 .. n + 1 :
              /\ ChannelsOK(S[k].channels) /\ IsSequence(S[k].events)
              /\ Prefix(S[k].events, last.events)
    BY DEF Links, n
  <1>4. 1 \in 1 .. n /\ n \in 1 .. n
    BY <1>1
  <1>5. PICK offer \in Offers : frames[1] = OfferBytes(S[1].channels, offer)
                                /\ S[1 + 1] = After(S[1], offer)
    BY <1>3, <1>4
  <1>6. S2[1] = After(first, offer) /\ S2[Len(rest) + 1] = last
    <2>1. Len(rest) + 1 = n
      BY <1>1
    <2> QED
      BY <1>2, <1>3, <1>4, <1>5, <2>1
  <1>7. ASSUME NEW k \in 1 .. Len(rest)
        PROVE  \E o \in Offers :
                  rest[k] = OfferBytes(S2[k].channels, o) /\ S2[k + 1] = After(S2[k], o)
    <2>1. k \in 1 .. n - 1 /\ k \in 1 .. n /\ k + 1 \in 1 .. n
      BY <1>1
    <2>2. rest[k] = frames[k + 1] /\ S2[k] = S[k + 1] /\ S2[k + 1] = S[(k + 1) + 1]
      BY <1>1, <1>2, <2>1
    <2>3. \E o \in Offers : frames[k + 1] = OfferBytes(S[k + 1].channels, o)
                            /\ S[(k + 1) + 1] = After(S[k + 1], o)
      BY <1>3, <2>1, Zenon
    <2> QED
      BY <2>2, <2>3, Zenon
  <1>8. ASSUME NEW k \in 1 .. Len(rest) + 1
        PROVE  /\ ChannelsOK(S2[k].channels) /\ IsSequence(S2[k].events)
               /\ Prefix(S2[k].events, last.events)
    <2>1. k \in 1 .. n /\ k + 1 \in 1 .. n + 1
      BY <1>1
    <2> QED
      BY <1>2, <1>3, <2>1, Zenon
  <1>9. Links(S2, rest, After(first, offer), last)
    BY <1>6, <1>7, <1>8, Zenon DEF Links
  <1>10. Head(frames) = OfferBytes(first.channels, offer)
    BY <1>1, <1>3, <1>5
  <1> QED
    BY <1>9, <1>10 DEF rest

\* A sequence of bytes cut in two.
LEMMA Cut ==
  ASSUME NEW s \in Seq(Byte), NEW k \in 0 .. Len(s)
  PROVE  /\ SubSeq(s, 1, k) \in Seq(Byte) /\ Len(SubSeq(s, 1, k)) = k
         /\ \A i \in 1 .. k : SubSeq(s, 1, k)[i] = s[i]
         /\ SubSeq(s, k + 1, Len(s)) \in Seq(Byte)
         /\ Len(SubSeq(s, k + 1, Len(s))) = Len(s) - k
         /\ \A i \in 1 .. Len(s) - k : SubSeq(s, k + 1, Len(s))[i] = s[k + i]
         /\ SubSeq(s, 1, k) \o SubSeq(s, k + 1, Len(s)) = s
  <1> DEFINE a == SubSeq(s, 1, k)
             z == SubSeq(s, k + 1, Len(s))
  <1>1. Len(s) \in Nat /\ k \in Nat /\ k <= Len(s) /\ \A i \in 1 .. Len(s) : s[i] \in Byte
    BY ElementOfSeq
  <1>2. a \in Seq(Byte) /\ Len(a) = k /\ \A i \in 1 .. k : a[i] = s[i]
    <2>1. \A i \in 1 .. k : i \in 1 .. Len(s)
      BY <1>1
    <2> QED
      BY <1>1, <2>1, SubSeqProperties
  <1>3. /\ z \in Seq(Byte) /\ Len(z) = Len(s) - k
        /\ \A i \in 1 .. Len(s) - k : z[i] = s[k + i]
    <2>1. \A i \in k + 1 .. Len(s) : i \in 1 .. Len(s)
      BY <1>1
    <2>2. k + 1 \in Int /\ Len(s) \in Int
      BY <1>1
    <2>3. /\ z \in Seq(Byte)
          /\ Len(z) = IF k + 1 <= Len(s) THEN Len(s) - (k + 1) + 1 ELSE 0
          /\ \A i \in 1 .. Len(s) - (k + 1) + 1 : z[i] = s[(k + 1) + i - 1]
      BY <1>1, <2>1, <2>2, SubSeqProperties
    <2> HIDE DEF z
    <2>4. Len(z) = Len(s) - k
      BY <1>1, <2>3
    <2>5. ASSUME NEW i \in 1 .. Len(s) - k PROVE z[i] = s[k + i]
      <3>1. i \in 1 .. Len(s) - (k + 1) + 1 /\ (k + 1) + i - 1 = k + i
        BY <1>1
      <3> QED
        BY <2>3, <3>1
    <2> QED
      BY <2>3, <2>4, <2>5
  <1> HIDE DEF a, z
  <1>4. /\ a \o z \in Seq(Byte) /\ Len(a \o z) = Len(a) + Len(z)
        /\ \A i \in 1 .. Len(a) + Len(z) :
              (a \o z)[i] = IF i <= Len(a) THEN a[i] ELSE z[i - Len(a)]
    BY <1>2, <1>3, TwoParts
  <1> DEFINE all == a \o z
  <1> HIDE DEF all
  <1>5. all \in Seq(Byte) /\ Len(all) = Len(s)
    BY <1>1, <1>2, <1>3, <1>4 DEF all
  <1>6. ASSUME NEW i \in 1 .. Len(s) PROVE all[i] = s[i]
    <2>1. all[i] = IF i <= k THEN a[i] ELSE z[i - k]
      BY <1>1, <1>2, <1>3, <1>4 DEF all
    <2>2. CASE i <= k
      BY <1>2, <2>1, <2>2
    <2>3. CASE ~(i <= k)
      <3>1. i - k \in 1 .. Len(s) - k /\ k + (i - k) = i
        BY <1>1, <2>3
      <3>2. z[i - k] = s[k + (i - k)]
        BY <1>3, <3>1
      <3> QED
        BY <2>1, <2>3, <3>1, <3>2
    <2> QED
      BY <2>2, <2>3
  <1>7. all = s
    BY <1>5, <1>6, SeqEqual
  <1> QED
    BY <1>2, <1>3, <1>7 DEF a, z, all

\* The bytes behind a frame that is taken off the buffer.
LEMMA Behind ==
  ASSUME NEW b \in Seq(Byte), NEW w \in Seq(Byte), NEW x \in Seq(Byte), NEW r \in Seq(Byte),
         b \o w = x \o r, Len(x) <= Len(b)
  PROVE  /\ SubSeq(b, Len(x) + 1, Len(b)) \in Seq(Byte)
         /\ SubSeq(b, Len(x) + 1, Len(b)) \o w = r
  <1> DEFINE k == Len(x)
             z == SubSeq(b, k + 1, Len(b))
             all == b \o w
             other == x \o r
             left == z \o w
  <1>1. Len(b) \in Nat /\ Len(w) \in Nat /\ k \in 0 .. Len(b) /\ Len(r) \in Nat /\ k \in Nat
    BY LenProperties
  <1>2. /\ z \in Seq(Byte) /\ Len(z) = Len(b) - k
        /\ \A i \in 1 .. Len(b) - k : z[i] = b[k + i]
    BY <1>1, Cut
  <1> HIDE DEF z
  <1>3. /\ Len(all) = Len(b) + Len(w)
        /\ \A i \in 1 .. Len(b) + Len(w) : all[i] = IF i <= Len(b) THEN b[i] ELSE w[i - Len(b)]
    BY TwoParts, Zenon
  <1>4. /\ Len(other) = Len(x) + Len(r)
        /\ \A i \in 1 .. Len(x) + Len(r) : other[i] = IF i <= Len(x) THEN x[i] ELSE r[i - Len(x)]
    BY TwoParts, Zenon
  <1>5. /\ left \in Seq(Byte) /\ Len(left) = Len(z) + Len(w)
        /\ \A i \in 1 .. Len(z) + Len(w) : left[i] = IF i <= Len(z) THEN z[i] ELSE w[i - Len(z)]
    BY <1>2, TwoParts, Zenon
  <1>6. all = other
    OBVIOUS
  <1> HIDE DEF all, other, left, k
  <1>7. Len(b) + Len(w) = k + Len(r) /\ Len(left) = Len(r)
    BY <1>1, <1>2, <1>3, <1>4, <1>5, <1>6 DEF k
  <1>8. ASSUME NEW i \in 1 .. Len(r) PROVE left[i] = r[i]
    <2> DEFINE j == k + i
    <2>1. /\ j \in 1 .. Len(b) + Len(w) /\ j \in 1 .. Len(x) + Len(r) /\ ~(j <= Len(x))
          /\ j - Len(x) = i /\ i \in 1 .. Len(z) + Len(w)
      BY <1>1, <1>2, <1>5, <1>7 DEF k
    <2>2. other[j] = r[i]
      BY <1>4, <2>1
    <2>3. all[j] = left[i]
      <3>1. CASE i <= Len(z)
        <4>1. j <= Len(b) /\ i \in 1 .. Len(b) - k
          BY <1>1, <1>2, <3>1
        <4>2. left[i] = z[i] /\ z[i] = b[j]
          BY <1>2, <1>5, <2>1, <3>1, <4>1
        <4>3. all[j] = b[j]
          BY <1>3, <2>1, <4>1
        <4> QED
          BY <4>2, <4>3
      <3>2. CASE ~(i <= Len(z))
        <4>1. ~(j <= Len(b)) /\ j - Len(b) = i - Len(z)
          BY <1>1, <1>2, <3>2
        <4>2. left[i] = w[i - Len(z)]
          BY <1>5, <2>1, <3>2
        <4>3. all[j] = w[j - Len(b)]
          BY <1>3, <2>1, <4>1
        <4> QED
          BY <4>1, <4>2, <4>3
      <3> QED
        BY <3>1, <3>2
    <2> QED
      BY <1>6, <2>2, <2>3
  <1>9. left = r
    BY <1>5, <1>7, <1>8, SeqEqual
  <1> QED
    BY <1>2, <1>9 DEF left, z, k

\* What is stored of the payloads in progress: the bytes received so far.
Stored(chs) == [c \in Channels |-> PayloadBytes(0, chs[c].current_multiframe_receiver.received)]

\* The bytes that are stored after a frame and the ones that are delivered are those of
\* the payload as far as it was sent.
LEMMA SegmentsJoined ==
  ASSUME ChannelsOK(channels), payloads = Stored(channels), NEW offer \in Offers,
         NEW f, f = Offered(channels, offer), NEW res, res = Receive(channels, f),
         NEW segment, segment = PayloadBytes(Before(channels, f.header), f.seg)
  PROVE  /\ [d \in Channels |->
                IF f.header.kind \in Kind /\ d = f.header.channel
                THEN StoredPayload(f, res.channels[d].current_multiframe_receiver, segment)
                ELSE payloads[d]] = Stored(res.channels)
         /\ res.payload # NoPayload =>
                CompletedPayload(f, segment) = PayloadBytes(0, res.payload)
  <1> DEFINE h == f.header
             c == h.channel
             before == Before(channels, h)
             Of(d) == channels[d].current_multiframe_receiver
             New(d) == res.channels[d].current_multiframe_receiver
  <1>0. ReceivedWell(channels, f, Refused(channels, offer), res)
    BY ReceiveFacts
  <1>1. f.seg \in Nat /\ before \in Nat
    BY OfferedParts DEF SentParts
  <1>2. \A d \in Channels : payloads[d] = PayloadBytes(0, Of(d).received)
    BY DEF Stored
  <1>3. PayloadBytes(0, 0) = <<>>
    <2>1. PayloadBytes(0, 0) \in Seq(Byte) /\ Len(PayloadBytes(0, 0)) = 0
      BY PayloadBytesFacts
    <2> QED
      BY <2>1, EmptySeq
  <1>4. Continues(channels, h) =>
           /\ c \in Channels /\ Of(c).header = h /\ before = Of(c).received
           /\ payloads[c] \o segment = PayloadBytes(0, before + f.seg)
    <2>1. SUFFICES ASSUME Continues(channels, h)
                   PROVE  /\ c \in Channels /\ Of(c).header = h /\ before = Of(c).received
                          /\ payloads[c] \o segment = PayloadBytes(0, before + f.seg)
      OBVIOUS
    <2>2. c \in Channels /\ Of(c).header = h /\ before = Of(c).received
      BY <2>1, ContinuedTransfer
    <2>3. payloads[c] = PayloadBytes(0, before)
      BY <1>2, <2>2
    <2>4. PayloadBytes(0, before) \o PayloadBytes(before, f.seg) = PayloadBytes(0, before + f.seg)
      BY <1>1, PayloadGrows
    <2> HIDE DEF before
    <2> QED
      BY <2>2, <2>3, <2>4 DEF before
  <1>5. ~Continues(channels, h) => before = 0 /\ segment = PayloadBytes(0, f.seg)
    BY DEF Before
  <1>6. ASSUME NEW d \in Channels, h.kind \in Kind, d = c
        PROVE  StoredPayload(f, New(d), segment) = PayloadBytes(0, New(d).received)
    <2>1. ReceiverEffect(channels, h, f.seg, Of(d), New(d))
      BY <1>0, <1>6 DEF ReceivedWell
    <2>2. StoredPayload(f, New(d), segment) =
            CASE New(d) = Ready -> <<>>
              [] New(d) # Ready /\ Continues(channels, h) -> payloads[c] \o segment
              [] New(d) # Ready /\ ~Continues(channels, h) ->
                    IF h = New(d).header THEN segment ELSE payloads[c]
      BY DEF StoredPayload
    <2>3. Ready.received = 0
      BY DEF Ready
    <2> HIDE DEF Of, New, before
    <2>4. CASE New(d) = Ready
      BY <1>3, <2>2, <2>3, <2>4
    <2>5. CASE New(d) # Ready /\ Continues(channels, h)
      <3>1. New(d).received = Of(d).received + f.seg
        BY <2>1, <2>5 DEF ReceiverEffect
      <3>2. StoredPayload(f, New(d), segment) = payloads[c] \o segment
        BY <2>2, <2>5
      <3> QED
        BY <1>4, <1>6, <2>5, <3>1, <3>2
    <2>6. CASE New(d) # Ready /\ ~Continues(channels, h)
      <3>1. StoredPayload(f, New(d), segment) =
                IF h = New(d).header THEN segment ELSE payloads[c]
        BY <2>2, <2>6
      <3>2. CASE New(d).header = h
        <4>1. New(d).received = f.seg \/ New(d) = Of(d)
          BY <2>1, <2>6 DEF ReceiverEffect
        <4>2. New(d) # Of(d)
          BY <1>6, <2>6, <3>2 DEF Continues, Of
        <4> QED
          BY <1>5, <2>6, <3>1, <3>2, <4>1, <4>2
      <3>3. CASE New(d).header # h
        <4>1. New(d) = Of(d)
          BY <2>1, <2>6, <3>3 DEF ReceiverEffect
        <4> QED
          BY <1>2, <1>6, <3>1, <3>3, <4>1
      <3> QED
        BY <3>2, <3>3
    <2> QED
      BY <2>4, <2>5, <2>6
  <1>7. ASSUME NEW d \in Channels, ~(h.kind \in Kind /\ d = c)
        PROVE  payloads[d] = PayloadBytes(0, New(d).received)
    <2>1. res.channels[d] = channels[d]
      BY <1>0, <1>7 DEF ReceivedWell
    <2> QED
      BY <1>2, <2>1
  <1>8. [d \in Channels |-> IF h.kind \in Kind /\ d = c
                            THEN StoredPayload(f, New(d), segment) ELSE payloads[d]]
        = Stored(res.channels)
    <2>1. \A d \in Channels :
             (IF h.kind \in Kind /\ d = c THEN StoredPayload(f, New(d), segment) ELSE payloads[d])
             = PayloadBytes(0, New(d).received)
      BY <1>6, <1>7, Zenon
    <2> QED
      BY <2>1, Zenon DEF Stored
  <1>9. res.payload # NoPayload => CompletedPayload(f, segment) = PayloadBytes(0, res.payload)
    <2>1. SUFFICES ASSUME res.payload # NoPayload
                   PROVE  CompletedPayload(f, segment) = PayloadBytes(0, res.payload)
      OBVIOUS
    <2>2. res.payload = before + f.seg
      BY <1>0, <2>1 DEF ReceivedWell
    <2>3. CASE Continues(channels, h)
      <3>1. CompletedPayload(f, segment) = payloads[c] \o segment
        BY <2>3 DEF CompletedPayload
      <3> QED
        BY <1>4, <2>2, <2>3, <3>1
    <2>4. CASE ~Continues(channels, h)
      <3>1. CompletedPayload(f, segment) = segment
        BY <2>4 DEF CompletedPayload
      <3>2. res.payload = f.seg
        BY <1>1, <1>5, <2>2, <2>4
      <3> QED
        BY <1>5, <2>4, <3>1, <3>2
    <2> QED
      BY <2>3, <2>4
  <1> QED
    BY <1>8, <1>9

-----------------------------------------------------------------------------
(* The reader keeps in step.                                                *)

ReaderTypes ==
    /\ sent \in 0 .. MaxFrames
    /\ wire \in Seq(Byte) /\ buffer \in Seq(Byte) /\ unread \in Seq(Seq(Byte))
    /\ next_parse_at \in Nat
    /\ state \in {"Open", "HungUp", "Ended", "Fatal"}

Reader == Whole(channels, events)
Sender == Whole(peer, expected)

\* As long as the connection is open, every frame on its way was sent in the state of
\* the channels in which it will be read.
InTransit == \E S : Links(S, unread, Reader, Sender)

\* The inductive invariant: the reader stores the bytes it received, it reported what
\* was expected so far, and what is in its buffer and on the wire are the frames in
\* transit.
ReaderInv ==
    /\ ReaderTypes
    /\ ChannelsOK(channels) /\ payloads = Stored(channels)
    /\ Prefix(events, expected)
    /\ InStep /\ WaitsWithinFrame
    /\ state = "Open" => InTransit

\* A channel of the initial state.
LEMMA FirstChannels ==
  ASSUME NEW chs, chs = [c \in Channels |->
                            [NewChannel EXCEPT !.outgoing_requests = Outstanding[c]]]
  PROVE  /\ ChannelsOK(chs)
         /\ \A c \in Channels : chs[c].current_multiframe_receiver = Ready
  <1>1. ASSUME NEW c \in Channels
        PROVE  ChannelOK(c, chs[c]) /\ chs[c].current_multiframe_receiver = Ready
    <2> DEFINE ch == [NewChannel EXCEPT !.outgoing_requests = Outstanding[c]]
    <2>1. NewChannel \in ChannelStates /\ ChannelBounded(c, NewChannel)
      BY NewChannelOK DEF ChannelOK
    <2>2. Outstanding[c] \in SUBSET Ids /\ Cardinality(Outstanding[c]) <= RequestLimit[c]
      BY FramingAssumption, SMT
    <2>3. /\ ch \in ChannelStates
          /\ ch.incoming_requests = NewChannel.incoming_requests
          /\ ch.outgoing_requests = Outstanding[c]
          /\ ch.current_multiframe_receiver = NewChannel.current_multiframe_receiver
          /\ ch.cancellation_allowance = NewChannel.cancellation_allowance
      BY <2>1, <2>2 DEF ChannelStates
    <2>4. NewChannel.current_multiframe_receiver = Ready
      BY DEF NewChannel
    <2>5. chs[c] = ch
      OBVIOUS
    <2> HIDE DEF ch
    <2>6. ChannelBounded(c, ch)
      BY <2>1, <2>2, <2>3 DEF ChannelBounded
    <2> QED
      BY <2>3, <2>4, <2>5, <2>6 DEF ChannelOK
  <1> QED
    BY <1>1 DEF ChannelsOK

\* Nothing was sent, read or stored.
LEMMA ReaderInit ==
  ASSUME Init
  PROVE  ReaderInv
  <1>1. ChannelsOK(channels) /\ \A c \in Channels : channels[c].current_multiframe_receiver = Ready
    BY FirstChannels DEF Init
  <1>2. IsSequence(<<>>) /\ Prefix(<<>>, <<>>)
    <2>1. IsSequence(<<>>)
      BY DEF IsSequence
    <2> QED
      BY <2>1, PrefixItself
  <1>3. payloads = Stored(channels)
    <2>1. PayloadBytes(0, 0) \in Seq(Byte) /\ Len(PayloadBytes(0, 0)) = 0
      BY PayloadBytesFacts
    <2>2. PayloadBytes(0, 0) = <<>>
      BY <2>1, EmptySeq
    <2>3. Ready.received = 0
      BY DEF Ready
    <2> QED
      BY <1>1, <2>2, <2>3 DEF Init, Stored
  <1>4. /\ wire = <<>> /\ buffer = <<>> /\ unread = <<>> /\ sent = 0 /\ next_parse_at = 0
        /\ state = "Open" /\ events = <<>> /\ expected = <<>> /\ peer = channels
    BY DEF Init
  <1>5. ReaderTypes
    <2>1. MaxFrames \in Nat
      BY FramingAssumption, SMT
    <2> QED
      BY <1>4, <2>1 DEF ReaderTypes
  <1>6. InStep /\ WaitsWithinFrame
    BY <1>4, BytesEmpty DEF InStep, WaitsWithinFrame, HeaderSize
  <1>7. InTransit
    <2> DEFINE S == [k \in 1 .. 1 |-> Reader]
    <2>1. Len(unread) = 0 /\ S[1] = Reader /\ Reader = Sender
      BY <1>4 DEF Reader, Sender
    <2>2. Reader.channels = channels /\ Reader.events = <<>> /\ Sender.events = <<>>
      BY <1>4 DEF Reader, Sender, Whole
    <2> HIDE DEF S
    <2>3. Links(S, unread, Reader, Sender)
      <3>1. S[Len(unread) + 1] = Sender /\ 1 .. Len(unread) = {}
        BY <2>1
      <3>2. \A k \in 1 .. Len(unread) + 1 : S[k] = Reader
        BY <2>1
      <3> QED
        BY <1>1, <1>2, <2>1, <2>2, <3>1, <3>2 DEF Links
    <2> QED
      BY <2>3 DEF InTransit
  <1> QED
    BY <1>1, <1>2, <1>3, <1>4, <1>5, <1>6, <1>7 DEF ReaderInv

\* The size that stands for never is a number.
LEMMA NeverAgainIsNat == NeverAgain \in Nat
  BY SMT DEF NeverAgain

\* The frame at the front of the buffer, in terms of what was sent.
LEMMA FrontOfStream ==
  ASSUME ReaderInv, state = "Open", unread # <<>>
  PROVE  \E offer \in Offers :
            /\ Head(unread) = OfferBytes(channels, offer)
            /\ Head(unread) \in Seq(Byte) /\ Tail(unread) \in Seq(Seq(Byte))
            /\ buffer \o wire = Head(unread) \o Bytes(Tail(unread))
            /\ FrontFound(channels, offer, buffer)
            /\ \E S : Links(S, Tail(unread), After(Reader, offer), Sender)
  <1>1. /\ wire \in Seq(Byte) /\ buffer \in Seq(Byte) /\ unread \in Seq(Seq(Byte))
        /\ ChannelsOK(channels)
    BY DEF ReaderInv, ReaderTypes
  <1>2. PICK S : Links(S, unread, Reader, Sender)
    BY DEF ReaderInv, InTransit
  <1>3. Reader.channels = channels
    BY DEF Reader, Whole
  <1>4. PICK offer \in Offers :
            /\ Head(unread) = OfferBytes(Reader.channels, offer)
            /\ \E S2 : Links(S2, Tail(unread), After(Reader, offer), Sender)
    BY <1>1, <1>2, LinkLess
  <1>5. Head(unread) \in Seq(Byte) /\ Tail(unread) \in Seq(Seq(Byte))
    BY <1>1, HeadTailProperties
  <1>6. buffer \o wire = Head(unread) \o Bytes(Tail(unread))
    <2>1. buffer \o wire = Bytes(unread)
      BY DEF ReaderInv, InStep
    <2>2. Bytes(unread) = Head(unread) \o Bytes(Tail(unread))
      BY <1>1, BytesHead
    <2> QED
      BY <2>1, <2>2
  <1>7. Bytes(Tail(unread)) \in Seq(Byte)
    BY <1>5, BytesType
  <1>8. Agrees(buffer, OfferBytes(channels, offer))
    BY <1>1, <1>3, <1>4, <1>5, <1>6, <1>7, FrontAgrees
  <1>9. FrontFound(channels, offer, buffer)
    BY <1>1, <1>8, FrontFrame
  <1> QED
    BY <1>3, <1>4, <1>5, <1>6, <1>9

\* With no frame on its way the buffer is empty, and the reader wants a header.
LEMMA NothingToRead ==
  ASSUME ReaderInv, state = "Open", unread = <<>>
  PROVE  Needs(channels, buffer) = HeaderSize /\ Len(buffer) = 0
  <1>1. wire \in Seq(Byte) /\ buffer \in Seq(Byte)
    BY DEF ReaderInv, ReaderTypes
  <1>2. buffer \o wire = <<>>
    BY BytesEmpty DEF ReaderInv, InStep
  <1>3. Len(buffer \o wire) = 0 /\ Len(buffer \o wire) = Len(buffer) + Len(wire)
    BY <1>1, <1>2, TwoParts
  <1>4. Len(buffer) = 0
    BY <1>1, <1>3, LenProperties
  <1> QED
    BY <1>4 DEF Needs, HeaderSize

\* A frame is sent.
LEMMA ReaderSend ==
  ASSUME ReaderInv, NEW offer \in Offers, Send(offer)
  PROVE  ReaderInv'
  <1> DEFINE f == Offered(peer, offer)
             bytes == OfferBytes(peer, offer)
             res == Receive(peer, f)
  <1>1. /\ wire \in Seq(Byte) /\ buffer \in Seq(Byte) /\ unread \in Seq(Seq(Byte))
        /\ ChannelsOK(channels) /\ payloads = Stored(channels) /\ next_parse_at \in Nat
    BY DEF ReaderInv, ReaderTypes
  <1>2. /\ state = "Open" /\ sent < MaxFrames /\ sent' = sent + 1
        /\ peer' = res.channels
        /\ expected' = IF res.outcome = "Continue" THEN expected
                       ELSE Append(expected,
                                   Event(f.header, res.outcome, Delivered(res.payload)))
        /\ wire' = wire \o bytes /\ unread' = Append(unread, bytes)
        /\ buffer' = buffer /\ next_parse_at' = next_parse_at /\ channels' = channels
        /\ payloads' = payloads /\ events' = events /\ state' = state
    BY DEF Send, reading, Offered, OfferBytes
  <1>3. PICK S : Links(S, unread, Reader, Sender)
    BY <1>2 DEF ReaderInv, InTransit
  <1>4. Sender.channels = peer /\ Sender.events = expected
    BY DEF Sender, Whole
  <1>5. ChannelsOK(peer)
    BY <1>1, <1>3, <1>4, LinkedEnds
  <1>6. SentParts(peer, offer, f, bytes)
    BY <1>5, OfferedParts
  <1>7. bytes \in Seq(Byte) /\ Len(bytes) >= 4
    <2>1. /\ bytes \in Seq(Byte) /\ Len(bytes) = 4 + Len(PrefixBytes(f.len, f.off)) + f.seg
          /\ PrefixBytes(f.len, f.off) \in Seq(Byte) /\ f.seg \in Nat
      BY <1>6 DEF SentParts
    <2> HIDE DEF bytes, f
    <2> DEFINE n == Len(PrefixBytes(f.len, f.off))
    <2>2. n \in Nat /\ Len(bytes) = 4 + n + f.seg
      BY <2>1, LenProperties
    <2> HIDE DEF n
    <2> QED
      BY <2>1, <2>2
  <1>8. Sender' = After(Sender, offer)
    BY <1>2, <1>4 DEF Sender, After, Whole
  <1>9. Reader' = Reader
    BY <1>2 DEF Reader, Whole
  <1>10. \E S2 : Links(S2, Append(unread, bytes), Reader, After(Sender, offer))
    BY <1>1, <1>3, <1>4, <1>7, LinkMore
  <1> HIDE DEF bytes, f, res
  <1>11. PICK S2 : Links(S2, unread', Reader', Sender')
    BY <1>2, <1>8, <1>9, <1>10
  <1>12. unread' \in Seq(Seq(Byte)) /\ wire' \in Seq(Byte)
    BY <1>1, <1>2, <1>7, AppendProperties, TwoParts
  <1>13. ReaderTypes'
    <2>1. sent' \in 0 .. MaxFrames
      <3>1. sent \in 0 .. MaxFrames /\ MaxFrames \in Nat
        BY FramingAssumption, SMT DEF ReaderInv, ReaderTypes
      <3> QED
        BY <1>2, <3>1
    <2> QED
      BY <1>1, <1>2, <1>12, <2>1 DEF ReaderTypes
  <1>14. Prefix(events, expected)'
    <2>1. /\ Reader'.events = events' /\ Sender'.events = expected'
      BY DEF Reader, Sender, Whole
    <2> QED
      BY <1>11, <1>12, <2>1, LinkedEnds
  <1>15. InStep'
    <2>1. buffer \o wire = Bytes(unread)
      BY <1>2 DEF ReaderInv, InStep
    <2>2. Bytes(Append(unread, bytes)) = Bytes(unread) \o bytes
      BY <1>1, <1>7, BytesAppend
    <2>3. (buffer \o wire) \o bytes = buffer \o (wire \o bytes)
      BY <1>1, <1>7, ByteAssoc, Zenon
    <2>4. buffer' \o wire' = Bytes(unread')
      BY <1>2, <2>1, <2>2, <2>3
    <2> QED
      BY <2>4 DEF InStep, Bytes
  <1>16. WaitsWithinFrame'
    <2>1. next_parse_at <= IF unread = <<>> THEN HeaderSize ELSE Len(Head(unread))
      BY <1>2 DEF ReaderInv, WaitsWithinFrame
    <2>2. unread' # <<>> /\ Head(unread') = IF unread = <<>> THEN bytes ELSE Head(unread)
      BY <1>1, <1>2, <1>7
    <2>3. next_parse_at' <= Len(Head(unread'))
      <3>1. CASE unread = <<>>
        <4>1. Len(bytes) \in Nat
          BY <1>7, LenProperties
        <4> QED
          BY <1>1, <1>2, <1>7, <2>1, <2>2, <3>1, <4>1 DEF HeaderSize
      <3>2. CASE unread # <<>>
        BY <1>2, <2>1, <2>2, <3>2
      <3> QED
        BY <3>1, <3>2
    <2> QED
      BY <2>2, <2>3 DEF WaitsWithinFrame
  <1>17. InTransit'
    BY <1>11 DEF InTransit
  <1>18. ChannelsOK(channels') /\ payloads' = Stored(channels')
    BY <1>1, <1>2
  <1> QED
    BY <1>13, <1>14, <1>15, <1>16, <1>17, <1>18 DEF ReaderInv

\* Bytes move from the wire to the buffer.
LEMMA ReaderRead ==
  ASSUME ReaderInv, NEW count \in 1 .. Len(wire), Read(count)
  PROVE  ReaderInv'
  <1> DEFINE a == SubSeq(wire, 1, count)
             z == SubSeq(wire, count + 1, Len(wire))
  <1>1. /\ wire \in Seq(Byte) /\ buffer \in Seq(Byte) /\ unread \in Seq(Seq(Byte))
        /\ ReaderTypes
    BY DEF ReaderInv, ReaderTypes
  <1>2. /\ state = "Open" /\ buffer' = buffer \o a /\ wire' = z
        /\ sent' = sent /\ peer' = peer /\ expected' = expected /\ unread' = unread
        /\ next_parse_at' = next_parse_at /\ channels' = channels
        /\ payloads' = payloads /\ events' = events /\ state' = state
    BY DEF Read, reading, sending
  <1>3. count \in 0 .. Len(wire)
    BY <1>1, LenProperties
  <1>4. a \in Seq(Byte) /\ z \in Seq(Byte) /\ a \o z = wire
    BY <1>1, <1>3, Cut
  <1> HIDE DEF a, z
  <1>5. (buffer \o a) \o z = buffer \o (a \o z) /\ buffer \o a \in Seq(Byte)
    BY <1>1, <1>4, ByteAssoc, TwoParts, Zenon
  <1>6. ReaderTypes'
    BY <1>1, <1>2, <1>4, <1>5 DEF ReaderTypes
  <1>7. InStep'
    <2>1. buffer' \o wire' = Bytes(unread')
      BY <1>2, <1>4, <1>5 DEF ReaderInv, InStep
    <2> QED
      BY <2>1 DEF InStep, Bytes
  <1>8. WaitsWithinFrame'
    BY <1>2 DEF ReaderInv, WaitsWithinFrame
  <1>9. InTransit'
    <2>1. Reader' = Reader /\ Sender' = Sender
      BY <1>2 DEF Reader, Sender, Whole
    <2> QED
      BY <1>2, <2>1 DEF ReaderInv, InTransit
  <1>10. ChannelsOK(channels') /\ payloads' = Stored(channels') /\ Prefix(events', expected')
    BY <1>2 DEF ReaderInv
  <1> QED
    BY <1>6, <1>7, <1>8, <1>9, <1>10 DEF ReaderInv

\* The connection is lost.
LEMMA ReaderHangUp ==
  ASSUME ReaderInv, HangUp
  PROVE  ReaderInv'
  <1>1. /\ state' = "HungUp" /\ wire' = wire /\ buffer' = buffer
        /\ sent' = sent /\ peer' = peer /\ expected' = expected /\ unread' = unread
        /\ next_parse_at' = next_parse_at /\ channels' = channels
        /\ payloads' = payloads /\ events' = events
    BY DEF HangUp, sending
  <1>2. ReaderTypes'
    BY <1>1 DEF ReaderInv, ReaderTypes
  <1>3. InStep' /\ WaitsWithinFrame' /\ state' # "Open"
    BY <1>1 DEF InStep, WaitsWithinFrame
  <1>4. ChannelsOK(channels') /\ payloads' = Stored(channels') /\ Prefix(events', expected')
    BY <1>1 DEF ReaderInv
  <1> QED
    BY <1>2, <1>3, <1>4 DEF ReaderInv

\* process_incoming asks for more.
LEMMA ReaderIncomplete ==
  ASSUME ReaderInv, ParseIncomplete
  PROVE  ReaderInv'
  <1> DEFINE n == Needs(channels, buffer)
  <1>1. /\ state = "Open" /\ n > Len(buffer) /\ next_parse_at' = n
        /\ state' = state /\ wire' = wire /\ buffer' = buffer
        /\ sent' = sent /\ peer' = peer /\ expected' = expected /\ unread' = unread
        /\ channels' = channels /\ payloads' = payloads /\ events' = events
    BY DEF ParseIncomplete, sending
  <1>2. n \in Nat /\ n <= IF unread = <<>> THEN HeaderSize ELSE Len(Head(unread))
    <2>1. CASE unread = <<>>
      <3>1. n = HeaderSize
        BY <1>1, <2>1, NothingToRead
      <3> HIDE DEF n
      <3> QED
        BY <2>1, <3>1 DEF HeaderSize
    <2>2. CASE unread # <<>>
      <3>1. PICK offer \in Offers : /\ Head(unread) = OfferBytes(channels, offer)
                                    /\ FrontFound(channels, offer, buffer)
        BY <1>1, <2>2, FrontOfStream
      <3> QED
        BY <1>1, <2>2, <3>1 DEF FrontFound
    <2> QED
      BY <2>1, <2>2
  <1> HIDE DEF n
  <1>3. ReaderTypes'
    BY <1>1, <1>2 DEF ReaderInv, ReaderTypes
  <1>4. InStep'
    BY <1>1 DEF ReaderInv, InStep, Bytes
  <1>5. WaitsWithinFrame'
    BY <1>1, <1>2 DEF WaitsWithinFrame
  <1>6. InTransit'
    <2>1. Reader' = Reader /\ Sender' = Sender
      BY <1>1 DEF Reader, Sender, Whole
    <2> QED
      BY <1>1, <2>1 DEF ReaderInv, InTransit
  <1>7. ChannelsOK(channels') /\ payloads' = Stored(channels') /\ Prefix(events', expected')
    BY <1>1 DEF ReaderInv
  <1> QED
    BY <1>3, <1>4, <1>5, <1>6, <1>7 DEF ReaderInv

\* process_incoming takes a frame off the buffer, or ends the connection over it.
LEMMA ReaderFrame ==
  ASSUME ReaderInv, ParseFrame
  PROVE  ReaderInv'
  <1> DEFINE f == FrameAt(channels, buffer)
             res == Receive(channels, f)
             front == HeaderSize + f.off
             segment == SubSeq(buffer, front + 1, front + f.seg)
             payload == IF res.payload = NoPayload THEN <<>>
                        ELSE <<CompletedPayload(f, segment)>>
             stored == [d \in Channels |->
                           IF f.header.kind \in Kind /\ d = f.header.channel
                           THEN StoredPayload(f, res.channels[d].current_multiframe_receiver,
                                              segment)
                           ELSE payloads[d]]
             Taken == /\ res.outcome \notin ErrorKind
                      /\ state' = IF res.outcome = "ErrorReceived" THEN "Ended" ELSE "Open"
                      /\ next_parse_at' = 0
                      /\ buffer' = SubSeq(buffer, front + f.seg + 1, Len(buffer))
                      /\ unread' = Tail(unread)
             Ended == /\ res.outcome \in ErrorKind
                      /\ state' = "Fatal"
                      /\ next_parse_at' = NeverAgain
                      /\ buffer' = <<>>
                      /\ unread' = <<>>
  <1>1. /\ wire \in Seq(Byte) /\ buffer \in Seq(Byte) /\ unread \in Seq(Seq(Byte))
        /\ ChannelsOK(channels) /\ payloads = Stored(channels) /\ sent \in 0 .. MaxFrames
    BY DEF ReaderInv, ReaderTypes
  <1>2. /\ state = "Open" /\ Needs(channels, buffer) <= Len(buffer)
        /\ channels' = res.channels /\ payloads' = stored
        /\ events' = IF res.outcome = "Continue" THEN events
                     ELSE Append(events, Event(f.header, res.outcome, payload))
        /\ Taken \/ Ended
        /\ sent' = sent /\ peer' = peer /\ expected' = expected /\ wire' = wire
    BY DEF ParseFrame, sending
  <1>3. unread # <<>>
    <2>1. SUFFICES ASSUME unread = <<>> PROVE FALSE
      OBVIOUS
    <2>2. Needs(channels, buffer) = HeaderSize /\ Len(buffer) = 0
      BY <1>2, <2>1, NothingToRead
    <2> QED
      BY <1>2, <2>2 DEF HeaderSize
  <1>4. PICK offer \in Offers :
            /\ Head(unread) = OfferBytes(channels, offer)
            /\ Head(unread) \in Seq(Byte) /\ Tail(unread) \in Seq(Seq(Byte))
            /\ buffer \o wire = Head(unread) \o Bytes(Tail(unread))
            /\ FrontFound(channels, offer, buffer)
            /\ \E S : Links(S, Tail(unread), After(Reader, offer), Sender)
    BY <1>2, <1>3, FrontOfStream
  <1>5. /\ f = Offered(channels, offer)
        /\ ~Refused(channels, offer) =>
              Len(Head(unread)) = front + f.seg /\ Len(Head(unread)) <= Len(buffer)
    BY <1>2, <1>4 DEF FrontFound
  <1>6. segment = PayloadBytes(Before(channels, f.header), f.seg)
    BY <1>2, <1>4 DEF FrontFound
  <1> HIDE DEF f, segment, front
  <1>7. ReceivedWell(channels, f, Refused(channels, offer), res)
    BY <1>1, <1>5, ReceiveFacts
  <1>8. /\ stored = Stored(res.channels)
        /\ res.payload # NoPayload => CompletedPayload(f, segment) = PayloadBytes(0, res.payload)
    BY <1>1, <1>5, <1>6, SegmentsJoined
  <1> HIDE DEF res, stored
  <1>9. payload = Delivered(res.payload)
    BY <1>8 DEF Delivered
  <1> HIDE DEF payload
  <1>10. Reader' = After(Reader, offer)
    <2>1. Reader.channels = channels /\ Reader.events = events
      BY DEF Reader, Whole
    <2>2. res = Receive(channels, f)
      BY DEF res
    <2>3. After(Reader, offer) =
            Whole(res.channels,
                  IF res.outcome = "Continue" THEN events
                  ELSE Append(events, Event(f.header, res.outcome, Delivered(res.payload))))
      BY <1>5, <2>1, <2>2 DEF After
    <2>4. Reader' = Whole(channels', events')
      BY DEF Reader, Whole
    <2> QED
      BY <1>2, <1>9, <2>3, <2>4
  <1>11. Sender' = Sender
    BY <1>2 DEF Sender, Whole
  <1>12. PICK S : Links(S, Tail(unread), Reader', Sender')
    BY <1>4, <1>10, <1>11
  <1>13. Prefix(events', expected')
    <2>1. Reader'.events = events' /\ Sender'.events = expected'
      BY DEF Reader, Sender, Whole
    <2> QED
      BY <1>4, <1>12, <2>1, LinkedEnds
  <1>14. ChannelsOK(channels') /\ payloads' = Stored(channels')
    BY <1>2, <1>7, <1>8 DEF ReceivedWell
  <1>15. CASE Taken
    <2>1. ~Refused(channels, offer)
      BY <1>7, <1>15 DEF ReceivedWell
    <2>2. Len(Head(unread)) = front + f.seg /\ Len(Head(unread)) <= Len(buffer)
      BY <1>5, <2>1
    <2>3. Bytes(Tail(unread)) \in Seq(Byte)
      BY <1>4, BytesType
    <2>4. /\ SubSeq(buffer, Len(Head(unread)) + 1, Len(buffer)) \in Seq(Byte)
          /\ SubSeq(buffer, Len(Head(unread)) + 1, Len(buffer)) \o wire = Bytes(Tail(unread))
      BY <1>1, <1>4, <2>2, <2>3, Behind
    <2>5. buffer' \in Seq(Byte) /\ buffer' \o wire = Bytes(Tail(unread))
      BY <1>15, <2>2, <2>4
    <2>6. ReaderTypes'
      BY <1>1, <1>2, <1>4, <1>15, <2>5 DEF ReaderTypes
    <2>7. InStep'
      <3>1. buffer' \o wire' = Bytes(unread')
        BY <1>2, <1>15, <2>5
      <3> QED
        BY <3>1 DEF InStep, Bytes
    <2>8. WaitsWithinFrame'
      <3>1. unread' \in Seq(Seq(Byte)) /\ next_parse_at' = 0
        BY <1>4, <1>15
      <3>2. unread' # <<>> => Len(Head(unread')) \in Nat
        <4>1. SUFFICES ASSUME unread' # <<>> PROVE Len(Head(unread')) \in Nat
          OBVIOUS
        <4>2. Head(unread') \in Seq(Byte)
          BY <3>1, <4>1, HeadTailProperties
        <4> QED
          BY <4>2, LenProperties
      <3>3. next_parse_at' <= IF unread' = <<>> THEN HeaderSize ELSE Len(Head(unread'))
        BY <3>1, <3>2 DEF HeaderSize
      <3> QED
        BY <3>3 DEF WaitsWithinFrame
    <2>9. InTransit'
      BY <1>12, <1>15 DEF InTransit
    <2> QED
      BY <1>13, <1>14, <2>6, <2>7, <2>8, <2>9 DEF ReaderInv
  <1>16. CASE Ended
    <2>1. NeverAgain \in Nat
      BY NeverAgainIsNat
    <2>2. ReaderTypes'
      BY <1>1, <1>2, <1>16, <2>1 DEF ReaderTypes
    <2>3. InStep' /\ WaitsWithinFrame' /\ state' # "Open"
      BY <1>16 DEF InStep, WaitsWithinFrame
    <2> QED
      BY <1>13, <1>14, <2>2, <2>3 DEF ReaderInv
  <1> QED
    BY <1>2, <1>15, <1>16

\* Every step of the peer and of the reader keeps them in step.
LEMMA ReaderStep == ReaderInv /\ [Next]_vars => ReaderInv'
  <1> SUFFICES ASSUME ReaderInv, [Next]_vars PROVE ReaderInv'
    OBVIOUS
  <1>1. ASSUME NEW offer \in Offers, Send(offer) PROVE ReaderInv'
    BY <1>1, ReaderSend
  <1>2. ASSUME NEW count \in 1 .. Len(wire), Read(count) PROVE ReaderInv'
    BY <1>2, ReaderRead
  <1>3. CASE HangUp
    BY <1>3, ReaderHangUp
  <1>4. CASE ParseIncomplete
    BY <1>4, ReaderIncomplete
  <1>5. CASE ParseFrame
    BY <1>5, ReaderFrame
  <1>6. CASE UNCHANGED vars
    <2>1. /\ state' = state /\ wire' = wire /\ buffer' = buffer
          /\ sent' = sent /\ peer' = peer /\ expected' = expected /\ unread' = unread
          /\ next_parse_at' = next_parse_at /\ channels' = channels
          /\ payloads' = payloads /\ events' = events
      BY <1>6 DEF vars, sending, reading
    <2>2. ReaderTypes'
      BY <2>1 DEF ReaderInv, ReaderTypes
    <2>3. InStep' /\ WaitsWithinFrame'
      BY <2>1 DEF ReaderInv, InStep, WaitsWithinFrame, Bytes
    <2>4. state' = "Open" => InTransit'
      <3>1. Reader' = Reader /\ Sender' = Sender
        BY <2>1 DEF Reader, Sender, Whole
      <3> QED
        BY <2>1, <3>1 DEF ReaderInv, InTransit
    <2>5. ChannelsOK(channels') /\ payloads' = Stored(channels') /\ Prefix(events', expected')
      BY <2>1 DEF ReaderInv
    <2> QED
      BY <2>2, <2>3, <2>4, <2>5 DEF ReaderInv
  <1> QED
    BY <1>1, <1>2, <1>3, <1>4, <1>5, <1>6 DEF Next

\* The inductive invariant holds throughout.
THEOREM ReaderInvariant == Spec => []ReaderInv
  <1>1. Init => ReaderInv
    BY ReaderInit
  <1>2. ReaderInv /\ [Next]_vars => ReaderInv'
    BY ReaderStep
  <1> QED
    BY <1>1, <1>2, PTL DEF Spec

\* The buffer, next_parse_at and the payloads in progress have their types: as many
\* bytes of a payload are stored as MultiframeReceiver counts, on every channel.
THEOREM TypeCorrect == Spec => []TypeOK
  <1>1. ReaderInv => TypeOK
    <2> SUFFICES ASSUME ReaderInv PROVE TypeOK
      OBVIOUS
    <2>1. ASSUME NEW c \in Channels
          PROVE  /\ Len(payloads[c]) = channels[c].current_multiframe_receiver.received
                 /\ channels[c].incoming_requests \subseteq Ids
      <3> DEFINE n == channels[c].current_multiframe_receiver.received
      <3>1. channels[c] \in ChannelStates
        BY DEF ReaderInv, ChannelsOK, ChannelOK
      <3>2. n \in Nat /\ channels[c].incoming_requests \subseteq Ids
        BY <3>1 DEF ChannelStates, Receivers
      <3>3. payloads[c] = PayloadBytes(0, n)
        BY DEF ReaderInv, Stored
      <3>4. Len(PayloadBytes(0, n)) = n
        BY <3>2, PayloadBytesFacts
      <3> QED
        BY <3>2, <3>3, <3>4
    <2> QED
      BY <2>1 DEF TypeOK, ReaderInv, ReaderTypes
  <1> QED
    BY <1>1, ReaderInvariant, PTL

\* No byte is skipped or parsed twice: whatever the offers are and however the bytes
\* arrive, the buffer starts at the first byte of a frame.
THEOREM KeepsInStep == Spec => []InStep
  <1>1. ReaderInv => InStep
    BY DEF ReaderInv
  <1> QED
    BY <1>1, ReaderInvariant, PTL

\* The reader never asks for a byte behind the frame it is in.
THEOREM NeverWaitsTooLong == Spec => []WaitsWithinFrame
  <1>1. ReaderInv => WaitsWithinFrame
    BY DEF ReaderInv
  <1> QED
    BY <1>1, ReaderInvariant, PTL

\* The reader reports what a reader of whole frames reports, in that order and with the
\* same bytes, and is in its state once everything was consumed.
THEOREM ReadsWhatWasSent == Spec => []PiecewiseIsWhole
  <1>1. ReaderInv => PiecewiseIsWhole
    <2> SUFFICES ASSUME ReaderInv PROVE PiecewiseIsWhole
      OBVIOUS
    <2>1. Prefix(events, expected)
      BY DEF ReaderInv
    <2>2. ASSUME state = "Open", unread = <<>> PROVE events = expected /\ channels = peer
      <3>1. PICK S : Links(S, unread, Reader, Sender)
        BY <2>2 DEF ReaderInv, InTransit
      <3>2. unread \in Seq(Seq(Byte))
        BY DEF ReaderInv, ReaderTypes
      <3>3. Reader = Sender
        BY <2>2, <3>1, <3>2, LinkedEnds
      <3> QED
        BY <3>3 DEF Reader, Sender, Whole
    <2> QED
      BY <2>1, <2>2 DEF PiecewiseIsWhole
  <1> QED
    BY <1>1, ReaderInvariant, PTL

-----------------------------------------------------------------------------
(* Multiples of a frame size.                                               *)

\* One more, and more than one more.
LEMMA Multiples ==
  ASSUME NEW u \in Nat
  PROVE  /\ 0 * u = 0 /\ 1 * u = u
         /\ \A k \in Nat : k * u \in Nat /\ (k + 1) * u = k * u + u
         /\ \A k \in Nat : k >= 1 => k * u = (k - 1) * u + u
         /\ \A j, k \in Nat : j < k => j * u + u <= k * u
  <1>1. 0 * u = 0 /\ 1 * u = u
    BY SMT
  <1>2. \A k \in Nat : k * u \in Nat /\ (k + 1) * u = k * u + u
    BY SMT
  <1>3. \A k \in Nat : k >= 1 => k * u = (k - 1) * u + u
    BY SMT
  <1>4. ASSUME NEW j \in Nat, NEW k \in Nat, j < k PROVE j * u + u <= k * u
    <2> DEFINE d == k - j - 1
    <2>1. d \in Nat /\ k = j + 1 + d
      BY SMT, <1>4
    <2> HIDE DEF d
    <2>2. k * u = j * u + u + d * u
      BY SMT, <2>1
    <2>3. d * u \in Nat /\ j * u \in Nat
      BY <1>2, <2>1
    <2> DEFINE a == k * u
               b == j * u
               e == d * u
    <2> HIDE DEF a, b, e
    <2>4. a = b + u + e /\ e \in Nat /\ b \in Nat
      BY <2>2, <2>3 DEF a, b, e
    <2>5. b + u <= a
      BY SMT, <2>4
    <2> QED
      BY <2>5 DEF a, b
  <1> QED
    BY <1>1, <1>2, <1>3, <1>4

\* Quotient and remainder.
LEMMA Quotients ==
  ASSUME NEW u \in Nat, u >= 1, NEW a \in Nat
  PROVE  /\ a \div u \in Nat /\ a % u \in 0 .. u - 1
         /\ a = (a \div u) * u + (a % u)
  <1>1. a \div u \in Nat
    BY SMT
  <1>2. a % u \in 0 .. u - 1
    BY SMT
  <1>3. a = (a \div u) * u + (a % u)
    BY Z3
  <1> QED
    BY <1>1, <1>2, <1>3

\* They are unique.
LEMMA Division ==
  ASSUME NEW u \in Nat, u >= 1, NEW q \in Nat, NEW r \in 0 .. u - 1
  PROVE  (q * u + r) \div u = q /\ (q * u + r) % u = r
  <1> DEFINE a == q * u + r
             d == a \div u
             m == a % u
  <1>1. a \in Nat
    BY Multiples, SMT
  <1>2. d \in Nat /\ m \in 0 .. u - 1 /\ a = d * u + m
    BY <1>1, Quotients
  <1>3. a = q * u + r
    OBVIOUS
  <1> HIDE DEF a, d, m
  <1> DEFINE du == d * u
             qu == q * u
  <1>4. du \in Nat /\ qu \in Nat /\ a = du + m /\ a = qu + r
    BY <1>2, <1>3, Multiples
  <1>5. /\ d < q => du + u <= qu
        /\ q < d => qu + u <= du
    BY <1>2, Multiples
  <1> HIDE DEF du, qu
  <1>6. ~(d < q) /\ ~(q < d)
    BY SMT, <1>2, <1>4, <1>5
  <1>7. d = q
    BY SMT, <1>2, <1>6
  <1>8. m = r
    <2>1. du = qu
      BY <1>7 DEF du, qu
    <2> QED
      BY SMT, <1>2, <1>4, <2>1
  <1> QED
    BY <1>7, <1>8 DEF d, m, a

-----------------------------------------------------------------------------
(* Messages.                                                               *)

\* What is in a frame without its header.
Usable == MaxFrameSize - HeaderSize

\* How many bytes of a payload the first k frames hold.
CutOff(n, k) == IF k = 0 THEN 0 ELSE Least(n, k * Usable - LengthOf(n))

LEMMA UsableFacts ==
  /\ Usable \in Nat /\ Usable >= 6 /\ MaxFrameSize = Usable + 4 /\ HeaderSize = 4
  /\ MaxFrameSize \in Nat
  BY WireAssumption DEF Usable, MinFrameSize, HeaderSize, VarintMaxLen

\* It is some number up to all of them, and positive for a payload that is not empty.
LEMMA CutOffFacts ==
  ASSUME NEW n \in Nat, NEW k \in Nat
  PROVE  /\ CutOff(n, k) \in 0 .. n
         /\ k >= 1 /\ n >= 1 => CutOff(n, k) >= 1
         /\ k >= 1 => (CutOff(n, k) = n <=> n + LengthOf(n) <= k * Usable)
  <1> DEFINE p == LengthOf(n)
             u == Usable
             ku == k * Usable
  <1>1. p \in 1 .. 5 /\ u \in Nat /\ u >= 6
    BY LengthOfFacts, UsableFacts DEF VarintMaxLen
  <1>2. ku \in Nat /\ (k >= 1 => ku >= u)
    <2>1. 0 < k => 0 * u + u <= ku
      BY <1>1, Multiples
    <2>2. 0 * u = 0 /\ ku \in Nat
      BY <1>1, Multiples
    <2> HIDE DEF ku, u
    <2> QED
      BY <1>1, <2>1, <2>2
  <1>3. CutOff(n, k) = IF k = 0 THEN 0 ELSE Least(n, ku - p)
    BY DEF CutOff
  <1> HIDE DEF p, u, ku
  <1>4. /\ CutOff(n, k) \in 0 .. n
        /\ k >= 1 /\ n >= 1 => CutOff(n, k) >= 1
        /\ k >= 1 => (CutOff(n, k) = n <=> n + p <= ku)
    BY <1>1, <1>2, <1>3 DEF Least
  <1> QED
    BY <1>4 DEF p, ku

\* An iterator over a payload.
Iter(h, n, done) == [header |-> h, payload |-> n, processed |-> done]

\* What next_owned gives of it.
LEMMA IterFacts ==
  ASSUME NEW h, NEW n \in Nat, NEW done \in Nat
  PROVE  LET off == IF done = 0 THEN LengthOf(n) ELSE 0
             seg == Least(Usable - off, n - done)
             i   == Iter(h, n, done)
         IN  /\ NextFrame(i) = [header |-> h, len |-> IF done = 0 THEN n ELSE NoLen,
                                off |-> off, seg |-> seg]
             /\ AfterFrame(i) = Iter(h, n, done + seg)
             /\ IsFinalFrame(i) <=> done + seg = n
  <1> DEFINE i == Iter(h, n, done)
             off == IF done = 0 THEN LengthOf(n) ELSE 0
             seg == Least(Usable - off, n - done)
  <1>1. i.header = h /\ i.payload = n /\ i.processed = done /\ n # NoPayload
    BY DEF Iter, NoPayload
  <1>2. NextFrame(i) = [header |-> h, len |-> IF done = 0 THEN n ELSE NoLen,
                        off |-> off, seg |-> seg]
    BY <1>1, Zenon DEF NextFrame, Usable
  <1>3. NextFrame(i).seg = seg
    BY <1>2
  <1> HIDE DEF seg, off
  <1>4. AfterFrame(i) = Iter(h, n, done + seg)
    BY <1>3 DEF AfterFrame, Iter
  <1>5. AfterFrame(i).processed = done + seg
    BY <1>4 DEF Iter
  <1>6. IsFinalFrame(i) <=> done + seg = n
    BY <1>1, <1>5, Zenon DEF IsFinalFrame
  <1> QED
    BY <1>2, <1>4, <1>6 DEF i, seg, off

\* A frame more.
LEMMA CutOffStep ==
  ASSUME NEW n \in Nat, NEW k \in Nat, k >= 1
  PROVE  LET done == CutOff(n, k - 1)
             off  == IF done = 0 THEN LengthOf(n) ELSE 0
         IN  done + Least(Usable - off, n - done) = CutOff(n, k)
  <1> DEFINE p == LengthOf(n)
             u == Usable
             ku == k * Usable
             ju == (k - 1) * Usable
             done == CutOff(n, k - 1)
  <1>1. p \in 1 .. 5 /\ u \in Nat /\ u >= 6
    BY LengthOfFacts, UsableFacts DEF VarintMaxLen
  <1>2. k - 1 \in Nat
    OBVIOUS
  <1>3. ku = ju + u /\ ju \in Nat /\ (k = 1 => ju = 0)
    BY <1>1, <1>2, Multiples
  <1>4. CutOff(n, k) = Least(n, ku - p)
    BY DEF CutOff
  <1>5. done = IF k = 1 THEN 0 ELSE Least(n, ju - p)
    BY DEF CutOff
  <1>6. done \in 0 .. n /\ (k - 1 >= 1 /\ n >= 1 => done >= 1)
    BY <1>2, CutOffFacts
  <1> HIDE DEF p, u, ku, ju, done
  <1>7. done + Least(u - (IF done = 0 THEN p ELSE 0), n - done) = CutOff(n, k)
    <2>1. CASE k = 1
      BY <1>1, <1>3, <1>4, <1>5, <2>1 DEF Least
    <2>2. CASE k # 1 /\ n = 0
      BY <1>1, <1>3, <1>4, <1>5, <1>6, <2>2 DEF Least
    <2>3. CASE k # 1 /\ n # 0
      BY <1>1, <1>3, <1>4, <1>5, <1>6, <2>3 DEF Least
    <2> QED
      BY <2>1, <2>2, <2>3
  <1> QED
    BY <1>7 DEF p, u, done

\* num_frames is how many frames hold the length and all of a payload.
LEMMA FrameCount ==
  ASSUME NEW n \in Nat
  PROVE  /\ NumFrames(n) \in 1 .. n + 2
         /\ \A k \in Nat : n + LengthOf(n) <= k * Usable <=> NumFrames(n) <= k
  <1> DEFINE u == Usable
             t == n + LengthOf(n)
             a == t + u - 1
             d == a \div u
  <1>1. u \in Nat /\ u >= 6 /\ t \in Nat /\ t >= 1 /\ t <= n + 5 /\ a = t + u - 1
    BY LengthOfFacts, UsableFacts DEF VarintMaxLen
  <1>2. NonHeaderLen(n) = t
    BY LengthOfFacts DEF NonHeaderLen, NoPayload, VarintMaxLen
  <1>3. NumFrames(n) = IF d = 0 THEN 1 ELSE d
    BY <1>2, Zenon DEF NumFrames, Usable
  <1> HIDE DEF u, t, a
  <1>4. a \in Nat
    BY <1>1
  <1>5. d \in Nat /\ a % u \in 0 .. u - 1 /\ a = d * u + (a % u)
    BY <1>1, <1>4, Quotients
  <1> DEFINE m == a % u
             du == d * u
  <1> HIDE DEF d, m
  <1>6. du \in Nat /\ a = du + m /\ m \in 0 .. u - 1 /\ (d = 0 => du = 0)
    BY <1>1, <1>5, Multiples DEF m
  <1> HIDE DEF du
  <1>7. t <= du /\ du < t + u /\ d # 0
    BY <1>1, <1>6
  <1>8. ASSUME NEW k \in Nat PROVE t <= k * u <=> d <= k
    <2> DEFINE ku == k * u
    <2>1. ku \in Nat /\ (k < d => ku + u <= du) /\ (d < k => du + u <= ku) /\ (d = k => du = ku)
      BY <1>1, <1>5, Multiples DEF du
    <2> HIDE DEF ku
    <2>2. t <= ku <=> d <= k
      BY <1>1, <1>5, <1>6, <1>7, <2>1
    <2> QED
      BY <2>2 DEF ku
  <1>9. t <= (n + 2) * u
    <2> DEFINE nu == n * u
    <2>1. (n + 1) * u = nu + u /\ ((n + 1) + 1) * u = (n + 1) * u + u /\ nu \in Nat
      BY <1>1, Multiples
    <2>2. (n + 1) + 1 = n + 2
      OBVIOUS
    <2>3. n = 0 \/ nu >= n
      <3>1. nu = u * n
        BY <1>1, SMT
      <3>2. 0 < u => 0 * n + n <= u * n
        BY <1>1, Multiples
      <3>3. 0 * n = 0
        BY Multiples
      <3> QED
        BY <1>1, <3>1, <3>2, <3>3
    <2> HIDE DEF nu
    <2>4. t <= nu + u + u
      BY <1>1, <2>1, <2>3
    <2> QED
      BY <2>1, <2>2, <2>4
  <1>10. d <= n + 2
    BY <1>8, <1>9
  <1> QED
    BY <1>3, <1>5, <1>7, <1>8, <1>10 DEF u, t

\* The frame that starts where the first k - 1 frames end, as bytes.
CutFrame(h, n, k) ==
    FrameBytes(NextFrame(Iter(h, n, CutOff(n, k - 1))), CutOff(n, k - 1))

\* frame_iter gives as many as num_frames says.
LEMMA FramesCut ==
  ASSUME NEW h, NEW n \in Nat
  PROVE  FrameIterBytes(h, n) = [k \in 1 .. NumFrames(n) |-> CutFrame(h, n, k)]
  <1> DEFINE N == n + 2
             d == NumFrames(n)
             iter == CHOOSE f : f = [k \in 0 .. N |->
                        IF k = 0 THEN Frames(h, n) ELSE AfterFrame(f[k - 1])]
             g == [k \in 0 .. N |-> Iter(h, n, CutOff(n, k))]
             Q(j) == /\ IsFinalFrame(iter[j - 1])
                     /\ \A m \in 1 .. j - 1 : ~IsFinalFrame(iter[m - 1])
             count == CHOOSE j \in 1 .. N : Q(j)
  <1>1. FrameIterBytes(h, n)
          = [k \in 1 .. count |-> FrameBytes(NextFrame(iter[k - 1]), iter[k - 1].processed)]
    BY Zenon DEF FrameIterBytes
  <1>2. N \in Nat /\ \A k \in 0 .. N : k \in Nat /\ (k # 0 => k - 1 \in 0 .. N /\ k - 1 \in Nat)
    OBVIOUS
  <1> HIDE DEF N
  <1>3. ASSUME NEW k \in Nat, k >= 1
        PROVE  /\ AfterFrame(Iter(h, n, CutOff(n, k - 1))) = Iter(h, n, CutOff(n, k))
               /\ IsFinalFrame(Iter(h, n, CutOff(n, k - 1))) <=> CutOff(n, k) = n
    <2> DEFINE done == CutOff(n, k - 1)
    <2>1. k - 1 \in Nat
      BY <1>3
    <2>2. done \in Nat
      BY <2>1, CutOffFacts
    <2>3. done + Least(Usable - (IF done = 0 THEN LengthOf(n) ELSE 0), n - done) = CutOff(n, k)
      BY <1>3, CutOffStep
    <2> HIDE DEF done
    <2>4. /\ AfterFrame(Iter(h, n, done)) = Iter(h, n, CutOff(n, k))
          /\ IsFinalFrame(Iter(h, n, done)) <=> CutOff(n, k) = n
      BY <2>2, <2>3, IterFacts
    <2> QED
      BY <2>4 DEF done
  <1>4. g[0] = Frames(h, n)
    <2>1. 0 \in 0 .. N /\ CutOff(n, 0) = 0
      BY <1>2 DEF CutOff
    <2>2. g[0] = Iter(h, n, CutOff(n, 0))
      BY <2>1, Zenon
    <2> QED
      BY <2>1, <2>2, Zenon DEF Iter, Frames
  <1>5. ASSUME NEW k \in 0 .. N, k # 0 PROVE g[k] = AfterFrame(g[k - 1])
    <2>1. k - 1 \in 0 .. N /\ k \in Nat /\ k >= 1
      BY <1>2, <1>5
    <2>2. g[k] = Iter(h, n, CutOff(n, k)) /\ g[k - 1] = Iter(h, n, CutOff(n, k - 1))
      BY <2>1, Zenon
    <2> QED
      BY <1>3, <2>1, <2>2, Zenon
  <1>6. g = [k \in 0 .. N |-> IF k = 0 THEN Frames(h, n) ELSE AfterFrame(g[k - 1])]
    <2>1. ASSUME NEW k \in 0 .. N
          PROVE  Iter(h, n, CutOff(n, k)) = IF k = 0 THEN Frames(h, n) ELSE AfterFrame(g[k - 1])
      <3>1. g[k] = Iter(h, n, CutOff(n, k))
        BY Zenon
      <3> HIDE DEF g
      <3> QED
        BY <1>4, <1>5, <3>1, Zenon
    <2> HIDE DEF g
    <2> QED
      BY <2>1, Zenon DEF g
  <1>7. iter = [k \in 0 .. N |-> IF k = 0 THEN Frames(h, n) ELSE AfterFrame(iter[k - 1])]
    <2> HIDE DEF g
    <2> QED
      BY <1>6, Zenon
  <1>8. \A k \in 0 .. N : iter[k] = g[k]
    <2> HIDE DEF iter, g
    <2> DEFINE T == {k \in 0 .. N : iter[k] = g[k]}
    <2>1. 0 \in T
      BY <1>2, <1>4, <1>7
    <2>2. ASSUME NEW k \in 1 .. N, k - 1 \in T PROVE k \in T
      <3>1. k \in 0 .. N /\ k # 0
        BY <1>2
      <3>2. iter[k] = AfterFrame(iter[k - 1])
        BY <1>7, <3>1, Zenon
      <3>3. g[k] = AfterFrame(g[k - 1]) /\ iter[k - 1] = g[k - 1]
        BY <1>5, <2>2, <3>1, Zenon
      <3> QED
        BY <3>1, <3>2, <3>3, Zenon
    <2>3. 0 .. N \subseteq T
      <3> HIDE DEF T
      <3> QED
        BY <1>2, <2>1, <2>2, EveryTurn
    <2> QED
      BY <2>3, Zenon
  <1>9. ASSUME NEW k \in 1 .. N
        PROVE  /\ iter[k - 1] = Iter(h, n, CutOff(n, k - 1))
               /\ IsFinalFrame(iter[k - 1]) <=> d <= k
    <2>1. k \in Nat /\ k >= 1 /\ k - 1 \in 0 .. N
      BY <1>2
    <2>2. iter[k - 1] = Iter(h, n, CutOff(n, k - 1))
      BY <1>8, <2>1, Zenon
    <2>3. IsFinalFrame(iter[k - 1]) <=> CutOff(n, k) = n
      BY <1>3, <2>1, <2>2, Zenon
    <2>4. CutOff(n, k) = n <=> n + LengthOf(n) <= k * Usable
      BY <2>1, CutOffFacts, Zenon
    <2> QED
      BY <2>1, <2>2, <2>3, <2>4, FrameCount, Zenon
  <1>10. d \in 1 .. N /\ d \in Nat
    BY FrameCount DEF N
  <1> HIDE DEF iter, g, d
  <1>11. count = d
    <2>1. Q(d)
      <3>1. d <= d /\ \A m \in 1 .. d - 1 : m \in 1 .. N /\ ~(d <= m)
        BY <1>2, <1>10
      <3> QED
        BY <1>9, <1>10, <3>1, Zenon
    <2>2. ASSUME NEW j \in 1 .. N, Q(j) PROVE j = d
      <3>1. d <= j
        BY <1>9, <2>2, Zenon
      <3>2. d \in 1 .. j - 1 => ~IsFinalFrame(iter[d - 1])
        BY <2>2, Zenon
      <3>3. IsFinalFrame(iter[d - 1])
        BY <2>1, Zenon
      <3> QED
        BY <1>2, <1>10, <3>1, <3>2, <3>3
    <2> HIDE DEF Q
    <2> QED
      BY <1>10, <2>1, <2>2, Zenon
  <1>12. ASSUME NEW k \in 1 .. d
         PROVE  FrameBytes(NextFrame(iter[k - 1]), iter[k - 1].processed) = CutFrame(h, n, k)
    <2>1. k \in 1 .. N
      BY <1>2, <1>10
    <2>2. iter[k - 1] = Iter(h, n, CutOff(n, k - 1))
      BY <1>9, <2>1, Zenon
    <2>3. iter[k - 1].processed = CutOff(n, k - 1)
      BY <2>2 DEF Iter
    <2> QED
      BY <2>2, <2>3, Zenon DEF CutFrame
  <1>13. FrameIterBytes(h, n) = [k \in 1 .. d |-> CutFrame(h, n, k)]
    <2> HIDE DEF count
    <2> QED
      BY <1>1, <1>11, <1>12, Zenon
  <1> QED
    BY <1>13, Zenon DEF d

\* The bytes of the length prefix in frame k.
Off(n, k) == IF k = 1 THEN LengthOf(n) ELSE 0
Pre(n, k) == IF k = 1 THEN Encode(n) ELSE <<>>

\* What the byte at place i of frame k has to be.
ByteAt(h, n, k, off, i, byte) ==
    /\ i <= 4 => byte = HeaderBytes(h)[i]
    /\ i > 4 /\ i <= 4 + off => byte = Encode(n)[i - 4]
    /\ i > 4 + off => byte = (FramePayloadStart(k - 1, LengthOf(n)) + (i - 4 - off)) % 256

\* It is that for ByteIter.
LEMMA ChunkIs ==
  ASSUME NEW h, NEW n \in Nat, Len(Encode(n)) = LengthOf(n),
         NEW k \in Nat, k >= 1, NEW i \in 1 .. MaxFrameSize
  PROVE  ByteAt(h, n, k, Off(n, k), i, Chunk(h, n, (k - 1) * MaxFrameSize + (i - 1)))
  <1> DEFINE off == Off(n, k)
             consumed == (k - 1) * MaxFrameSize + (i - 1)
             completed == consumed \div MaxFrameSize
             progress == consumed % MaxFrameSize
             start == FramePayloadStart(completed, Len(Encode(n)))
             preamble == HeaderSize + IF completed = 0 THEN Len(Encode(n)) ELSE 0
  <1>1. MaxFrameSize \in Nat /\ MaxFrameSize >= 1 /\ HeaderSize = 4
    BY UsableFacts
  <1>2. k - 1 \in Nat /\ i - 1 \in 0 .. MaxFrameSize - 1
    BY <1>1
  <1>3. completed = k - 1 /\ progress = i - 1
    BY <1>1, <1>2, Division
  <1>4. n # NoPayload
    BY DEF NoPayload
  <1>5. Chunk(h, n, consumed) =
          CASE progress < HeaderSize -> HeaderBytes(h)[progress + 1]
            [] progress \in HeaderSize .. preamble - 1 -> Encode(n)[progress - HeaderSize + 1]
            [] progress >= preamble -> (start + progress - preamble + 1) % 256
    BY <1>4, Zenon DEF Chunk
  <1>6. start = FramePayloadStart(k - 1, LengthOf(n))
    BY <1>3, Zenon
  <1> HIDE DEF consumed, completed, progress, start
  <1>7. off \in 0 .. 5 /\ preamble = 4 + off
    BY <1>1, <1>3, LengthOfFacts DEF VarintMaxLen, Off
  <1> HIDE DEF off, preamble
  <1> DEFINE byte == Chunk(h, n, consumed)
  <1> SUFFICES ByteAt(h, n, k, off, i, byte)
    BY DEF off, consumed
  <1>8. start \in Int
    <2>1. (k - 1) * Usable \in Nat /\ LengthOf(n) \in Nat
      BY <1>2, Multiples, UsableFacts, LengthOfFacts DEF VarintMaxLen
    <2> HIDE DEF Usable
    <2>2. FramePayloadStart(k - 1, LengthOf(n))
            = IF k - 1 = 0 THEN 0 ELSE (k - 1) * Usable - LengthOf(n)
      BY Zenon DEF FramePayloadStart, Usable
    <2> QED
      BY <1>6, <2>1, <2>2
  <1>9. CASE i <= 4
    <2>1. progress < HeaderSize /\ progress + 1 = i
      BY <1>1, <1>3, <1>9
    <2>2. ~(progress \in HeaderSize .. preamble - 1) /\ ~(progress >= preamble)
      BY <1>1, <1>3, <1>7, <1>9
    <2>3. ~(i > 4) /\ ~(i > 4 + off)
      BY <1>7, <1>9
    <2>4. Chunk(h, n, consumed) = HeaderBytes(h)[i]
      BY <1>5, <2>1, <2>2, Zenon
    <2> QED
      BY <2>3, <2>4, Zenon DEF ByteAt
  <1>10. CASE i > 4 /\ i <= 4 + off
    <2>1. progress \in HeaderSize .. preamble - 1 /\ progress - HeaderSize + 1 = i - 4
      BY <1>1, <1>3, <1>7, <1>10
    <2>2. ~(progress < HeaderSize) /\ ~(progress >= preamble)
      BY <1>1, <1>3, <1>7, <1>10
    <2>3. ~(i <= 4) /\ ~(i > 4 + off)
      BY <1>7, <1>10
    <2>4. Chunk(h, n, consumed) = Encode(n)[i - 4]
      BY <1>5, <2>1, <2>2, Zenon
    <2> QED
      BY <2>3, <2>4, Zenon DEF ByteAt
  <1>11. CASE i > 4 + off
    <2>1. progress >= preamble /\ start + progress - preamble + 1 = start + (i - 4 - off)
      BY <1>1, <1>3, <1>7, <1>8, <1>11
    <2>2. ~(progress < HeaderSize) /\ ~(progress \in HeaderSize .. preamble - 1)
      BY <1>1, <1>3, <1>7, <1>11
    <2>3. ~(i <= 4) /\ ~(i <= 4 + off)
      BY <1>7, <1>11
    <2>4. Chunk(h, n, consumed) = (start + (i - 4 - off)) % 256
      BY <1>5, <2>1, <2>2, Zenon
    <2> QED
      BY <1>6, <2>3, <2>4, Zenon DEF ByteAt
  <1> QED
    BY <1>7, <1>9, <1>10, <1>11

\* Where frame k starts and how much it holds.
CutInto(h, n, k, off, done, seg) ==
    /\ seg \in Nat /\ done \in Nat
    /\ done = FramePayloadStart(k - 1, LengthOf(n))
    /\ CutFrame(h, n, k) = (HeaderBytes(h) \o Pre(n, k)) \o PayloadBytes(done, seg)
    /\ off + seg = IF k < NumFrames(n) THEN Usable
                   ELSE n + LengthOf(n) - (NumFrames(n) - 1) * Usable
    /\ off + seg <= Usable

\* Every frame is cut like this.
LEMMA CutFrameParts ==
  ASSUME NEW h, NEW n \in Nat, NEW k \in 1 .. NumFrames(n)
  PROVE  \E done, seg : CutInto(h, n, k, Off(n, k), done, seg)
  <1> DEFINE p == LengthOf(n)
             u == Usable
             ku == k * Usable
             ju == (k - 1) * Usable
             done == CutOff(n, k - 1)
             next == CutOff(n, k)
             off == Off(n, k)
             seg == next - done
             d == NumFrames(n)
  <1>1. p \in 1 .. 5 /\ u \in Nat /\ u >= 6 /\ d \in Nat /\ k <= d
    <2>1. p \in 1 .. 5
      BY LengthOfFacts DEF VarintMaxLen
    <2>2. u \in Nat /\ u >= 6
      BY UsableFacts
    <2>3. d \in 1 .. n + 2
      BY FrameCount
    <2> HIDE DEF d
    <2>4. d \in Nat /\ k <= d
      BY <2>3 DEF d
    <2> QED
      BY <2>1, <2>2, <2>4
  <1>2. k \in Nat /\ k >= 1 /\ k - 1 \in Nat
    BY FrameCount
  <1>3. ku = ju + u /\ ju \in Nat /\ (k = 1 => ju = 0) /\ (k # 1 => ju >= u)
    <2>1. ku = ju + u /\ ju \in Nat /\ 0 * u = 0 /\ (0 < k - 1 => 0 * u + u <= ju)
      BY <1>1, <1>2, Multiples
    <2>2. k = 1 => ju = 0
      BY <2>1
    <2> HIDE DEF u, ju, ku
    <2> QED
      BY <1>1, <1>2, <2>1, <2>2
  <1>4. (n + p <= ku <=> d <= k) /\ (n + p <= ju <=> d <= k - 1)
    BY <1>2, FrameCount
  <1>5. next = Least(n, ku - p)
    BY <1>2 DEF CutOff
  <1>6. done = IF k = 1 THEN 0 ELSE Least(n, ju - p)
    BY <1>2 DEF CutOff
  <1>7. done + Least(u - (IF done = 0 THEN p ELSE 0), n - done) = next
    BY <1>2, CutOffStep
  <1>8. (k - 1) * u = ju /\ (k = d => (d - 1) * u = ju)
    OBVIOUS
  <1>9. done = FramePayloadStart(k - 1, p)
    <2>1. FramePayloadStart(k - 1, p) = IF k - 1 = 0 THEN 0 ELSE ju - p
      BY Zenon DEF FramePayloadStart, Usable
    <2> HIDE DEF p, u, ku, ju, done, next, d
    <2> QED
      BY <1>1, <1>2, <1>3, <1>4, <1>6, <2>1 DEF Least
  <1>10. done \in Nat /\ next \in Nat
    <2>1. done \in 0 .. n /\ next \in 0 .. n
      BY <1>2, CutOffFacts, Zenon
    <2> HIDE DEF done, next
    <2> QED
      BY <2>1
  <1> HIDE DEF p, u, ku, ju, done, next, d
  <1>0. off = IF k = 1 THEN p ELSE 0
    BY DEF Off, p
  <1> HIDE DEF off
  <1>11. done = 0 <=> k = 1
    BY <1>1, <1>2, <1>3, <1>4, <1>6 DEF Least
  <1>12. seg \in Nat /\ (k < d => off + seg = u) /\ (k = d => off + seg = n + p - ju)
         /\ off + seg <= u
    BY <1>0, <1>1, <1>2, <1>3, <1>4, <1>5, <1>6, <1>10 DEF Least
  <1>13. seg = Least(u - (IF done = 0 THEN p ELSE 0), n - done)
    BY <1>7, <1>10, <1>1 DEF Least
  <1>14. CutFrame(h, n, k) = (HeaderBytes(h) \o Pre(n, k)) \o PayloadBytes(done, seg)
    <2> DEFINE fr == NextFrame(Iter(h, n, done))
    <2>1. fr = [header |-> h, len |-> IF done = 0 THEN n ELSE NoLen,
                off |-> IF done = 0 THEN p ELSE 0,
                seg |-> Least(u - (IF done = 0 THEN p ELSE 0), n - done)]
      BY <1>10, IterFacts DEF u, p
    <2>2. fr.header = h /\ fr.len = (IF done = 0 THEN n ELSE NoLen) /\ fr.seg = seg
      BY <1>13, <2>1
    <2>3. n # NoLen
      BY DEF NoLen
    <2>4. fr.len = NoLen <=> k # 1
      BY <1>11, <2>2, <2>3
    <2>5. k = 1 => fr.len = n
      BY <1>11, <2>2
    <2>6. CutFrame(h, n, k) = FrameBytes(fr, done)
      BY Zenon DEF CutFrame, done
    <2> HIDE DEF fr, seg
    <2> QED
      BY <2>2, <2>4, <2>5, <2>6, Zenon DEF FrameBytes, Pre
  <1>15. off + seg = IF k < d THEN u ELSE n + p - (d - 1) * u
    BY <1>1, <1>2, <1>8, <1>12
  <1> HIDE DEF seg
  <1>16. CutInto(h, n, k, off, done, seg)
    BY <1>9, <1>10, <1>12, <1>14, <1>15, Zenon DEF CutInto, p, u, d
  <1> QED
    BY <1>16, Zenon DEF off

\* Frame k holds the bytes that ByteIter has at its place.
LEMMA CutFrameBytes ==
  ASSUME NEW h \in WireHeaders, NEW n \in Nat, Shifted(n, 4) < 16, NEW k \in 1 .. NumFrames(n)
  PROVE  LET f == CutFrame(h, n, k) IN
         /\ f \in Seq(Byte)
         /\ Len(f) = IF k < NumFrames(n) THEN MaxFrameSize
                     ELSE 4 + (n + LengthOf(n) - (NumFrames(n) - 1) * Usable)
         /\ \A i \in 1 .. Len(f) : f[i] = Chunk(h, n, (k - 1) * MaxFrameSize + (i - 1))
  <1> DEFINE f == CutFrame(h, n, k)
             p == LengthOf(n)
             off == Off(n, k)
             pre == Pre(n, k)
             head == HeaderBytes(h)
             d == NumFrames(n)
             len == IF k < d THEN Usable ELSE n + p - (d - 1) * Usable
             ByteOf(i) == Chunk(h, n, (k - 1) * MaxFrameSize + (i - 1))
  <1>1. p \in 1 .. 5 /\ Encode(n) \in Seq(Byte) /\ Len(Encode(n)) = p
    <2>1. p \in 1 .. 5 /\ Encode(n) = Varint(n, p)
      BY EncodeIsVarint
    <2>2. p \in p .. 5
      BY <2>1
    <2> QED
      BY <2>1, <2>2, VarintBytes
  <1>2. head \in Seq(Byte) /\ Len(head) = 4
    <2>1. h # NoHeader
      BY WireHeaderFacts
    <2> QED
      BY <2>1, HeadBytes DEF HeadOf
  <1>3. PICK done, seg : CutInto(h, n, k, off, done, seg)
    BY CutFrameParts
  <1> DEFINE tail == PayloadBytes(done, seg)
  <1>4. /\ seg \in Nat /\ done \in Nat /\ done = FramePayloadStart(k - 1, p)
        /\ f = (head \o pre) \o tail
        /\ off + seg = len /\ off + seg <= Usable
    <2>1. f = (head \o pre) \o tail
      BY <1>3, Zenon DEF CutInto
    <2>2. off + seg = len
      <3> HIDE DEF off
      <3> QED
        BY <1>3 DEF CutInto
    <2>3. seg \in Nat /\ done \in Nat /\ done = FramePayloadStart(k - 1, p)
          /\ off + seg <= Usable
      BY <1>3, Zenon DEF CutInto
    <2> QED
      BY <2>1, <2>2, <2>3
  <1>5. k \in Nat /\ k >= 1
    BY FrameCount
  <1>6. /\ pre \in Seq(Byte) /\ Len(pre) = off /\ off \in Nat
        /\ k # 1 => off = 0
        /\ k = 1 => pre = Encode(n)
    BY <1>1 DEF Pre, Off
  <1>7. /\ tail \in Seq(Byte) /\ Len(tail) = seg
        /\ \A j \in 1 .. seg : tail[j] = (done + j) % 256
    <2>1. done \in Nat /\ seg \in Nat
      BY <1>4
    <2> QED
      BY <2>1, PayloadBytesFacts
  <1>8. \A i \in 1 .. MaxFrameSize : ByteAt(h, n, k, off, i, ByteOf(i))
    BY <1>1, <1>5, ChunkIs, Zenon
  <1> HIDE DEF f, off, pre, head, tail, ByteOf, len
  <1>9. \A i \in 1 .. MaxFrameSize :
          /\ i <= 4 => ByteOf(i) = head[i]
          /\ i > 4 /\ i <= 4 + off => ByteOf(i) = Encode(n)[i - 4]
          /\ i > 4 + off => ByteOf(i) = (done + (i - 4 - off)) % 256
    BY <1>4, <1>8, Zenon DEF ByteAt, head
  <1>10. /\ f \in Seq(Byte) /\ Len(f) = 4 + off + seg
         /\ \A i \in 1 .. 4 : f[i] = head[i]
         /\ \A i \in 1 .. off : f[4 + i] = pre[i]
         /\ \A i \in 1 .. seg : f[4 + off + i] = tail[i]
    <2>1. LET all == (head \o pre) \o tail IN
          /\ all \in Seq(Byte) /\ Len(all) = Len(head) + Len(pre) + Len(tail)
          /\ \A i \in 1 .. Len(head) : all[i] = head[i]
          /\ \A i \in 1 .. Len(pre) : all[Len(head) + i] = pre[i]
          /\ \A i \in 1 .. Len(tail) : all[Len(head) + Len(pre) + i] = tail[i]
      <3>1. head \in Seq(Byte) /\ pre \in Seq(Byte) /\ tail \in Seq(Byte)
        BY <1>2, <1>6, <1>7
      <3> QED
        BY <3>1, ThreeParts, ZenonT(60)
    <2> QED
      BY <1>2, <1>4, <1>6, <1>7, <2>1, ZenonT(60)
  <1>11. Usable \in Nat /\ MaxFrameSize = Usable + 4
    BY UsableFacts
  <1> HIDE DEF Usable
  <1>12. ASSUME NEW i \in 1 .. Len(f) PROVE f[i] = ByteOf(i)
    <2>1. i \in 1 .. MaxFrameSize
      BY <1>4, <1>6, <1>10, <1>11
    <2>2. CASE i <= 4
      BY <1>9, <1>10, <2>1, <2>2
    <2>3. CASE i > 4 /\ i <= 4 + off
      <3>1. i - 4 \in 1 .. off /\ 4 + (i - 4) = i /\ k = 1
        BY <1>6, <2>1, <2>3
      <3>2. f[i] = pre[i - 4]
        BY <1>10, <3>1
      <3>3. pre = Encode(n)
        BY <1>6, <3>1
      <3> QED
        BY <1>9, <2>1, <2>3, <3>2, <3>3
    <2>4. CASE i > 4 + off
      <3>1. i - 4 - off \in 1 .. seg /\ 4 + off + (i - 4 - off) = i
        BY <1>4, <1>6, <1>10, <2>1, <2>4
      <3>2. f[i] = tail[i - 4 - off]
        BY <1>10, <3>1
      <3>3. tail[i - 4 - off] = (done + (i - 4 - off)) % 256
        BY <1>7, <3>1
      <3> QED
        BY <1>9, <2>1, <2>4, <3>2, <3>3
    <2> QED
      BY <1>6, <2>1, <2>2, <2>3, <2>4
  <1>13. Len(f) = 4 + len
    BY <1>4, <1>6, <1>10
  <1>14. Len(f) = IF k < d THEN MaxFrameSize ELSE 4 + (n + p - (d - 1) * Usable)
    <2>1. CASE k < d
      <3>1. len = Usable
        BY <2>1, Zenon DEF len
      <3> QED
        BY <1>11, <1>13, <2>1, <3>1
    <2>2. CASE ~(k < d)
      <3>1. len = n + p - (d - 1) * Usable
        BY <2>2, Zenon DEF len
      <3> QED
        BY <1>13, <2>2, <3>1, Zenon
    <2> QED
      BY <2>1, <2>2
  <1> QED
    BY <1>10, <1>12, <1>14, Zenon DEF f, ByteOf

\* Frames that are all full but the last, with bytes by place ...
FullFrames(frames, size, d, g) ==
    /\ Len(frames) = d
    /\ \A k \in 1 .. d - 1 : Len(frames[k]) = size
    /\ \A k \in 1 .. d : \A i \in 1 .. Len(frames[k]) :
            frames[k][i] = g[(k - 1) * size + (i - 1)]

\* ... and such bytes in a row.
InRow(bytes, len, g) == Len(bytes) = len /\ \A j \in 1 .. len : bytes[j] = g[j - 1]

LEMMA FullFramesJoined ==
  ASSUME NEW frames \in Seq(Seq(Byte)), NEW size \in Nat, NEW d \in Nat, d >= 1,
         NEW g, FullFrames(frames, size, d, g)
  PROVE  InRow(Bytes(frames), (d - 1) * size + Len(frames[d]), g)
  <1>0. /\ Len(frames) = d
        /\ \A k \in 1 .. d - 1 : Len(frames[k]) = size
        /\ \A k \in 1 .. d : \A i \in 1 .. Len(frames[k]) :
                frames[k][i] = g[(k - 1) * size + (i - 1)]
    BY Zenon DEF FullFrames
  <1>1. PICK f : IsBytes(f, frames)
    BY BytesLoop
  <1>2. /\ f \in [0 .. d -> Seq(Byte)] /\ f[0] = <<>>
        /\ \A k \in 1 .. d : f[k] = f[k - 1] \o frames[k]
        /\ Bytes(frames) = f[d]
    BY <1>0, <1>1 DEF IsBytes
  <1>3. \A k \in 1 .. d : frames[k] \in Seq(Byte) /\ Len(frames[k]) \in Nat
    BY <1>0, ElementOfSeq
  <1> DEFINE Placed(k) == \A j \in 1 .. Len(f[k]) : f[k][j] = g[j - 1]
             T == {k \in 0 .. d : /\ Placed(k)
                                  /\ k < d => Len(f[k]) = k * size
                                  /\ k = d => Len(f[k]) = (d - 1) * size + Len(frames[d])}
  <1>4. 0 \in T
    <2>1. 0 \in 0 .. d /\ 0 # d /\ Len(f[0]) = 0
      BY <1>2
    <2>2. Placed(0)
      BY <2>1
    <2>3. 0 * size = 0
      BY Multiples
    <2> QED
      BY <2>1, <2>2, <2>3, Zenon
  <1>5. ASSUME NEW k \in 1 .. d, k - 1 \in T PROVE k \in T
    <2> DEFINE before == (k - 1) * size
               a == f[k - 1]
               b == frames[k]
    <2>1. k - 1 \in 0 .. d /\ k - 1 < d /\ k - 1 \in Nat /\ k \in 0 .. d
      BY <1>5
    <2>2. a \in Seq(Byte) /\ b \in Seq(Byte) /\ f[k] = a \o b
      BY <1>2, <1>3, <2>1
    <2>3. Len(a) = before /\ before \in Nat
      BY <1>5, <2>1, Multiples
    <2>4. \A j \in 1 .. Len(a) : a[j] = g[j - 1]
      BY <1>5, Zenon
    <2>5. \A i \in 1 .. Len(b) : b[i] = g[before + (i - 1)]
      BY <1>0, Zenon
    <2>6. k < d => Len(b) = size
      <3>1. k < d => k \in 1 .. d - 1
        OBVIOUS
      <3> QED
        BY <1>0, <3>1
    <2>7. k * size = before + size
      BY <2>1, Multiples
    <2> HIDE DEF before, a, b
    <2>8. /\ Len(a \o b) = Len(a) + Len(b) /\ Len(b) \in Nat
          /\ \A j \in 1 .. Len(a) + Len(b) :
                (a \o b)[j] = IF j <= Len(a) THEN a[j] ELSE b[j - Len(a)]
      BY <2>2, TwoParts
    <2>9. ASSUME NEW j \in 1 .. Len(a \o b) PROVE (a \o b)[j] = g[j - 1]
      <3>1. CASE j <= Len(a)
        <4>1. j \in 1 .. Len(a) /\ j \in 1 .. Len(a) + Len(b)
          BY <2>3, <2>8, <3>1
        <4>2. (a \o b)[j] = a[j]
          BY <2>8, <3>1, <4>1
        <4> QED
          BY <2>4, <4>1, <4>2, Zenon
      <3>2. CASE ~(j <= Len(a))
        <4>1. /\ j - Len(a) \in 1 .. Len(b) /\ j \in 1 .. Len(a) + Len(b)
              /\ before + (j - Len(a) - 1) = j - 1
          BY <2>3, <2>8, <3>2
        <4>2. (a \o b)[j] = b[j - Len(a)]
          BY <2>8, <3>2, <4>1
        <4>3. b[j - Len(a)] = g[before + (j - Len(a) - 1)]
          BY <2>5, <4>1, Zenon
        <4> QED
          BY <4>1, <4>2, <4>3, Zenon
      <3> QED
        BY <3>1, <3>2
    <2>10. Placed(k)
      BY <2>2, <2>9, Zenon
    <2>11. k < d => Len(f[k]) = k * size
      <3>1. SUFFICES ASSUME k < d PROVE Len(f[k]) = k * size
        OBVIOUS
      <3>2. Len(f[k]) = before + size
        BY <2>2, <2>3, <2>6, <2>8, <3>1, Zenon
      <3> QED
        BY <2>7, <3>2, Zenon
    <2>12. k = d => Len(f[k]) = (d - 1) * size + Len(frames[d])
      BY <2>2, <2>3, <2>8, Zenon DEF before, b
    <2> QED
      BY <2>1, <2>10, <2>11, <2>12, Zenon
  <1>6. d \in T
    <2>1. 0 .. d \subseteq T
      <3> HIDE DEF T
      <3> QED
        BY <1>4, <1>5, EveryTurn
    <2>2. d \in 0 .. d
      OBVIOUS
    <2> QED
      BY <2>1, <2>2, Zenon
  <1> QED
    BY <1>2, <1>6, Zenon DEF InRow

\* What MessageBytesAgree says of one payload.
MessageAgrees(h, payload) ==
    LET frames == FrameIterBytes(h, payload) IN
    /\ IterBytes(h, payload) = Bytes(frames)
    /\ Len(frames) = NumFrames(payload)
    /\ PayloadIsMultiFrame(payload) = (Len(frames) > 1)
    /\ \A k \in 1 .. Len(frames) - 1 : Len(frames[k]) = MaxFrameSize
    /\ ~PayloadIsMultiFrame(TruncateToSingleFrame(payload))

\* A message with a payload.
LEMMA PayloadAgrees ==
  ASSUME NEW h \in WireHeaders, NEW n \in Nat, Shifted(n, 4) < 16
  PROVE  MessageAgrees(h, n)
  <1> DEFINE d == NumFrames(n)
             F == MaxFrameSize
             u == Usable
             p == LengthOf(n)
             frames == FrameIterBytes(h, n)
             all == Bytes(frames)
             total == TotalLen(n)
             g == [c \in Nat |-> Chunk(h, n, c)]
             last == 4 + (n + p - (d - 1) * Usable)
  <1>1. d \in Nat /\ d >= 1
    BY FrameCount
  <1>2. p \in 1 .. 5 /\ u \in Nat /\ u >= 6 /\ F \in Nat /\ F = u + 4 /\ HeaderSize = 4
    BY LengthOfFacts, UsableFacts DEF VarintMaxLen
  <1>3. frames = [k \in 1 .. d |-> CutFrame(h, n, k)]
    BY FramesCut
  <1>4. ASSUME NEW k \in 1 .. d
        PROVE  /\ frames[k] \in Seq(Byte)
               /\ Len(frames[k]) = IF k < d THEN F ELSE last
               /\ \A i \in 1 .. Len(frames[k]) :
                     frames[k][i] = Chunk(h, n, (k - 1) * F + (i - 1))
    <2>1. frames[k] = CutFrame(h, n, k)
      BY <1>3, Zenon
    <2> HIDE DEF frames
    <2> QED
      BY <2>1, CutFrameBytes
  <1> HIDE DEF frames, d, last
  <1>5. frames \in Seq(Seq(Byte)) /\ Len(frames) = d
    <2>1. \A k \in 1 .. d : CutFrame(h, n, k) \in Seq(Byte)
      BY <1>3, <1>4
    <2>2. frames \in [1 .. d -> Seq(Byte)]
      BY <1>3, <2>1, Zenon
    <2> QED
      BY <1>1, <2>2
  <1>6. \A k \in 1 .. d - 1 : Len(frames[k]) = F
    <2>1. \A k \in 1 .. d - 1 : k \in 1 .. d /\ k < d
      BY <1>1
    <2> QED
      BY <1>4, <2>1, Zenon
  <1>7. d \in 1 .. d /\ ~(d < d) /\ Len(frames[d]) = last
    <2>1. d \in 1 .. d /\ ~(d < d)
      BY <1>1
    <2> QED
      BY <1>4, <2>1, Zenon
  <1>8. ASSUME NEW k \in 1 .. d, NEW i \in 1 .. Len(frames[k])
        PROVE  frames[k][i] = g[(k - 1) * F + (i - 1)]
    <2>1. k - 1 \in Nat /\ i - 1 \in Nat
      BY <1>1
    <2>2. (k - 1) * F \in Nat
      BY <1>2, <2>1, Multiples
    <2>3. (k - 1) * F + (i - 1) \in Nat
      BY <2>1, <2>2
    <2>4. frames[k][i] = Chunk(h, n, (k - 1) * F + (i - 1))
      BY <1>4, Zenon
    <2> QED
      BY <2>3, <2>4, Zenon
  <1> HIDE DEF g
  <1>9. /\ Len(all) = (d - 1) * F + last
        /\ \A j \in 1 .. Len(all) : all[j] = g[j - 1]
    <2>1. FullFrames(frames, F, d, g)
      BY <1>5, <1>6, <1>8, Zenon DEF FullFrames
    <2>2. F \in Nat
      BY <1>2
    <2> HIDE DEF F
    <2>3. InRow(all, (d - 1) * F + last, g)
      BY <1>1, <1>5, <1>7, <2>1, <2>2, FullFramesJoined, Zenon
    <2> QED
      BY <2>3, Zenon DEF InRow
  <1>10. all \in Seq(Byte)
    BY <1>5, BytesType
  <1>11. Len(all) = total
    <2> DEFINE e == d - 1
               eu == e * u
    <2>1. e \in Nat
      BY <1>1
    <2>2. e * F = eu + 4 * e
      <3>1. F = u + 4
        BY <1>2
      <3> HIDE DEF F, u
      <3> QED
        BY <1>2, <2>1, <3>1, SMT
    <2>3. last = 4 + (n + p - eu)
      BY DEF last
    <2>4. total = d * 4 + (p + n)
      BY <1>2 DEF TotalLen, NonHeaderLen, NoPayload, d
    <2>5. eu \in Nat
      BY <1>2, <2>1, Multiples
    <2>6. Len(all) = e * F + last
      BY <1>9
    <2> DEFINE eF == e * F
    <2>7. eF = eu + 4 * e /\ Len(all) = eF + last /\ d = e + 1
      BY <1>1, <2>2, <2>6
    <2> HIDE DEF e, eu, eF, total, last, all, F, p, u
    <2> QED
      BY <1>1, <1>2, <2>1, <2>3, <2>4, <2>5, <2>7
  <1>12. IterBytes(h, n) = all
    <2>1. IterBytes(h, n) = [j \in 1 .. total |-> Chunk(h, n, j - 1)]
      BY Zenon DEF IterBytes
    <2> HIDE DEF total, all
    <2>2. ASSUME NEW j \in 1 .. total PROVE all[j] = Chunk(h, n, j - 1)
      <3>1. j - 1 \in Nat
        BY <1>10, <1>11
      <3>2. g[j - 1] = Chunk(h, n, j - 1)
        BY <3>1, Zenon DEF g
      <3> QED
        BY <1>9, <1>11, <3>2, Zenon
    <2>3. all = [j \in 1 .. total |-> all[j]]
      BY <1>10, <1>11
    <2> QED
      BY <2>1, <2>2, <2>3, Zenon
  <1>13. PayloadIsMultiFrame(n) <=> d > 1
    <2>1. n + p <= 1 * Usable <=> d <= 1
      BY FrameCount DEF d
    <2>2. 1 * Usable = u
      BY <1>2, Multiples
    <2>3. PayloadIsMultiFrame(n) <=> F - HeaderSize - p < n
      BY DEF PayloadIsMultiFrame, NoPayload
    <2> HIDE DEF u, p, F
    <2> QED
      BY <1>1, <1>2, <2>1, <2>2, <2>3
  <1>14. PayloadIsMultiFrame(n) \in BOOLEAN
    BY DEF PayloadIsMultiFrame
  <1>15. PayloadIsMultiFrame(n) = (d > 1)
    BY <1>13, <1>14
  <1>16. ~PayloadIsMultiFrame(TruncateToSingleFrame(n))
    BY TruncationFits
  <1>17. d = NumFrames(n)
    BY DEF d
  <1> QED
    BY <1>5, <1>6, <1>12, <1>15, <1>16, <1>17 DEF MessageAgrees, all, frames

\* A sequence of frames, given as a function.
LEMMA FramesInRow ==
  ASSUME NEW d \in Nat, NEW f \in [1 .. d -> Seq(Byte)]
  PROVE  f \in Seq(Seq(Byte)) /\ Len(f) = d
  OBVIOUS

\* A message without one.
LEMMA NoPayloadAgrees ==
  ASSUME NEW h \in WireHeaders
  PROVE  MessageAgrees(h, NoPayload)
  <1> DEFINE head == HeaderBytes(h)
             frames == FrameIterBytes(h, NoPayload)
             iter == CHOOSE f : f = [k \in 0 .. NoPayload + 2 |->
                        IF k = 0 THEN Frames(h, NoPayload) ELSE AfterFrame(f[k - 1])]
             Q(j) == /\ IsFinalFrame(iter[j - 1])
                     /\ \A m \in 1 .. j - 1 : ~IsFinalFrame(iter[m - 1])
             count == CHOOSE j \in 1 .. NoPayload + 2 : Q(j)
             first == Frames(h, NoPayload)
             a == [k \in 0 .. 1 |-> IF k = 0 THEN first ELSE AfterFrame(first)]
  <1>1. 0 .. NoPayload + 2 = 0 .. 1 /\ 1 .. NoPayload + 2 = {1}
    BY DEF NoPayload
  <1>2. iter[0] = first
    <2>1. a = [k \in 0 .. 1 |-> IF k = 0 THEN first ELSE AfterFrame(a[k - 1])]
      <3>1. ASSUME NEW k \in 0 .. 1, k # 0 PROVE a[k - 1] = first
        BY <3>1
      <3> QED
        BY <3>1
    <2> HIDE DEF a
    <2>2. iter = [k \in 0 .. 1 |-> IF k = 0 THEN first ELSE AfterFrame(iter[k - 1])]
      BY <1>1, <2>1, Zenon
    <2> HIDE DEF iter
    <2>3. 0 \in 0 .. 1
      OBVIOUS
    <2> QED
      BY <2>2, <2>3, Zenon
  <1>3. /\ first.header = h /\ first.payload = NoPayload /\ first.processed = 0
        /\ IsFinalFrame(first)
    BY DEF Frames, IsFinalFrame
  <1>4. count = 1
    <2>1. count \in 1 .. NoPayload + 2
      <3>1. Q(1)
        BY <1>2, <1>3
      <3> QED
        BY <1>1, <3>1, Zenon
    <2> HIDE DEF count
    <2> QED
      BY <1>1, <2>1, Zenon
  <1> DEFINE bytes == FrameBytes(NextFrame(first), 0)
  <1>5. frames = [k \in 1 .. 1 |-> bytes]
    <2>1. frames = [k \in 1 .. count |->
                      FrameBytes(NextFrame(iter[k - 1]), iter[k - 1].processed)]
      BY Zenon DEF FrameIterBytes
    <2> HIDE DEF count, iter, frames, first
    <2>2. \A k \in 1 .. 1 : k - 1 = 0
      OBVIOUS
    <2>3. \A k \in 1 .. 1 : FrameBytes(NextFrame(iter[k - 1]), iter[k - 1].processed) = bytes
      BY <1>2, <1>3, <2>2, Zenon
    <2> QED
      BY <1>4, <2>1, <2>3, Zenon
  <1>6. head \in Seq(Byte) /\ Len(head) = 4
    <2>1. h # NoHeader
      BY WireHeaderFacts
    <2> QED
      BY <2>1, HeadBytes DEF HeadOf
  <1>7. bytes = head
    <2>1. /\ NextFrame(first).header = h /\ NextFrame(first).len = NoLen
          /\ NextFrame(first).seg = 0
      BY <1>3 DEF NextFrame
    <2>2. bytes = (head \o <<>>) \o PayloadBytes(0, 0)
      BY <2>1, Zenon DEF FrameBytes
    <2>3. PayloadBytes(0, 0) = <<>>
      BY DEF PayloadBytes
    <2>4. head \o <<>> = head
      BY <1>6
    <2> QED
      BY <2>2, <2>3, <2>4, Zenon
  <1> HIDE DEF frames, head, bytes
  <1>8. frames \in Seq(Seq(Byte)) /\ Len(frames) = 1 /\ frames[1] = head
    <2>1. frames \in [1 .. 1 -> Seq(Byte)]
      BY <1>5, <1>6, <1>7, Zenon
    <2>2. 1 \in 1 .. 1 /\ 1 \in Nat
      OBVIOUS
    <2>3. frames[1] = head
      BY <1>5, <1>7, <2>2, Zenon
    <2> QED
      BY <2>1, <2>2, <2>3, FramesInRow, Zenon
  <1>9. Bytes(frames) = head
    <2>1. PICK f : IsBytes(f, frames)
      BY <1>8, BytesLoop
    <2>2. f[0] = <<>> /\ f[1] = f[0] \o frames[1] /\ Bytes(frames) = f[1]
      <3>1. 1 \in 1 .. Len(frames) /\ 1 - 1 = 0
        BY <1>8
      <3>2. f[1] = f[1 - 1] \o frames[1]
        BY <2>1, <3>1, Zenon DEF IsBytes
      <3> QED
        BY <1>8, <2>1, <3>1, <3>2 DEF IsBytes
    <2>3. <<>> \o head = head
      BY <1>6
    <2> QED
      BY <1>8, <2>2, <2>3, Zenon
  <1>10. NumFrames(NoPayload) = 1
    <2> DEFINE u == Usable
    <2>1. NonHeaderLen(NoPayload) = 0
      BY DEF NonHeaderLen
    <2>2. u \in Nat /\ u >= 6
      BY UsableFacts
    <2>3. NumFrames(NoPayload) = IF (0 + u - 1) \div u = 0 THEN 1 ELSE (0 + u - 1) \div u
      BY <2>1, Zenon DEF NumFrames, Usable
    <2> HIDE DEF u
    <2>4. u - 1 \in 0 .. u - 1 /\ 0 * u + (u - 1) = 0 + u - 1
      BY <2>2, Multiples
    <2>5. (0 * u + (u - 1)) \div u = 0
      BY <2>2, <2>4, Division
    <2> QED
      BY <2>3, <2>4, <2>5
  <1>11. IterBytes(h, NoPayload) = head
    <2>1. TotalLen(NoPayload) = 4
      BY <1>10 DEF TotalLen, NonHeaderLen, HeaderSize
    <2>2. IterBytes(h, NoPayload) = [k \in 1 .. 4 |-> Chunk(h, NoPayload, k - 1)]
      BY <2>1, Zenon DEF IterBytes
    <2>3. ASSUME NEW k \in 1 .. 4 PROVE Chunk(h, NoPayload, k - 1) = head[k]
      <3> DEFINE F == MaxFrameSize
                 preamble == HeaderSize + IF (k - 1) \div F = 0 THEN 0 ELSE 0
      <3>1. F \in Nat /\ F >= 10 /\ HeaderSize = 4
        BY UsableFacts
      <3>2. k - 1 \in 0 .. F - 1 /\ 0 * F + (k - 1) = k - 1
        BY <3>1, Multiples
      <3>3. (k - 1) \div F = 0 /\ (k - 1) % F = k - 1
        <4>1. (0 * F + (k - 1)) \div F = 0 /\ (0 * F + (k - 1)) % F = k - 1
          BY <3>1, <3>2, Division
        <4> QED
          BY <3>2, <4>1
      <3> DEFINE c == (k - 1) \div F
                 r == (k - 1) % F
                 pl == HeaderSize + IF c = 0 THEN Len(<<>>) ELSE 0
      <3>4. Chunk(h, NoPayload, k - 1) =
              CASE r < HeaderSize -> head[r + 1]
                [] r \in HeaderSize .. pl - 1 -> <<>>[r - HeaderSize + 1]
                [] r >= pl -> (FramePayloadStart(c, Len(<<>>)) + r - pl + 1) % 256
        BY Zenon DEF Chunk, head
      <3>5. r = k - 1 /\ r < HeaderSize /\ r + 1 = k
        BY <3>1, <3>3
      <3>6. pl = 4
        BY <3>1
      <3> HIDE DEF c, r, pl
      <3>7. ~(r \in HeaderSize .. pl - 1) /\ ~(r >= pl)
        BY <3>1, <3>5, <3>6
      <3> QED
        BY <3>4, <3>5, <3>7, Zenon
    <2>4. head = [k \in 1 .. 4 |-> head[k]]
      BY <1>6
    <2> QED
      BY <2>2, <2>3, <2>4, Zenon
  <1>12. PayloadIsMultiFrame(NoPayload) = FALSE
    BY DEF PayloadIsMultiFrame
  <1>13. ~PayloadIsMultiFrame(TruncateToSingleFrame(NoPayload))
    BY <1>12 DEF TruncateToSingleFrame
  <1>14. PayloadIsMultiFrame(NoPayload) = (Len(frames) > 1)
    <2>1. (Len(frames) > 1) = FALSE
      BY <1>8
    <2> QED
      BY <1>12, <2>1, Zenon
  <1>15. \A k \in 1 .. Len(frames) - 1 : Len(frames[k]) = MaxFrameSize
    BY <1>8
  <1> QED
    BY <1>8, <1>9, <1>10, <1>11, <1>13, <1>14, <1>15, Zenon DEF MessageAgrees, frames

\* ByteIter and FrameIter agree (outgoing_message.rs): what one writes byte by byte is what
\* the other cuts into frames, for every frame size and every payload of up to 32 bits of length.
THEOREM MessagesWrittenAlike == Spec => []MessageBytesAgree
  <1> DEFINE h == Header("RequestPl", 1, 300)
  <1>1. h \in WireHeaders
    <2>1. 300 \in Ids
      BY SMT, FramingAssumption DEF Ids
    <2>2. 1 \in Byte /\ "RequestPl" \in WireKinds
      BY DEF Byte, WireKinds, Kind
    <2> QED
      BY <2>1, <2>2 DEF Header, WireHeaders
  <1>2. ASSUME NEW payload \in MessageLens PROVE MessageAgrees(h, payload)
    <2> HIDE DEF h
    <2>1. payload = NoPayload \/ (payload \in Nat /\ Shifted(payload, 4) < 16)
      BY SMT, FramingAssumption
    <2>2. CASE payload = NoPayload
      BY <1>1, <2>2, NoPayloadAgrees, Zenon
    <2>3. CASE payload \in Nat /\ Shifted(payload, 4) < 16
      BY <1>1, <2>3, PayloadAgrees, Zenon
    <2> QED
      BY <2>1, <2>2, <2>3
  <1> HIDE DEF h
  <1>3. MessageBytesAgree
    BY <1>2, Zenon DEF MessageBytesAgree, MessageAgrees, h
  <1> QED
    BY <1>3, PTL

=============================================================================
