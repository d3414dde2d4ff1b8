---------------------------- MODULE FramesProofs ----------------------------
(***************************************************************************)
(* Proofs about Frames, for streams of any length and every byte.          *)
(***************************************************************************)
EXTENDS Frames, SequenceTheorems, WellFoundedInduction, TLAPS

\* First finds the least of the indices if there is one.
LEMMA FirstFinds ==
    ASSUME NEW is \in SUBSET Nat, is # {}
    PROVE  First(is) \in is /\ \A j \in is : First(is) <= j
<1> DEFINE Less == {ss \in Nat \X Nat : ss[1] < ss[2]}
<1>1. IsWellFoundedOn(Less, Nat)
  BY NatLessThanWellFounded, Zenon DEF OpToRel
<1>2. PICK x \in is : \A y \in is : ~(<<y, x>> \in Less)
  <2> HIDE DEF Less
  <2>1. QED
    BY <1>1, WFMin
<1>3. ASSUME NEW y \in is PROVE x <= y
  <2>1. x \in Nat /\ y \in Nat
    OBVIOUS
  <2>2. y < x => <<y, x>> \in Less
    BY <2>1
  <2>3. ~(y < x)
    BY <1>2, <2>2, Zenon
  <2>4. QED
    BY <2>1, <2>3
<1>4. QED
  BY <1>3 DEF First

\* A part of a byte sequence.
LEMMA Part ==
    ASSUME NEW s \in Seq(Bytes), NEW m \in Nat \ {0}, NEW n \in Nat,
           n <= Len(s), m <= n + 1
    PROVE  /\ SubSeq(s, m, n) \in Seq(Bytes)
           /\ Len(SubSeq(s, m, n)) = n - m + 1
           /\ \A i \in 1..(n - m + 1) : SubSeq(s, m, n)[i] = s[m + i - 1]
<1>1. s \in [1..Len(s) -> Bytes] /\ Len(s) \in Nat
  BY LenProperties
<1>2. \A i \in m..n : s[i] \in Bytes
  BY <1>1
<1>3. m \in Int /\ n \in Int
  OBVIOUS
<1>4. /\ SubSeq(s, m, n) \in Seq(Bytes)
      /\ Len(SubSeq(s, m, n)) = IF m <= n THEN n - m + 1 ELSE 0
      /\ \A i \in 1..(n - m + 1) : SubSeq(s, m, n)[i] = s[m + i - 1]
  BY <1>2, <1>3, SubSeqProperties
<1>5. (IF m <= n THEN n - m + 1 ELSE 0) = n - m + 1
  OBVIOUS
<1>6. QED
  BY <1>4, <1>5, Zenon

\* What remains from an index on.
LEMMA Rest ==
    ASSUME NEW s \in Seq(Bytes), NEW m \in Nat \ {0}, m <= Len(s) + 1
    PROVE  /\ From(s, m) \in Seq(Bytes)
           /\ Len(From(s, m)) = Len(s) - m + 1
           /\ \A i \in 1..(Len(s) - m + 1) : From(s, m)[i] = s[m + i - 1]
<1>1. Len(s) \in Nat
  OBVIOUS
<1>2. QED
  BY <1>1, Part DEF From

\* The largest numbers of 8 and 16 bits.
LEMMA Numbers ==
    MaxByte \in Nat /\ MaxUint16 \in Nat /\ MaxByte + 256 * MaxByte = MaxUint16
  BY DEF MaxByte, MaxUint16

\* Two bytes make a number of 16 bits.
LEMMA Word ==
    ASSUME NEW s \in Seq(Bytes), NEW i \in Nat \ {0}, i + 1 <= Len(s)
    PROVE  Uint16(s, i) \in 0..MaxUint16
<1>1. i \in 1..Len(s) /\ i + 1 \in 1..Len(s)
  OBVIOUS
<1>2. s[i] \in Bytes /\ s[i + 1] \in Bytes
  BY <1>1
<1>3. /\ s[i] \in Nat /\ s[i] <= MaxByte
      /\ s[i + 1] \in Nat /\ s[i + 1] <= MaxByte
  BY <1>2, Numbers DEF Bytes
<1>4. QED
  BY <1>3, Numbers DEF Uint16

\* The prefixes are bytes.
LEMMA PrefixBytes == encPrefix \in Bytes /\ packetPrefix \in Bytes /\ 3 \in Bytes
<1>1. MaxByte \in Nat /\ 90 <= MaxByte /\ 170 <= MaxByte /\ 3 <= MaxByte
  BY DEF MaxByte
<1>2. QED
  BY <1>1 DEF encPrefix, packetPrefix, Bytes

\* Data from the first prefix on begins with it, and is not longer.
LEMMA FromPair ==
    ASSUME NEW s \in Seq(Bytes), PairIndex(s) # 0
    PROVE  LET d == From(s, PairIndex(s))
           IN  d \in Seq(Bytes) /\ Len(d) <= Len(s) /\ Len(d) >= 2 /\ d[1] = encPrefix
<1> DEFINE is == {i \in 1..(Len(s) - 1) : s[i] = encPrefix /\ s[i + 1] = encPrefix}
           i  == PairIndex(s)
<1>1. Len(s) \in Nat
  OBVIOUS
<1>2. is \in SUBSET Nat /\ is # {}
  BY <1>1 DEF PairIndex, First
<1>3. i \in is
  BY <1>2, FirstFinds DEF PairIndex
<1>4. i \in Nat \ {0} /\ i <= Len(s) - 1 /\ s[i] = encPrefix
  BY <1>1, <1>3
<1> HIDE DEF i
<1>5. /\ From(s, i) \in Seq(Bytes)
      /\ Len(From(s, i)) = Len(s) - i + 1
      /\ \A j \in 1..(Len(s) - i + 1) : From(s, i)[j] = s[i + j - 1]
  BY <1>1, <1>4, Rest
<1>6. From(s, i)[1] = s[i + 1 - 1]
  BY <1>1, <1>4, <1>5
<1>7. i + 1 - 1 = i
  BY <1>4
<1>8. From(s, i)[1] = encPrefix
  BY <1>4, <1>6, <1>7, Zenon
<1>9. QED
  BY <1>1, <1>4, <1>5, <1>8 DEF i

\* The same for packets.
LEMMA FromPrefix ==
    ASSUME NEW s \in Seq(Bytes), PrefixIndex(s) # 0
    PROVE  LET d == From(s, PrefixIndex(s))
           IN  d \in Seq(Bytes) /\ Len(d) <= Len(s) /\ Len(d) >= 1 /\ d[1] = packetPrefix
<1> DEFINE is == {i \in 1..Len(s) : s[i] = packetPrefix}
           i  == PrefixIndex(s)
<1>1. Len(s) \in Nat
  OBVIOUS
<1>2. is \in SUBSET Nat /\ is # {}
  BY <1>1 DEF PrefixIndex, First
<1>3. i \in is
  BY <1>2, FirstFinds DEF PrefixIndex
<1>4. i \in Nat \ {0} /\ i <= Len(s) /\ s[i] = packetPrefix
  BY <1>1, <1>3
<1> HIDE DEF i
<1>5. /\ From(s, i) \in Seq(Bytes)
      /\ Len(From(s, i)) = Len(s) - i + 1
      /\ \A j \in 1..(Len(s) - i + 1) : From(s, i)[j] = s[i + j - 1]
  BY <1>1, <1>4, Rest
<1>6. From(s, i)[1] = s[i + 1 - 1]
  BY <1>1, <1>4, <1>5
<1>7. i + 1 - 1 = i
  BY <1>4
<1>8. From(s, i)[1] = packetPrefix
  BY <1>4, <1>6, <1>7, Zenon
<1>9. QED
  BY <1>1, <1>4, <1>5, <1>8 DEF i

----------------------------------------------------------------------------
(* One iteration of an assembler's loop.                                   *)

\* The result r of an iteration on data: what goes on has become shorter, and
\* what is kept begins with the prefix and is below the bound.
Sound(r, data, prefix, bound) ==
    /\ r.rest \in Seq(Bytes) /\ r.out \in Seq(Seq(Bytes)) /\ r.more \in BOOLEAN
    /\ r.more => Len(r.rest) < Len(data)
    /\ ~r.more /\ r.rest # <<>> => r.rest[1] = prefix /\ Len(r.rest) < bound

\* The three ends of an iteration.
LEMMA EndsSound ==
    ASSUME NEW data \in Seq(Bytes), NEW prefix, NEW bound, NEW rest \in Seq(Bytes)
    PROVE  /\ (rest # <<>> => rest[1] = prefix /\ Len(rest) < bound)
                => Sound(Keep(rest), data, prefix, bound)
           /\ Len(rest) < Len(data) => Sound(Skip(rest), data, prefix, bound)
           /\ \A p \in Seq(Bytes) :
                Len(rest) < Len(data) => Sound(Emit(p, rest), data, prefix, bound)
<1>1. <<>> \in Seq(Seq(Bytes)) /\ \A p \in Seq(Bytes) : <<p>> \in Seq(Seq(Bytes))
  OBVIOUS
<1>2. QED
  BY <1>1 DEF Sound, Keep, Skip, Emit

\* What an iteration does with data that begins with a prefix.
EncAt(d) ==
    LET payloadLen == Uint16(d, 5)
        frameLen == 6 + payloadLen
    IN IF Len(d) < 8 THEN Keep(d)
       ELSE IF payloadLen < 2 \/ payloadLen > MaxEncLen THEN Skip(From(d, 3))
       ELSE IF Len(d) < frameLen THEN Keep(d)
       ELSE IF CRC16(SubSeq(d, 1, frameLen - 2)) # Uint16(d, frameLen - 1)
            THEN Skip(From(d, 3))
       ELSE Emit(SubSeq(d, 7, frameLen - 2), From(d, frameLen + 1))

\* The same for packets.
HeaderAt(k, d) ==
    LET frameLen == 5 + BodyOnWire(k, d[2], Uint16(d, 3))
    IN IF Len(d) < 5 THEN Keep(d)
       ELSE IF CRC8(SubSeq(d, 1, 4)) # d[5] THEN Skip(From(d, 2))
       ELSE IF Len(d) < frameLen THEN Keep(d)
       ELSE Emit(SubSeq(d, 1, 5 + packetBodyLen(d[2], Uint16(d, 3))),
                 From(d, frameLen + 1))

\* EncReassemble and HeaderReassemble are these behind the first prefix.
LEMMA IterationAt ==
    ASSUME NEW k, NEW s
    PROVE  /\ EncReassemble(s) = IF PairIndex(s) = 0 THEN Keep(HalfPrefix(s))
                                 ELSE EncAt(From(s, PairIndex(s)))
           /\ HeaderReassemble(k, s) = IF PrefixIndex(s) = 0 THEN Keep(<<>>)
                                       ELSE HeaderAt(k, From(s, PrefixIndex(s)))
  BY Zenon DEF EncReassemble, EncAt, HeaderReassemble, HeaderAt

\* EncPacketAssembler and SimplePacketAssembler.
LEMMA EncSound ==
    ASSUME NEW data \in Seq(Bytes)
    PROVE  Sound(EncReassemble(data), data, encPrefix, 6 + MaxEncLen)
<1> DEFINE d == From(data, PairIndex(data))
           B == 6 + MaxEncLen
           r == EncReassemble(data)
<1>0. MaxEncLen \in Nat /\ B \in Nat /\ B > 8 /\ Len(data) \in Nat
  BY DEF MaxEncLen
<1>1. CASE PairIndex(data) = 0
  <2>1. r = Keep(HalfPrefix(data))
    BY <1>1 DEF EncReassemble
  <2>2. HalfPrefix(data) \in {<<>>, <<encPrefix>>}
    BY DEF HalfPrefix
  <2>3. /\ <<encPrefix>> \in Seq(Bytes) /\ Len(<<encPrefix>>) = 1
        /\ <<encPrefix>>[1] = encPrefix /\ <<>> \in Seq(Bytes)
    BY PrefixBytes
  <2> DEFINE h == HalfPrefix(data)
  <2> HIDE DEF h, B, r
  <2>4. h \in Seq(Bytes) /\ (h # <<>> => h[1] = encPrefix /\ Len(h) < B)
    <3>1. 1 < B
      BY <1>0
    <3>2. CASE h = <<>>
      BY <2>3, <3>2, Zenon
    <3>3. CASE h = <<encPrefix>>
      BY <2>3, <3>1, <3>3, Zenon
    <3>4. QED
      BY <2>2, <3>2, <3>3 DEF h
  <2>5. Sound(r, data, encPrefix, B)
    BY <2>1, <2>4, EndsSound DEF h
  <2>6. QED
    BY <2>5 DEF r, B
<1>2. CASE PairIndex(data) # 0
  <2> DEFINE n == Uint16(d, 5)
  <2>1. /\ d \in Seq(Bytes) /\ Len(d) <= Len(data) /\ Len(d) >= 2
        /\ d[1] = encPrefix /\ Len(d) \in Nat
    BY <1>2, FromPair
  <2>2. r = IF Len(d) < 8 THEN Keep(d)
            ELSE IF n < 2 \/ n > MaxEncLen THEN Skip(From(d, 3))
            ELSE IF Len(d) < 6 + n THEN Keep(d)
            ELSE IF CRC16(SubSeq(d, 1, (6 + n) - 2)) # Uint16(d, (6 + n) - 1) THEN Skip(From(d, 3))
            ELSE Emit(SubSeq(d, 7, (6 + n) - 2), From(d, 6 + n + 1))
    <3>1. r = EncAt(d)
      BY <1>2, IterationAt
    <3> HIDE DEF d, r
    <3>2. QED
      BY <3>1 DEF EncAt
  <2> HIDE DEF d, B, r
  <2>3. CASE Len(d) < 8
    <3>1. Len(d) < B
      BY <1>0, <2>1, <2>3
    <3>2. r = Keep(d)
      BY <2>2, <2>3
    <3>3. Sound(r, data, encPrefix, B)
      BY <2>1, <3>1, <3>2, EndsSound
    <3>4. QED
      BY <3>3 DEF r, B
  <2>4. CASE ~(Len(d) < 8)
    <3>1. From(d, 3) \in Seq(Bytes) /\ Len(From(d, 3)) < Len(data)
      BY <1>0, <2>1, <2>4, Rest
    <3>2. CASE r = Skip(From(d, 3))
      <4>1. Sound(r, data, encPrefix, B)
        BY <3>1, <3>2, EndsSound
      <4>2. QED
        BY <4>1 DEF r, B
    <3>3. CASE r # Skip(From(d, 3))
      <4>1. n \in 0..MaxUint16
        BY <2>1, <2>4, Word
      <4>2. ~(n < 2 \/ n > MaxEncLen)
        BY <2>2, <2>4, <3>3
      <4> HIDE DEF n
      <4>3. n \in Nat /\ n >= 2 /\ n <= MaxEncLen
        BY <1>0, <4>1, <4>2, Numbers
      <4>4. CASE Len(d) < 6 + n
        <5>1. Len(d) < B
          BY <1>0, <2>1, <4>3, <4>4 DEF B
        <5>2. r = Keep(d)
          BY <2>2, <2>4, <4>2, <4>4 DEF n
        <5>3. Sound(r, data, encPrefix, B)
          BY <2>1, <5>1, <5>2, EndsSound
        <5>4. QED
          BY <5>3 DEF r, B
      <4>5. CASE ~(Len(d) < 6 + n)
        <5>1. r = Emit(SubSeq(d, 7, (6 + n) - 2), From(d, 6 + n + 1))
          BY <2>2, <2>4, <3>3, <4>2, <4>5 DEF n
        <5>2. 6 + n + 1 \in Nat \ {0} /\ 6 + n + 1 <= Len(d) + 1 /\ (6 + n) - 2 \in Nat
              /\ (6 + n) - 2 <= Len(d) /\ 7 <= (6 + n) - 2 + 1 /\ 7 \in Nat \ {0}
          BY <2>1, <4>3, <4>5
        <5>3. /\ From(d, 6 + n + 1) \in Seq(Bytes)
              /\ Len(From(d, 6 + n + 1)) = Len(d) - (6 + n + 1) + 1
          BY <2>1, <5>2, Rest
        <5>4. Len(From(d, 6 + n + 1)) < Len(data)
          BY <1>0, <2>1, <4>3, <5>3
        <5>5. SubSeq(d, 7, (6 + n) - 2) \in Seq(Bytes)
          BY <2>1, <5>2, Part
        <5>6. Sound(r, data, encPrefix, B)
          BY <5>1, <5>3, <5>4, <5>5, EndsSound
        <5>7. QED
          BY <5>6 DEF r, B
      <4>6. QED
        BY <4>4, <4>5
    <3>4. QED
      BY <3>2, <3>3
  <2>5. QED
    BY <2>3, <2>4
<1>3. QED
  BY <1>1, <1>2

\* The longest body.
LEMMA LongestBody == packetBodyLen(3, MaxUint16) = 15 + MaxUint16
  BY Numbers DEF packetBodyLen, LongLayout, Sentinel

\* The overhead of a body is at most the one of the long layout with a CRC16,
\* and padding keeps the order of two lengths.
LEMMA BodyLength ==
    ASSUME NEW k, NEW v \in Bytes, NEW n \in 0..MaxUint16
    PROVE  /\ packetBodyLen(v, n) \in Nat /\ BodyOnWire(k, v, n) \in Nat
           /\ packetBodyLen(v, n) <= BodyOnWire(k, v, n)
           /\ BodyOnWire(k, v, n) <= BodyOnWire(k, 3, MaxUint16)
           /\ packetBodyLen(v, n) =
                IF v = 4 THEN 5 + n
                ELSE IF LongLayout(v) THEN (IF Sentinel(v) THEN 13 + n ELSE 15 + n)
                ELSE (IF Sentinel(v) THEN 11 + n ELSE 13 + n)
<1>1. n \in Nat /\ n <= MaxUint16
  BY Numbers
<1>2. packetBodyLen(v, n) =
        IF v = 4 THEN 5 + n
        ELSE IF LongLayout(v) THEN (IF Sentinel(v) THEN 13 + n ELSE 15 + n)
        ELSE (IF Sentinel(v) THEN 11 + n ELSE 13 + n)
  BY <1>1 DEF packetBodyLen
<1>3. packetBodyLen(3, 65535) = 65550
  BY DEF packetBodyLen, LongLayout, Sentinel
<1>4. ASSUME NEW a \in Nat, NEW b \in Nat, a <= b
      PROVE  /\ ((a + 15) \div 16) * 16 \in Nat /\ a <= ((a + 15) \div 16) * 16
             /\ ((a + 15) \div 16) * 16 <= ((b + 15) \div 16) * 16
  BY <1>4
<1>5. packetBodyLen(v, n) \in Nat /\ packetBodyLen(v, n) <= 15 + MaxUint16
  BY <1>1, <1>2, Numbers
<1> DEFINE b == packetBodyLen(v, n)
           c == packetBodyLen(3, MaxUint16)
<1> HIDE DEF b, c
<1>6. b \in Nat /\ c \in Nat /\ b <= c
  <2>1. MaxUint16 \in Nat
    BY Numbers
  <2>2. c = 15 + MaxUint16
    BY LongestBody DEF c
  <2>3. b \in Nat /\ b <= 15 + MaxUint16
    BY <1>5 DEF b
  <2>4. QED
    BY <2>1, <2>2, <2>3
<1>7. CASE k = "rawHeader"
  <2>1. /\ BodyOnWire(k, v, n) = ((b + 15) \div 16) * 16
        /\ BodyOnWire(k, 3, MaxUint16) = ((c + 15) \div 16) * 16
    BY <1>7 DEF BodyOnWire, b, c
  <2>2. QED
    BY <1>2, <1>4, <1>6, <2>1 DEF b
<1>8. CASE k # "rawHeader"
  <2>1. BodyOnWire(k, v, n) = b /\ BodyOnWire(k, 3, MaxUint16) = c
    BY <1>8 DEF BodyOnWire, b, c
  <2>2. QED
    BY <1>2, <1>6, <2>1 DEF b
<1>9. QED
  BY <1>7, <1>8

\* What ParsePacket and an assembler of packets should agree on.
Whole(p) ==
    \/ ParsePacket(p) = "unsupported"
    \/ ParsePacket(p) \in {"ok", "crc"} /\ Len(p) = TotalLength(p)

\* A packet that is cut out behind a header with the right checksum has the
\* length that ParsePacket computes from the same header.
LEMMA CutIsWhole ==
    ASSUME NEW d \in Seq(Bytes), d[1] = packetPrefix, Len(d) >= 5,
           CRC8(SubSeq(d, 1, 4)) = d[5],
           5 + packetBodyLen(d[2], Uint16(d, 3)) <= Len(d)
    PROVE  LET p == SubSeq(d, 1, 5 + packetBodyLen(d[2], Uint16(d, 3)))
           IN  p \in Seq(Bytes) /\ Whole(p)
<1> DEFINE v == d[2]
           m == Uint16(d, 3)
           b == packetBodyLen(v, m)
           n == 5 + b
           p == SubSeq(d, 1, n)
<1>1. v \in Bytes /\ Len(d) \in Nat /\ m \in 0..MaxUint16
  BY Word
<1>2. /\ b \in Nat
      /\ b = IF v = 4 THEN 5 + m
             ELSE IF LongLayout(v) THEN (IF Sentinel(v) THEN 13 + m ELSE 15 + m)
             ELSE (IF Sentinel(v) THEN 11 + m ELSE 13 + m)
  BY <1>1, BodyLength
<1> HIDE DEF b, m
<1>3. n \in Nat /\ n >= 5 /\ n <= Len(d) /\ 1 <= n + 1
  BY <1>1, <1>2 DEF b, m
<1> HIDE DEF n
<1>4. /\ p \in Seq(Bytes) /\ Len(p) = n - 1 + 1
      /\ \A i \in 1..(n - 1 + 1) : p[i] = d[1 + i - 1]
  BY <1>3, Part
<1>5. /\ Len(p) = n /\ p[1] = d[1] /\ p[2] = v /\ p[3] = d[3] /\ p[4] = d[4]
      /\ p[5] = d[5]
  BY <1>3, <1>4
<1>6. SubSeq(p, 1, 4) = SubSeq(d, 1, 4)
  <2>1. 1 \in 1..Len(d) /\ n \in 1..Len(d) /\ 1 \in 1..(n - 1 + 1) /\ 4 \in 1..(n - 1 + 1)
    BY <1>1, <1>3
  <2>2. SubSeq(SubSeq(d, 1, n), 1, 4) = SubSeq(d, 1 + 1 - 1, 1 + 4 - 1)
    BY <2>1, SubSeqOfSubSeq
  <2>3. 1 + 1 - 1 = 1 /\ 1 + 4 - 1 = 4
    OBVIOUS
  <2>4. QED
    BY <2>2, <2>3, Zenon
<1> HIDE DEF p
<1>7. Uint16(p, 3) = m
  BY <1>5 DEF Uint16, m
<1>8. ASSUME v = 4 PROVE Whole(p)
  BY <1>3, <1>5, <1>8 DEF Whole, ParsePacket
<1>9. ASSUME v # 4 PROVE Whole(p)
  <2>1. Len(p) = TotalLength(p)
    <3>1. TotalLength(p) = IF LongLayout(v) THEN (IF Sentinel(v) THEN 18 + m ELSE 18 + m + 2)
                           ELSE (IF Sentinel(v) THEN 16 + m ELSE 16 + m + 2)
      BY <1>5, <1>7 DEF TotalLength
    <3>2. QED
      BY <1>1, <1>2, <1>5, <1>9, <3>1 DEF n
  <2>2. CRC8(SubSeq(p, 1, 4)) = p[5]
    BY <1>5, <1>6
  <2>3. ParsePacket(p) \in {"ok", "crc"}
    <3>1. ~(Len(p) < 5 \/ p[1] # packetPrefix) /\ p[2] # 4
      BY <1>3, <1>5, <1>9
    <3>2. ~(Len(p) < TotalLength(p))
      BY <1>3, <1>5, <2>1
    <3>3. QED
      BY <2>2, <3>1, <3>2 DEF ParsePacket
  <2>4. QED
    BY <2>1, <2>3 DEF Whole
<1>10. QED
  BY <1>4, <1>8, <1>9 DEF p, n, b, m

\* PassthroughAssembler and RawHeaderAssembler.
LEMMA HeaderSound ==
    ASSUME NEW k, NEW data \in Seq(Bytes)
    PROVE  /\ Sound(HeaderReassemble(k, data), data, packetPrefix, 5 + BodyOnWire(k, 3, MaxUint16))
           /\ \A i \in 1..Len(HeaderReassemble(k, data).out) :
                Whole(HeaderReassemble(k, data).out[i])
<1> DEFINE d == From(data, PrefixIndex(data))
           B == 5 + BodyOnWire(k, 3, MaxUint16)
           r == HeaderReassemble(k, data)
           n == 5 + BodyOnWire(k, d[2], Uint16(d, 3))
           p == SubSeq(d, 1, 5 + packetBodyLen(d[2], Uint16(d, 3)))
           Good == Sound(r, data, packetPrefix, B) /\ \A i \in 1..Len(r.out) : Whole(r.out[i])
<1>0. B \in Nat /\ B >= 5 /\ Len(data) \in Nat /\ BodyOnWire(k, 3, MaxUint16) \in Nat
  <2>1. 3 \in Bytes /\ MaxUint16 \in 0..MaxUint16
    BY PrefixBytes, Numbers
  <2>2. BodyOnWire(k, 3, MaxUint16) \in Nat
    BY <2>1, BodyLength
  <2>3. QED
    BY <2>2
<1>1. ASSUME NEW rest \in Seq(Bytes), r = Keep(rest),
             rest # <<>> => rest[1] = packetPrefix /\ Len(rest) < B
      PROVE  Good
  <2> HIDE DEF r, B
  <2>1. r.out = <<>>
    BY <1>1 DEF Keep
  <2>2. QED
    BY <1>1, <2>1, EndsSound
<1>2. ASSUME NEW rest \in Seq(Bytes), r = Skip(rest), Len(rest) < Len(data)
      PROVE  Good
  <2> HIDE DEF r, B
  <2>1. r.out = <<>>
    BY <1>2 DEF Skip
  <2>2. QED
    BY <1>2, <2>1, EndsSound
<1>3. ASSUME NEW q \in Seq(Bytes), NEW rest \in Seq(Bytes), r = Emit(q, rest),
             Len(rest) < Len(data), Whole(q)
      PROVE  Good
  <2> HIDE DEF r, B
  <2>1. r.out = <<q>>
    BY <1>3 DEF Emit
  <2>2. \A i \in 1..Len(r.out) : Whole(r.out[i])
    BY <1>3, <2>1
  <2>3. QED
    BY <1>3, <2>2, EndsSound
<1>4. CASE PrefixIndex(data) = 0
  <2>1. r = Keep(<<>>) /\ <<>> \in Seq(Bytes)
    BY <1>4 DEF HeaderReassemble
  <2> HIDE DEF r, B
  <2>2. QED
    BY <1>1, <2>1 DEF r, B
<1>5. CASE PrefixIndex(data) # 0
  <2>1. d \in Seq(Bytes) /\ Len(d) <= Len(data) /\ Len(d) >= 1 /\ d[1] = packetPrefix /\ Len(d) \in Nat
    BY <1>5, FromPrefix
  <2>2. r = IF Len(d) < 5 THEN Keep(d)
            ELSE IF CRC8(SubSeq(d, 1, 4)) # d[5] THEN Skip(From(d, 2))
            ELSE IF Len(d) < n THEN Keep(d)
            ELSE Emit(p, From(d, n + 1))
    BY <1>5 DEF HeaderReassemble
  <2> HIDE DEF d, B, r
  <2>3. CASE Len(d) < 5
    <3>1. r = Keep(d) /\ Len(d) < B
      BY <1>0, <2>1, <2>2, <2>3
    <3>2. Good
      BY <1>1, <2>1, <3>1
    <3>3. QED
      BY <3>2 DEF r, B
  <2>4. CASE ~(Len(d) < 5) /\ CRC8(SubSeq(d, 1, 4)) # d[5]
    <3>1. r = Skip(From(d, 2))
      BY <2>2, <2>4
    <3>2. From(d, 2) \in Seq(Bytes) /\ Len(From(d, 2)) = Len(d) - 2 + 1
      BY <2>1, <2>4, Rest
    <3>3. Len(From(d, 2)) < Len(data)
      BY <1>0, <2>1, <3>2
    <3>4. Good
      BY <1>2, <3>1, <3>2, <3>3
    <3>5. QED
      BY <3>4 DEF r, B
  <2>5. CASE ~(Len(d) < 5) /\ CRC8(SubSeq(d, 1, 4)) = d[5]
    <3>1. d[2] \in Bytes /\ Uint16(d, 3) \in 0..MaxUint16
      BY <2>1, <2>5, Word
    <3>2. /\ packetBodyLen(d[2], Uint16(d, 3)) \in Nat /\ BodyOnWire(k, d[2], Uint16(d, 3)) \in Nat
          /\ packetBodyLen(d[2], Uint16(d, 3)) <= BodyOnWire(k, d[2], Uint16(d, 3))
          /\ BodyOnWire(k, d[2], Uint16(d, 3)) <= BodyOnWire(k, 3, MaxUint16)
      BY <3>1, BodyLength
    <3>3. n \in Nat /\ n <= B
      <4>1. ASSUME NEW a \in Nat, NEW b \in Nat, a <= b
            PROVE  5 + a \in Nat /\ 5 + a <= 5 + b
        BY <4>1
      <4>2. QED
        BY <1>0, <3>2, <4>1, Zenon DEF B
    <3>4. 5 + packetBodyLen(d[2], Uint16(d, 3)) <= n
      BY <3>2
    <3> HIDE DEF n
    <3>5. CASE Len(d) < n
      <4>1. r = Keep(d)
        BY <2>2, <2>5, <3>5
      <4>2. Len(d) < B
        BY <1>0, <2>1, <3>3, <3>5
      <4>3. Good
        BY <1>1, <2>1, <4>1, <4>2
      <4>4. QED
        BY <4>3 DEF r, B
    <3>6. CASE ~(Len(d) < n)
      <4>1. r = Emit(p, From(d, n + 1))
        BY <2>2, <2>5, <3>6
      <4>2. 5 + packetBodyLen(d[2], Uint16(d, 3)) <= Len(d) /\ Len(d) >= 5
        BY <2>1, <2>5, <3>2, <3>3, <3>4, <3>6
      <4>3. p \in Seq(Bytes) /\ Whole(p)
        BY <2>1, <2>5, <4>2, CutIsWhole
      <4>4. n + 1 \in Nat \ {0} /\ n + 1 <= Len(d) + 1
        BY <2>1, <3>3, <3>6
      <4>5. From(d, n + 1) \in Seq(Bytes) /\ Len(From(d, n + 1)) = Len(d) - (n + 1) + 1
        BY <2>1, <4>4, Rest
      <4>6. n > 0
        BY <3>2 DEF n
      <4>7. Len(From(d, n + 1)) < Len(data)
        BY <1>0, <2>1, <3>3, <4>5, <4>6
      <4> HIDE DEF p
      <4>8. Good
        BY <1>3, <4>1, <4>3, <4>5, <4>7
      <4>9. QED
        BY <4>8 DEF r, B
    <3>7. QED
      BY <3>5, <3>6
  <2>6. QED
    BY <2>3, <2>4, <2>5
<1>6. QED
  BY <1>4, <1>5

\* The prefix an assembler looks for, and the bound of its buffer.
PrefixOf(k) == IF k \in {"enc", "simple"} THEN encPrefix ELSE packetPrefix
Bound(k) == IF k \in {"enc", "simple"} THEN 6 + MaxEncLen ELSE 5 + BodyOnWire(k, 3, MaxUint16)

\* Every assembler.
LEMMA IterationSound ==
    ASSUME NEW k \in Kinds, NEW data \in Seq(Bytes)
    PROVE  /\ Sound(Reassemble(k, data), data, PrefixOf(k), Bound(k))
           /\ k \in {"passthrough", "rawHeader"} =>
                \A i \in 1..Len(Reassemble(k, data).out) : Whole(Reassemble(k, data).out[i])
<1>1. CASE k \in {"enc", "simple"}
  <2>1. Reassemble(k, data) = EncReassemble(data)
    BY <1>1 DEF Reassemble, SimpleParse
  <2>2. Bound(k) = 6 + MaxEncLen /\ PrefixOf(k) = encPrefix
    BY <1>1 DEF Bound, PrefixOf
  <2>3. QED
    BY <1>1, <2>1, <2>2, EncSound
<1>2. CASE k \in {"passthrough", "rawHeader"}
  <2>1. Reassemble(k, data) = HeaderReassemble(k, data)
    BY <1>2 DEF Reassemble
  <2>2. Bound(k) = 5 + BodyOnWire(k, 3, MaxUint16) /\ PrefixOf(k) = packetPrefix
    BY <1>2 DEF Bound, PrefixOf
  <2>3. QED
    BY <2>1, <2>2, HeaderSound
<1>3. QED
  BY <1>1, <1>2 DEF Kinds

----------------------------------------------------------------------------

\* The inductive invariant.
IInv == TypeOK /\ FramesParse /\ BufferBounded

\* The assembler starts within it.
LEMMA InitIInv == Init => IInv
<1> SUFFICES ASSUME Init PROVE IInv
  OBVIOUS
<1>1. <<>> \in Seq(Bytes) /\ <<>> \in Seq(Seq(Bytes)) /\ Len(<<>>) = 0
  OBVIOUS
<1>2. busy \in BOOLEAN
  BY Zenon DEF Init
<1>3. TypeOK
  <2>1. kind \in Kinds /\ wire \in Seq(Bytes)
    BY FormatAssumption DEF Init
  <2>2. QED
    BY <1>1, <1>2, <2>1 DEF Init, TypeOK
<1>4. FramesParse /\ BufferBounded
  BY <1>1 DEF Init, FramesParse, BufferBounded
<1>5. QED
  BY <1>3, <1>4 DEF IInv

\* A notification takes its bytes from the stream.
LEMMA FeedTypes ==
    ASSUME wire \in Seq(Bytes), NEW n \in 1..MaxChunk, Feed(n)
    PROVE  SubSeq(wire, 1, n) \in Seq(Bytes) /\ wire' \in Seq(Bytes)
<1>1. n \in Nat \ {0} /\ n <= Len(wire) /\ wire' = From(wire, n + 1) /\ Len(wire) \in Nat
  BY FormatAssumption DEF Feed
<1>2. n + 1 \in Nat \ {0} /\ n + 1 <= Len(wire) + 1 /\ 1 <= n + 1
  BY <1>1
<1>3. QED
  BY <1>1, <1>2, Part, Rest

\* Notifications and iterations keep it.
LEMMA StepIInv == IInv /\ [Next]_vars => IInv'
<1> SUFFICES ASSUME IInv, [Next]_vars PROVE IInv'
  OBVIOUS
<1>1. /\ kind \in Kinds /\ wire \in Seq(Bytes)
      /\ fed \in Seq(Bytes) /\ buffer \in Seq(Bytes) /\ out \in Seq(Seq(Bytes))
  BY DEF IInv, TypeOK
<1>2. ASSUME NEW n \in 1..MaxChunk, Feed(n) PROVE IInv'
  <2> DEFINE chunk == SubSeq(wire, 1, n)
  <2>1. chunk \in Seq(Bytes) /\ wire' \in Seq(Bytes)
    BY <1>1, <1>2, FeedTypes
  <2>2. busy' = TRUE /\ kind' = kind /\ out' = out /\ fed' = fed \o chunk /\ buffer' = buffer \o chunk
    BY <1>2 DEF Feed
  <2> HIDE DEF chunk
  <2>3. fed' \in Seq(Bytes) /\ buffer' \in Seq(Bytes)
    BY <1>1, <2>1, <2>2
  <2>4. TypeOK'
    BY <1>1, <2>1, <2>2, <2>3 DEF TypeOK
  <2>5. FramesParse' /\ BufferBounded'
    BY <2>2 DEF IInv, FramesParse, BufferBounded
  <2>6. QED
    BY <2>4, <2>5 DEF IInv
<1>3. CASE Iterate
  <2> DEFINE r == Reassemble(kind, buffer)
  <2>1. /\ out' = out \o r.out /\ buffer' = r.rest /\ busy' = r.more
        /\ kind' = kind /\ fed' = fed /\ wire' = wire
    BY <1>3 DEF Iterate
  <2>2. /\ Sound(r, buffer, PrefixOf(kind), Bound(kind))
        /\ kind \in {"passthrough", "rawHeader"} => \A i \in 1..Len(r.out) : Whole(r.out[i])
    BY <1>1, IterationSound
  <2> HIDE DEF r
  <2>3. /\ r.rest \in Seq(Bytes) /\ r.out \in Seq(Seq(Bytes)) /\ r.more \in BOOLEAN
        /\ ~r.more /\ r.rest # <<>> => r.rest[1] = PrefixOf(kind) /\ Len(r.rest) < Bound(kind)
    BY <2>2 DEF Sound
  <2>4. TypeOK'
    <3>1. out' \in Seq(Seq(Bytes))
      BY <1>1, <2>1, <2>3
    <3>2. QED
      BY <2>1, <2>3, <3>1 DEF IInv, TypeOK
  <2>5. BufferBounded'
    BY <2>1, <2>3 DEF BufferBounded, Bound, PrefixOf
  <2>6. FramesParse'
    <3> SUFFICES ASSUME kind \in {"passthrough", "rawHeader"}, NEW i \in 1..Len(out')
                 PROVE  Whole(out'[i])
      BY <2>1 DEF FramesParse, Whole
    <3>1. Len(out) \in Nat /\ Len(r.out) \in Nat /\ Len(out') = Len(out) + Len(r.out)
      BY <1>1, <2>1, <2>3
    <3>2. CASE i <= Len(out)
      <4>1. out'[i] = out[i] /\ i \in 1..Len(out)
        BY <1>1, <2>1, <2>3, <3>1, <3>2
      <4>2. Whole(out[i])
        BY <4>1 DEF IInv, FramesParse, Whole
      <4>3. QED
        BY <4>1, <4>2
    <3>3. CASE ~(i <= Len(out))
      <4>1. out'[i] = r.out[i - Len(out)] /\ i - Len(out) \in 1..Len(r.out)
        BY <1>1, <2>1, <2>3, <3>1, <3>3
      <4>2. QED
        BY <2>2, <4>1
    <3>4. QED
      BY <3>2, <3>3
  <2>7. QED
    BY <2>4, <2>5, <2>6 DEF IInv
<1>4. CASE UNCHANGED vars
  BY <1>4 DEF vars, IInv, TypeOK, FramesParse, BufferBounded
<1>5. QED
  BY <1>2, <1>3, <1>4 DEF Next

\* The invariant holds in every reachable state.
THEOREM Invariance == Spec => []IInv
<1>1. QED
  BY InitIInv, StepIInv, PTL DEF Spec

\* Whatever a device sends, what an assembler of packets cuts out has exactly
\* the length that ParsePacket expects, for each of the 256 versions.
THEOREM ParseSafe == Spec => []FramesParse
<1>1. IInv => FramesParse
  BY DEF IInv
<1>2. QED
  BY Invariance, <1>1, PTL

\* Whatever a device sends, no assembler keeps more than an unfinished frame.
THEOREM BoundSafe == Spec => []BufferBounded
<1>1. IInv => BufferBounded
  BY DEF IInv
<1>2. QED
  BY Invariance, <1>1, PTL

\* An iteration that goes on has consumed a byte at least: no data can keep an
\* assembler's loop, and with it the session, from coming to an end.
IterationConsumes == [][busy /\ busy' => Len(buffer') < Len(buffer)]_vars

\* The loops of the assemblers end on every input.
THEOREM LoopEnds == Spec => IterationConsumes
<1>1. ASSUME IInv, [Next]_vars, busy, busy', ~(UNCHANGED vars)
      PROVE  Len(buffer') < Len(buffer)
  <2>1. Iterate
    BY <1>1 DEF Next, Feed
  <2> DEFINE r == Reassemble(kind, buffer)
  <2>2. buffer' = r.rest /\ busy' = r.more
    BY <2>1 DEF Iterate
  <2>3. Sound(r, buffer, PrefixOf(kind), Bound(kind))
    BY <1>1, IterationSound DEF IInv, TypeOK
  <2> HIDE DEF r
  <2>4. QED
    BY <1>1, <2>2, <2>3 DEF Sound
<1>2. IInv /\ [Next]_vars =>
        [busy /\ busy' => Len(buffer') < Len(buffer)]_vars
  BY <1>1
<1>3. QED
  BY Invariance, <1>2, PTL DEF Spec, IterationConsumes
=============================================================================
