------------------------------ MODULE MCFrames ------------------------------
(* TLC instance of Frames: streams put together from frames of every      *)
(* format, damaged ones, beginnings of frames and noise.                  *)
EXTENDS Frames

\* Checksums that are weak on purpose, so that noise that looks like a frame,
\* and a frame inside another, do occur.
Total(s) == FoldSeq(LAMBDA x, y : x + y, 0, s)
MCCRC8(s)  == Total(s) % 3
MCCRC16(s) == Total(s) % 5

Crc16(s) == s \o <<MCCRC16(s), 0>>

\* An encrypted frame with the payload p, whose length field says n.
EncFrame(p, n) == Crc16(<<90, 90, 0, 1, n % 256, n \div 256>> \o p)
Good(p) == EncFrame(p, Len(p) + 2)

EncPieces ==
    { Good(<<>>), Good(<<90>>), Good(<<90, 90, 0, 1, 3>>), Good(Good(<<>>)),
      EncFrame(<<>>, 0), EncFrame(<<>>, 10001), EncFrame(Good(<<>>), 12),
      <<90>>, <<7>>, SubSeq(Good(<<>>), 1, 6) }

Header(v, n) == LET h == <<170, v, n, 0>> IN h \o <<MCCRC8(h)>>
Fields(n) == [i \in 1..n |-> IF i = 3 THEN 170 ELSE i]

\* A packet of version v with the payload p.
MCPacket(v, p) ==
    LET start == Header(v, Len(p)) \o Fields(IF v % 16 >= 3 THEN 13 ELSE 11) \o p
    IN  IF v = 4 THEN Header(v, Len(p)) \o Fields(5) \o p
        ELSE IF v > 16 THEN start ELSE Crc16(start)

Versions == {2, 3, 4, 18, 19}

\* The same, padded to blocks.
Padded(s) == s \o [i \in 1..((5 - Len(s)) % 16) |-> 0]

Scraps == {<<170>>, <<7>>, <<170, 2, 1, 0>>, Header(2, 0), <<170, 2, 1, 0, 9>>}
Packets == { MCPacket(v, p) : v \in Versions, p \in {<<>>, <<170, 170>>} } \cup Scraps

Streams3(pieces) == { a \o b \o c : a \in pieces, b \in pieces, c \in pieces }
Streams2(pieces) == { a \o b : a \in pieces, b \in pieces }

\* Every continuation of a prefix with bytes that the formats give a meaning.
EncNoise    == { <<90, 90>> \o s : s \in [1..7 -> {0, 2, 90}] }
PacketNoise == { <<170, v>> \o s : v \in {4, 170}, s \in [1..9 -> {0, 170}] }

MCStreams ==
    [k \in Kinds |->
        CASE k \in {"enc", "simple"} -> Streams3(EncPieces) \cup EncNoise
          [] k = "passthrough" -> Streams2(Packets) \cup PacketNoise
          [] k = "rawHeader" -> Streams2({Padded(p) : p \in Packets \ Scraps} \cup Scraps)]
=============================================================================
