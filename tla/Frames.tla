------------------------------- MODULE Frames -------------------------------
(***************************************************************************)
(* The frame assemblers of internal/ecoflow/frame.go: notifications cut a  *)
(* byte stream at arbitrary places, and each assembler keeps in its buffer *)
(* what may be the beginning of a frame.  One step is one iteration of an  *)
(* assembler's loop.                                                       *)
(*                                                                         *)
(* Bytes, offsets and lengths are the ones of the wire.  The checksums of  *)
(* crc.go are parameters: the assemblers only compare them.  Decryption is *)
(* a function of one frame's payload (key and IV are fixed), so that a     *)
(* payload stands for its plaintext.                                       *)
(***************************************************************************)
EXTENDS Naturals, Sequences, SequencesExt

CONSTANTS
    CRC8(_), CRC16(_),  \* crc8CCITT and crc16ARC
    Streams,            \* what a device may send, by the assembler it has
    MaxChunk            \* bound: bytes of a notification

MaxByte == 255
MaxUint16 == 65535
Bytes == 0..MaxByte
Kinds == {"enc", "simple", "passthrough", "rawHeader"}

ASSUME FormatAssumption ==
    /\ DOMAIN Streams = Kinds
    /\ \A k \in Kinds : \A s \in Streams[k] : s \in Seq(Bytes)
    /\ MaxChunk \in Nat

VARIABLES
    kind,    \* the assembler
    wire,    \* what the device has yet to send
    fed,     \* history: the stream so far
    buffer,  \* the assembler's buffer; during a call, its local data
    out,     \* the payloads it has produced
    busy     \* a call is going on

vars == <<kind, wire, fed, buffer, out, busy>>

From(s, i) == SubSeq(s, i, Len(s))

\* binary.LittleEndian.Uint16 of the two bytes at i.
Uint16(s, i) == s[i] + 256 * s[i + 1]

\* The ends of an iteration: break with something to keep for the next call,
\* continue with less data, or continue after a frame.
Keep(rest)    == [out |-> <<>>, rest |-> rest, more |-> FALSE]
Skip(rest)    == [out |-> <<>>, rest |-> rest, more |-> TRUE]
Emit(p, rest) == [out |-> <<p>>, rest |-> rest, more |-> TRUE]

\* The first of a set of indices, 0 if there is none.
First(is) == IF is = {} THEN 0 ELSE CHOOSE i \in is : \A j \in is : i <= j

encPrefix == 90      \* 0x5A, twice
packetPrefix == 170  \* 0xAA

\* bytes.Index(data, {5A, 5A}) and bytes.IndexByte(data, AA), counted from 1.
PairIndex(s) ==
    First({i \in 1..(Len(s) - 1) : s[i] = encPrefix /\ s[i + 1] = encPrefix})
PrefixIndex(s) == First({i \in 1..Len(s) : s[i] = packetPrefix})

MaxEncLen == 10000   \* the largest length an assembler accepts

----------------------------------------------------------------------------
(* Encrypted frames: 5A 5A, type, 01, length of payload and CRC16, payload, *)
(* CRC16.                                                                  *)

\* Mutant of HalfPrefix: a split prefix is not kept.
HalfPrefixForgotten(s) == <<>>

\* The tail that may be the first half of a prefix.
HalfPrefix(s) == IF s # <<>> /\ Last(s) = encPrefix THEN <<encPrefix>> ELSE <<>>

\* EncPacketAssembler.Reassemble, one iteration.  (Empty data, which ends the
\* loop, has no prefix and leaves nothing to keep.)
EncReassemble(data) ==
    LET d == From(data, PairIndex(data))
        payloadLen == Uint16(d, 5)
        frameLen == 6 + payloadLen
    IN IF PairIndex(data) = 0 THEN Keep(HalfPrefix(data))
       ELSE IF Len(d) < 8 THEN Keep(d)
       ELSE IF payloadLen < 2 \/ payloadLen > MaxEncLen THEN Skip(From(d, 3))
       ELSE IF Len(d) < frameLen THEN Keep(d)
       ELSE IF CRC16(SubSeq(d, 1, frameLen - 2)) # Uint16(d, frameLen - 1)
            THEN Skip(From(d, 3))
       ELSE Emit(SubSeq(d, 7, frameLen - 2), From(d, frameLen + 1))

\* Mutant of SimpleParse: what follows the first reply is thrown away.
SimpleParseOne(data) ==
    LET r == EncReassemble(data)
    IN  IF r.out = <<>> THEN r ELSE [r EXCEPT !.rest = <<>>]

\* SimplePacketAssembler.Parse has the same iteration.  It returns after a
\* reply and keeps the rest in its buffer, and waitForSimplePayload calls it
\* again until it returns nothing, which goes on where the last call stopped.
SimpleParse(data) == EncReassemble(data)

----------------------------------------------------------------------------
(* Packets: AA, version, length of the payload, CRC8 of these, fields of    *)
(* which there are more in later versions, payload, CRC16.                 *)

\* version & 0x0F >= 0x03: the header has the two bytes DSrc and DDst.
LongLayout(version) == version % 16 >= 3

\* version & 0x10 # 0: the payload ends with a sentinel, there is no CRC16.
Sentinel(version) == (version \div 16) % 2 = 1

\* Mutant of packetBodyLen: the whole version decides on the layout.
packetBodyLenWholeVersion(version, payloadLen) ==
    IF version = 4 THEN 5 + payloadLen
    ELSE (IF version >= 3 THEN 15 ELSE 13) - (IF Sentinel(version) THEN 2 ELSE 0)
         + payloadLen

\* packetBodyLen: the bytes behind the header.
packetBodyLen(version, payloadLen) ==
    IF version = 4 THEN 5 + payloadLen
    ELSE (IF LongLayout(version) THEN 15 ELSE 13) - (IF Sentinel(version) THEN 2 ELSE 0)
         + payloadLen

\* Bytes the body takes in the stream: RawHeader's is padded to AES blocks.
BodyOnWire(k, version, payloadLen) ==
    LET innerLen == packetBodyLen(version, payloadLen)
    IN  IF k = "rawHeader" THEN ((innerLen + 15) \div 16) * 16 ELSE innerLen

\* Mutant of HeaderReassemble: noise before the first prefix stays buffered.
HeaderReassembleKeepsNoise(k, data) ==
    LET d == From(data, PrefixIndex(data))
        frameLen == 5 + BodyOnWire(k, d[2], Uint16(d, 3))
    IN IF PrefixIndex(data) = 0 THEN Keep(data)
       ELSE IF Len(d) < 5 THEN Keep(d)
       ELSE IF CRC8(SubSeq(d, 1, 4)) # d[5] THEN Skip(From(d, 2))
       ELSE IF Len(d) < frameLen THEN Keep(d)
       ELSE Emit(SubSeq(d, 1, 5 + packetBodyLen(d[2], Uint16(d, 3))),
                 From(d, frameLen + 1))

\* PassthroughAssembler.Reassemble and RawHeaderAssembler.Reassemble, one
\* iteration.
HeaderReassemble(k, data) ==
    LET d == From(data, PrefixIndex(data))
        frameLen == 5 + BodyOnWire(k, d[2], Uint16(d, 3))
    IN IF PrefixIndex(data) = 0 THEN Keep(<<>>)
       ELSE IF Len(d) < 5 THEN Keep(d)
       ELSE IF CRC8(SubSeq(d, 1, 4)) # d[5] THEN Skip(From(d, 2))
       ELSE IF Len(d) < frameLen THEN Keep(d)
       ELSE Emit(SubSeq(d, 1, 5 + packetBodyLen(d[2], Uint16(d, 3))),
                 From(d, frameLen + 1))

\* totalLen of ParsePacket: where the payload starts, its length, and a CRC16
\* unless the format is the sentinel's.
TotalLength(s) ==
    LET payloadStart == IF LongLayout(s[2]) THEN 18 ELSE 16
    IN  IF Sentinel(s[2]) THEN payloadStart + Uint16(s, 3)
        ELSE payloadStart + Uint16(s, 3) + 2

\* What ParsePacket says of a payload.
ParsePacket(s) ==
    LET totalLen == TotalLength(s)
    IN IF Len(s) < 5 \/ s[1] # packetPrefix THEN "prefix"
       ELSE IF s[2] = 4 THEN "unsupported"
       ELSE IF CRC8(SubSeq(s, 1, 4)) # s[5] THEN "header"
       ELSE IF Len(s) < totalLen THEN "incomplete"
       ELSE IF ~Sentinel(s[2]) /\ CRC16(SubSeq(s, 1, totalLen - 2)) # Uint16(s, totalLen - 1)
            THEN "crc"
       ELSE "ok"

----------------------------------------------------------------------------

Reassemble(k, data) ==
    CASE k = "enc" -> EncReassemble(data)
      [] k = "simple" -> SimpleParse(data)
      [] k \in {"passthrough", "rawHeader"} -> HeaderReassemble(k, data)

Init ==
    /\ kind \in Kinds
    /\ wire \in Streams[kind]
    /\ fed = <<>> /\ buffer = <<>> /\ out = <<>>
    /\ busy = FALSE

\* A notification with the next n bytes arrives: the call begins with the
\* buffer and the new data.
Feed(n) ==
    /\ ~busy
    /\ n <= Len(wire)
    /\ LET chunk == SubSeq(wire, 1, n)
       IN  fed' = fed \o chunk /\ buffer' = buffer \o chunk
    /\ wire' = From(wire, n + 1)
    /\ busy' = TRUE
    /\ UNCHANGED <<kind, out>>

\* An iteration of the loop; the call returns after the last one.
Iterate ==
    /\ busy
    /\ LET r == Reassemble(kind, buffer)
       IN  out' = out \o r.out /\ buffer' = r.rest /\ busy' = r.more
    /\ UNCHANGED <<kind, wire, fed>>

Next == (\E n \in 1..MaxChunk : Feed(n)) \/ Iterate

Spec == Init /\ [][Next]_vars

----------------------------------------------------------------------------
(* Properties.                                                             *)

\* Types of the buffer and of what has been produced.
TypeOK ==
    /\ kind \in Kinds
    /\ wire \in Seq(Bytes) /\ fed \in Seq(Bytes)
    /\ buffer \in Seq(Bytes)
    /\ out \in Seq(Seq(Bytes))
    /\ busy \in BOOLEAN

\* All iterations of a call on s: the payloads so far, what is left of s and
\* whether the loop goes on, after each number of them.
Iterations(k, s) ==
    LET f[n \in Nat] ==
          IF n = 0 THEN [out |-> <<>>, rest |-> s, more |-> TRUE]
          ELSE LET q == f[n - 1]
                   r == Reassemble(k, q.rest)
               IN  IF q.more
                   THEN [out |-> q.out \o r.out, rest |-> r.rest, more |-> r.more]
                   ELSE q
    IN  f

\* The call on s: an iteration that goes on consumes a byte at least.
ReassembleAll(k, s) == Iterations(k, s)[Len(s) + 1]

\* Fragmentation does not matter: whatever the notifications were, payloads
\* and buffer are those of the stream in one piece.
SplitInvariant ==
    ~busy => ReassembleAll(kind, fed) = [out |-> out, rest |-> buffer, more |-> FALSE]

\* The length of the well-formed frame s begins with, 0 if there is none, as
\* the formats define it.
FrameLength(k, s) ==
    IF k \in {"enc", "simple"}
    THEN LET n == 6 + Uint16(s, 5)
         IN  IF /\ Len(s) >= 8 /\ s[1] = encPrefix /\ s[2] = encPrefix
                /\ n >= 8 /\ n <= 6 + MaxEncLen /\ n <= Len(s)
                /\ CRC16(SubSeq(s, 1, n - 2)) = Uint16(s, n - 1)
             THEN n ELSE 0
    ELSE LET n == 5 + BodyOnWire(k, s[2], Uint16(s, 3))
         IN  IF /\ Len(s) >= 5 /\ s[1] = packetPrefix
                /\ CRC8(SubSeq(s, 1, 4)) = s[5] /\ n <= Len(s)
             THEN n ELSE 0

\* What remains of s behind each number of frames; s, if there is none.
AfterFrames(k, s) ==
    LET f[n \in 0..Len(s)] ==
          IF n = 0 THEN s
          ELSE LET t == f[n - 1] IN From(t, FrameLength(k, t) + 1)
    IN  f

\* A stream of frames without noise is decoded completely: one payload per
\* frame and nothing left in the buffer, whatever bytes the frames hold.
CleanStreamComplete ==
    LET after == AfterFrames(kind, fed)
    IN  ~busy /\ after[Len(fed)] = <<>> =>
            /\ buffer = <<>>
            /\ \A n \in 0..Len(fed) : after[n] = <<>> <=> Len(out) <= n

\* Assembler and parser agree on where a packet ends: what an assembler of
\* packets produces is never incomplete to ParsePacket and has no byte too
\* many, whatever the version; only its CRC or an unsupported version can
\* still be wrong.
FramesParse ==
    kind \in {"passthrough", "rawHeader"} =>
        \A i \in 1..Len(out) :
            \/ ParsePacket(out[i]) = "unsupported"
            \/ ParsePacket(out[i]) \in {"ok", "crc"} /\ Len(out[i]) = TotalLength(out[i])

\* The buffer does not collect what can no longer become a frame: between two
\* notifications it begins with a prefix and is shorter than the longest
\* frame (of an encrypted one, 10006 bytes; of a packet, the long layout and
\* 65535 bytes of payload).
BufferBounded ==
    ~busy /\ buffer # <<>> =>
        IF kind \in {"enc", "simple"}
        THEN buffer[1] = encPrefix /\ Len(buffer) < 6 + MaxEncLen
        ELSE buffer[1] = packetPrefix /\ Len(buffer) < 5 + BodyOnWire(kind, 3, MaxUint16)
=============================================================================
