------------------------- MODULE FramesSplitProofs -------------------------
(***************************************************************************)
(* Proofs about Frames: it does not matter to the assemblers where the     *)
(* notifications cut the stream, and a stream of frames is decoded         *)
(* completely.  For streams of any length and every byte.                  *)
(***************************************************************************)
EXTENDS FramesProofs

----------------------------------------------------------------------------
(* Data to which more of the stream is appended.                           *)

\* The bytes of a concatenation.
LEMMA Cat ==
    ASSUME NEW s \in Seq(Bytes), NEW c \in Seq(Bytes)
    PROVE  /\ s \o c \in Seq(Bytes)
           /\ Len(s \o c) = Len(s) + Len(c) /\ Len(s) \in Nat /\ Len(c) \in Nat
           /\ \A i \in 1..Len(s) : (s \o c)[i] = s[i]
           /\ \A i \in 1..Len(c) : (s \o c)[Len(s) + i] = c[i]
<1>1. /\ s \o c \in Seq(Bytes)
      /\ Len(s \o c) = Len(s) + Len(c) /\ Len(s) \in Nat /\ Len(c) \in Nat
      /\ \A i \in 1..(Len(s) + Len(c)) :
           (s \o c)[i] = IF i <= Len(s) THEN s[i] ELSE c[i - Len(s)]
  BY ConcatProperties
<1>2. ASSUME NEW i \in 1..Len(s) PROVE (s \o c)[i] = s[i]
  BY <1>1
<1>3. ASSUME NEW i \in 1..Len(c) PROVE (s \o c)[Len(s) + i] = c[i]
  <2>1. Len(s) + i \in 1..(Len(s) + Len(c)) /\ ~(Len(s) + i <= Len(s)) /\ Len(s) + i - Len(s) = i
    BY <1>1
  <2>2. QED
    BY <1>1, <2>1
<1>4. QED
  BY <1>1, <1>2, <1>3

\* What was there before is still there.
LEMMA CatPart ==
    ASSUME NEW s \in Seq(Bytes), NEW c \in Seq(Bytes),
           NEW m \in Nat \ {0}, NEW n \in Nat, n <= Len(s), m <= n + 1
    PROVE  SubSeq(s \o c, m, n) = SubSeq(s, m, n)
<1> DEFINE x == SubSeq(s \o c, m, n)
           y == SubSeq(s, m, n)
<1>1. /\ s \o c \in Seq(Bytes) /\ Len(s) \in Nat /\ n <= Len(s \o c)
      /\ \A i \in 1..Len(s) : (s \o c)[i] = s[i]
  BY Cat
<1>2. /\ x \in Seq(Bytes) /\ Len(x) = n - m + 1
      /\ \A i \in 1..(n - m + 1) : x[i] = (s \o c)[m + i - 1]
  BY <1>1, Part
<1>3. /\ y \in Seq(Bytes) /\ Len(y) = n - m + 1
      /\ \A i \in 1..(n - m + 1) : y[i] = s[m + i - 1]
  BY Part
<1> HIDE DEF x, y
<1>4. ASSUME NEW i \in 1..(n - m + 1) PROVE x[i] = y[i]
  <2>1. m + i - 1 \in 1..Len(s)
    BY <1>1
  <2>2. QED
    BY <1>1, <1>2, <1>3, <2>1
<1>5. x = y
  BY <1>2, <1>3, <1>4, SeqEqual
<1>6. QED
  BY <1>5 DEF x, y

\* What is appended is appended to every remainder.
LEMMA CatFrom ==
    ASSUME NEW s \in Seq(Bytes), NEW c \in Seq(Bytes),
           NEW m \in Nat \ {0}, m <= Len(s) + 1
    PROVE  From(s \o c, m) = From(s, m) \o c
<1> DEFINE x == From(s \o c, m)
           f == From(s, m)
           y == f \o c
<1>1. /\ s \o c \in Seq(Bytes) /\ Len(s) \in Nat /\ Len(c) \in Nat
      /\ Len(s \o c) = Len(s) + Len(c)
      /\ \A i \in 1..Len(s) : (s \o c)[i] = s[i]
      /\ \A i \in 1..Len(c) : (s \o c)[Len(s) + i] = c[i]
  BY Cat
<1>2. m <= Len(s \o c) + 1
  BY <1>1
<1>3. /\ x \in Seq(Bytes) /\ Len(x) = Len(s) + Len(c) - m + 1
      /\ \A i \in 1..(Len(s) + Len(c) - m + 1) : x[i] = (s \o c)[m + i - 1]
  <2>1. /\ x \in Seq(Bytes) /\ Len(x) = Len(s \o c) - m + 1
        /\ \A i \in 1..(Len(s \o c) - m + 1) : x[i] = (s \o c)[m + i - 1]
    BY <1>1, <1>2, Rest
  <2>2. Len(s \o c) = Len(s) + Len(c)
    BY <1>1
  <2>3. QED
    BY <2>1, <2>2
<1>4. /\ f \in Seq(Bytes) /\ Len(f) = Len(s) - m + 1
      /\ \A i \in 1..(Len(s) - m + 1) : f[i] = s[m + i - 1]
  BY Rest
<1> HIDE DEF x, f
<1>5. /\ y \in Seq(Bytes) /\ Len(y) = Len(f) + Len(c)
      /\ \A i \in 1..Len(f) : y[i] = f[i]
      /\ \A i \in 1..Len(c) : y[Len(f) + i] = c[i]
  BY <1>4, Cat
<1> HIDE DEF y
<1>6. Len(x) = Len(y)
  BY <1>1, <1>3, <1>4, <1>5
<1>7. ASSUME NEW i \in 1..Len(x) PROVE x[i] = y[i]
  <2>1. CASE i <= Len(f)
    <3>1. i \in 1..Len(f) /\ i \in 1..(Len(s) - m + 1) /\ m + i - 1 \in 1..Len(s)
          /\ i \in 1..(Len(s) + Len(c) - m + 1)
      BY <1>1, <1>3, <1>4, <2>1
    <3>2. QED
      BY <1>1, <1>3, <1>4, <1>5, <3>1
  <2>2. CASE ~(i <= Len(f))
    <3> DEFINE j == i - Len(f)
    <3>1. j \in 1..Len(c) /\ i = Len(f) + j /\ m + i - 1 = Len(s) + j
          /\ i \in 1..(Len(s) + Len(c) - m + 1)
      <4>1. ASSUME NEW a \in Nat, NEW b \in Nat, NEW u \in 1..(a + b - m + 1),
                   ~(u <= a - m + 1), m <= a + 1
            PROVE  /\ u - (a - m + 1) \in 1..b /\ u = a - m + 1 + (u - (a - m + 1))
                   /\ m + u - 1 = a + (u - (a - m + 1))
        BY <4>1
      <4>2. QED
        BY <1>1, <1>3, <1>4, <2>2, <4>1
    <3> HIDE DEF j
    <3>2. y[i] = c[j]
      BY <1>5, <3>1
    <3>3. x[i] = c[j]
      BY <1>1, <1>3, <3>1
    <3>4. QED
      BY <3>2, <3>3
  <2>3. QED
    BY <2>1, <2>2
<1>8. x = y
  BY <1>3, <1>5, <1>6, <1>7, SeqEqual
<1>9. QED
  BY <1>8 DEF x, y, f

\* First is determined by what it finds.
LEMMA FirstIs ==
    ASSUME NEW is \in SUBSET Nat, NEW x \in is, \A y \in is : x <= y
    PROVE  First(is) = x
<1>1. First(is) \in is /\ First(is) <= x
  BY FirstFinds
<1>2. First(is) \in Nat /\ x \in Nat /\ x <= First(is)
  BY <1>1
<1>3. QED
  BY <1>1, <1>2

\* Indices counted from a later place.
LEMMA FirstShift ==
    ASSUME NEW is \in SUBSET (Nat \ {0}), NEW js \in SUBSET (Nat \ {0}), NEW m \in Nat,
           \A i \in Nat \ {0} : i \in is <=> m + i \in js,
           \A j \in js : j > m
    PROVE  /\ First(is) = 0 <=> First(js) = 0
           /\ First(js) # 0 => First(is) \in is /\ First(js) \in js /\ First(js) = m + First(is)
<1>1. CASE is = {}
  <2>1. ASSUME NEW j \in js PROVE FALSE
    <3>1. j - m \in Nat \ {0} /\ m + (j - m) = j
      OBVIOUS
    <3>2. QED
      BY <1>1, <3>1
  <2>2. js = {}
    BY <2>1
  <2>3. QED
    BY <1>1, <2>2 DEF First
<1>2. CASE is # {}
  <2> DEFINE x == First(is)
  <2>1. x \in is /\ \A i \in is : x <= i
    BY <1>2, FirstFinds
  <2> HIDE DEF x
  <2>2. m + x \in js /\ x \in Nat \ {0} /\ m + x # 0
    BY <2>1
  <2>3. ASSUME NEW j \in js PROVE m + x <= j
    <3>1. j - m \in Nat \ {0} /\ m + (j - m) = j
      OBVIOUS
    <3>2. x <= j - m
      BY <2>1, <3>1
    <3>3. QED
      BY <2>2, <3>2
  <2>4. First(js) = m + x
    BY <2>2, <2>3, FirstIs
  <2>5. QED
    BY <2>1, <2>2, <2>4 DEF x
<1>3. QED
  BY <1>1, <1>2

\* Where the prefix of an encrypted frame stands.
PairPlaces(s) == {i \in 1..(Len(s) - 1) : s[i] = encPrefix /\ s[i + 1] = encPrefix}

\* Where the prefix of a packet stands.
PrefixPlaces(s) == {i \in 1..Len(s) : s[i] = packetPrefix}

\* Remainders of remainders.
LEMMA FromFrom ==
    ASSUME NEW t \in Seq(Bytes), NEW m \in Nat, NEW x \in Nat \ {0}, m + x <= Len(t) + 1
    PROVE  From(From(t, m + 1), x) = From(t, m + x)
<1> DEFINE u == From(t, m + 1)
           a == From(u, x)
           b == From(t, m + x)
<1>0. Len(t) \in Nat /\ m + 1 \in Nat \ {0} /\ m + 1 <= Len(t) + 1 /\ m + x \in Nat \ {0}
  OBVIOUS
<1>1. /\ u \in Seq(Bytes) /\ Len(u) = Len(t) - (m + 1) + 1
      /\ \A i \in 1..(Len(t) - (m + 1) + 1) : u[i] = t[(m + 1) + i - 1]
  BY <1>0, Rest
<1>2. Len(u) = Len(t) - m /\ \A i \in 1..(Len(t) - m) : u[i] = t[m + i]
  <2>1. Len(t) - (m + 1) + 1 = Len(t) - m /\ \A i \in Int : (m + 1) + i - 1 = m + i
    BY <1>0
  <2>2. QED
    BY <1>1, <2>1
<1> HIDE DEF u
<1>3. x <= Len(u) + 1
  BY <1>0, <1>2
<1>4. /\ a \in Seq(Bytes) /\ Len(a) = Len(u) - x + 1
      /\ \A i \in 1..(Len(u) - x + 1) : a[i] = u[x + i - 1]
  BY <1>1, <1>3, Rest
<1>5. /\ b \in Seq(Bytes) /\ Len(b) = Len(t) - (m + x) + 1
      /\ \A i \in 1..(Len(t) - (m + x) + 1) : b[i] = t[(m + x) + i - 1]
  BY <1>0, Rest
<1> HIDE DEF a, b
<1>6. Len(a) = Len(b)
  BY <1>0, <1>2, <1>4, <1>5
<1>7. ASSUME NEW i \in 1..Len(a) PROVE a[i] = b[i]
  <2>1. /\ i \in 1..(Len(u) - x + 1) /\ i \in 1..(Len(t) - (m + x) + 1)
        /\ x + i - 1 \in 1..(Len(t) - m) /\ m + (x + i - 1) = (m + x) + i - 1
    BY <1>0, <1>2, <1>4, <1>5, <1>6
  <2>2. a[i] = t[m + (x + i - 1)]
    BY <1>2, <1>4, <2>1
  <2>3. QED
    BY <1>5, <2>1, <2>2
<1>8. a = b
  BY <1>4, <1>5, <1>6, <1>7, SeqEqual
<1>9. QED
  BY <1>8 DEF a, b, u

\* Data in front of the first prefix can be dropped.
LEMMA PairBehind ==
    ASSUME NEW t \in Seq(Bytes), NEW m \in Nat, m <= Len(t), \A j \in PairPlaces(t) : j > m
    PROVE  LET u == From(t, m + 1)
           IN  /\ PairIndex(u) = 0 <=> PairIndex(t) = 0
               /\ PairIndex(t) # 0 => From(u, PairIndex(u)) = From(t, PairIndex(t))
<1> DEFINE u == From(t, m + 1)
<1>0. Len(t) \in Nat /\ m + 1 \in Nat \ {0} /\ m + 1 <= Len(t) + 1
  OBVIOUS
<1>1. /\ u \in Seq(Bytes) /\ Len(u) = Len(t) - (m + 1) + 1
      /\ \A i \in 1..(Len(t) - (m + 1) + 1) : u[i] = t[(m + 1) + i - 1]
  BY <1>0, Rest
<1>2. Len(u) = Len(t) - m /\ \A i \in 1..(Len(t) - m) : u[i] = t[m + i]
  <2>1. Len(t) - (m + 1) + 1 = Len(t) - m /\ \A i \in Int : (m + 1) + i - 1 = m + i
    BY <1>0
  <2>2. QED
    BY <1>1, <2>1
<1> HIDE DEF u
<1>3. ASSUME NEW i \in Nat \ {0} PROVE i \in PairPlaces(u) <=> m + i \in PairPlaces(t)
  <2>1. i \in 1..(Len(u) - 1) <=> m + i \in 1..(Len(t) - 1)
    BY <1>0, <1>2
  <2>2. CASE i \in 1..(Len(u) - 1)
    <3>1. i \in 1..(Len(t) - m) /\ i + 1 \in 1..(Len(t) - m) /\ m + (i + 1) = (m + i) + 1
      BY <1>0, <1>2, <2>2
    <3>2. u[i] = t[m + i] /\ u[i + 1] = t[(m + i) + 1]
      BY <1>2, <3>1
    <3>3. QED
      BY <2>1, <2>2, <3>2 DEF PairPlaces
  <2>3. CASE i \notin 1..(Len(u) - 1)
    BY <2>1, <2>3 DEF PairPlaces
  <2>4. QED
    BY <2>2, <2>3
<1>4. PairPlaces(u) \in SUBSET (Nat \ {0}) /\ PairPlaces(t) \in SUBSET (Nat \ {0})
  BY <1>0, <1>1 DEF PairPlaces
<1>5. PairIndex(u) = First(PairPlaces(u)) /\ PairIndex(t) = First(PairPlaces(t))
  BY DEF PairIndex, PairPlaces
<1>6. /\ First(PairPlaces(u)) = 0 <=> First(PairPlaces(t)) = 0
      /\ First(PairPlaces(t)) # 0 =>
           /\ First(PairPlaces(u)) \in PairPlaces(u)
           /\ First(PairPlaces(t)) \in PairPlaces(t)
           /\ First(PairPlaces(t)) = m + First(PairPlaces(u))
  BY <1>3, <1>4, FirstShift
<1>7. ASSUME PairIndex(t) # 0 PROVE From(u, PairIndex(u)) = From(t, PairIndex(t))
  <2> DEFINE x == PairIndex(u)
  <2>1. x \in Nat \ {0} /\ PairIndex(t) = m + x /\ m + x \in PairPlaces(t)
    BY <1>4, <1>5, <1>6, <1>7
  <2> HIDE DEF x
  <2>2. m + x <= Len(t) + 1
    BY <1>0, <2>1 DEF PairPlaces
  <2>3. From(u, x) = From(t, m + x)
    BY <2>1, <2>2, FromFrom DEF u
  <2>4. QED
    BY <2>1, <2>3 DEF x
<1>8. QED
  BY <1>5, <1>6, <1>7 DEF u

\* The same for packets.
LEMMA PrefixBehind ==
    ASSUME NEW t \in Seq(Bytes), NEW m \in Nat, m <= Len(t), \A j \in PrefixPlaces(t) : j > m
    PROVE  LET u == From(t, m + 1)
           IN  /\ PrefixIndex(u) = 0 <=> PrefixIndex(t) = 0
               /\ PrefixIndex(t) # 0 => From(u, PrefixIndex(u)) = From(t, PrefixIndex(t))
<1> DEFINE u == From(t, m + 1)
<1>0. Len(t) \in Nat /\ m + 1 \in Nat \ {0} /\ m + 1 <= Len(t) + 1
  OBVIOUS
<1>1. /\ u \in Seq(Bytes) /\ Len(u) = Len(t) - (m + 1) + 1
      /\ \A i \in 1..(Len(t) - (m + 1) + 1) : u[i] = t[(m + 1) + i - 1]
  BY <1>0, Rest
<1>2. Len(u) = Len(t) - m /\ \A i \in 1..(Len(t) - m) : u[i] = t[m + i]
  <2>1. Len(t) - (m + 1) + 1 = Len(t) - m /\ \A i \in Int : (m + 1) + i - 1 = m + i
    BY <1>0
  <2>2. QED
    BY <1>1, <2>1
<1> HIDE DEF u
<1>3. ASSUME NEW i \in Nat \ {0} PROVE i \in PrefixPlaces(u) <=> m + i \in PrefixPlaces(t)
  <2>1. i \in 1..Len(u) <=> m + i \in 1..Len(t)
    BY <1>0, <1>2
  <2>2. i \in 1..Len(u) => u[i] = t[m + i]
    BY <1>2
  <2>3. QED
    BY <2>1, <2>2 DEF PrefixPlaces
<1>4. PrefixPlaces(u) \in SUBSET (Nat \ {0}) /\ PrefixPlaces(t) \in SUBSET (Nat \ {0})
  BY <1>0, <1>1 DEF PrefixPlaces
<1>5. PrefixIndex(u) = First(PrefixPlaces(u)) /\ PrefixIndex(t) = First(PrefixPlaces(t))
  BY DEF PrefixIndex, PrefixPlaces
<1>6. /\ First(PrefixPlaces(u)) = 0 <=> First(PrefixPlaces(t)) = 0
      /\ First(PrefixPlaces(t)) # 0 =>
           /\ First(PrefixPlaces(u)) \in PrefixPlaces(u)
           /\ First(PrefixPlaces(t)) \in PrefixPlaces(t)
           /\ First(PrefixPlaces(t)) = m + First(PrefixPlaces(u))
  BY <1>3, <1>4, FirstShift
<1>7. ASSUME PrefixIndex(t) # 0 PROVE From(u, PrefixIndex(u)) = From(t, PrefixIndex(t))
  <2> DEFINE x == PrefixIndex(u)
  <2>1. x \in Nat \ {0} /\ PrefixIndex(t) = m + x /\ m + x \in PrefixPlaces(t)
    BY <1>4, <1>5, <1>6, <1>7
  <2> HIDE DEF x
  <2>2. m + x <= Len(t) + 1
    BY <1>0, <2>1 DEF PrefixPlaces
  <2>3. From(u, x) = From(t, m + x)
    BY <2>1, <2>2, FromFrom DEF u
  <2>4. QED
    BY <2>1, <2>3 DEF x
<1>8. QED
  BY <1>5, <1>6, <1>7 DEF u

----------------------------------------------------------------------------
(* An iteration and the rest of the stream.                                *)

\* The result r of an iteration, had c been behind the data already.
Extended(r, c) == [out |-> r.out, rest |-> r.rest \o c, more |-> r.more]

\* The ends of an iteration, extended.
LEMMA EndsExtended ==
    ASSUME NEW p, NEW rest, NEW c
    PROVE  /\ Extended(Skip(rest), c) = Skip(rest \o c)
           /\ Extended(Emit(p, rest), c) = Emit(p, rest \o c)
           /\ ~Keep(rest).more /\ Keep(rest).rest = rest /\ Keep(rest).out = <<>>
           /\ Skip(rest).more /\ Emit(p, rest).more
  BY DEF Extended, Skip, Emit, Keep

\* An encrypted frame is cut out, or given up, in the same way whatever
\* follows it, and otherwise waits for what follows.
LEMMA EncAtExtends ==
    ASSUME NEW d \in Seq(Bytes), NEW c \in Seq(Bytes)
    PROVE  \/ EncAt(d) = Keep(d)
           \/ EncAt(d).more /\ EncAt(d \o c) = Extended(EncAt(d), c)
<1> DEFINE e == d \o c
           n == Uint16(d, 5)
<1>0. Len(d) \in Nat /\ Len(c) \in Nat
  OBVIOUS
<1>1. /\ e \in Seq(Bytes) /\ Len(e) = Len(d) + Len(c)
      /\ \A i \in 1..Len(d) : e[i] = d[i]
  BY Cat
<1>2. CASE Len(d) < 8
  BY <1>2 DEF EncAt
<1>3. CASE ~(Len(d) < 8)
  <2>1. Uint16(e, 5) = n /\ ~(Len(e) < 8) /\ 3 <= Len(d) + 1
    <3>1. e[5] = d[5] /\ e[5 + 1] = d[5 + 1]
      BY <1>0, <1>1, <1>3
    <3>2. QED
      BY <1>0, <1>1, <1>3, <3>1 DEF Uint16
  <2>2. From(e, 3) = From(d, 3) \o c
    BY <2>1, CatFrom
  <2> HIDE DEF e
  <2>3. CASE n < 2 \/ n > MaxEncLen
    <3>1. EncAt(d) = Skip(From(d, 3))
      BY <1>3, <2>3 DEF EncAt
    <3>2. EncAt(e) = Skip(From(e, 3))
      BY <2>1, <2>3 DEF EncAt
    <3>3. QED
      <4>1. EncAt(d).more /\ Extended(EncAt(d), c) = Skip(From(d, 3) \o c)
        <5> HIDE DEF n
        <5>1. QED
          BY <3>1, EndsExtended
      <4>2. EncAt(d \o c) = Skip(From(d, 3) \o c)
        BY <2>2, <3>2 DEF e
      <4>3. QED
        BY <4>1, <4>2
  <2>4. CASE ~(n < 2 \/ n > MaxEncLen)
    <3>0. n \in Nat /\ n >= 2
      <4>1. n \in 0..MaxUint16
        BY <1>0, <1>3, Word
      <4> HIDE DEF n
      <4>2. QED
        BY <2>4, <4>1, Numbers
    <3>1. CASE Len(d) < 6 + n
      BY <1>3, <2>4, <3>1 DEF EncAt
    <3>2. CASE ~(Len(d) < 6 + n)
      <4>1. /\ 6 + n \in 1..Len(d) /\ (6 + n) - 1 \in 1..Len(d) /\ ~(Len(e) < 6 + n)
            /\ ((6 + n) - 1) + 1 = 6 + n
            /\ (6 + n) - 2 \in Nat /\ (6 + n) - 2 <= Len(d)
            /\ 7 <= ((6 + n) - 2) + 1 /\ 1 <= ((6 + n) - 2) + 1
            /\ 6 + n + 1 \in Nat \ {0} /\ 6 + n + 1 <= Len(d) + 1
        <5> HIDE DEF n
        <5>1. Len(e) = Len(d) + Len(c)
          BY <1>1
        <5>2. QED
          BY <1>0, <3>0, <3>2, <5>1
      <4>2. /\ SubSeq(e, 1, (6 + n) - 2) = SubSeq(d, 1, (6 + n) - 2)
            /\ SubSeq(e, 7, (6 + n) - 2) = SubSeq(d, 7, (6 + n) - 2)
        <5> HIDE DEF n
        <5>1. 1 \in Nat \ {0} /\ 7 \in Nat \ {0}
          OBVIOUS
        <5>2. QED
          BY <4>1, <5>1, CatPart, Zenon DEF e
      <4>3. Uint16(e, (6 + n) - 1) = Uint16(d, (6 + n) - 1)
        <5> HIDE DEF n
        <5>1. e[6 + n] = d[6 + n] /\ e[(6 + n) - 1] = d[(6 + n) - 1]
          BY <1>1, <4>1
        <5>2. QED
          BY <4>1, <5>1 DEF Uint16
      <4>4. From(e, 6 + n + 1) = From(d, 6 + n + 1) \o c
        BY <4>1, CatFrom DEF e
      <4> HIDE DEF n
      <4>5. CASE CRC16(SubSeq(d, 1, (6 + n) - 2)) # Uint16(d, (6 + n) - 1)
        <5>1. EncAt(d) = Skip(From(d, 3))
          BY <1>3, <2>4, <3>2, <4>5 DEF EncAt, n
        <5>2. EncAt(e) = Skip(From(e, 3))
          BY <2>1, <2>4, <4>1, <4>2, <4>3, <4>5 DEF EncAt
        <5>3. QED
          <6>1. EncAt(d).more /\ Extended(EncAt(d), c) = Skip(From(d, 3) \o c)
            BY <5>1, EndsExtended
          <6>2. EncAt(d \o c) = Skip(From(d, 3) \o c)
            BY <2>2, <5>2 DEF e
          <6>3. QED
            BY <6>1, <6>2
      <4>6. CASE CRC16(SubSeq(d, 1, (6 + n) - 2)) = Uint16(d, (6 + n) - 1)
        <5>1. EncAt(d) = Emit(SubSeq(d, 7, (6 + n) - 2), From(d, 6 + n + 1))
          BY <1>3, <2>4, <3>2, <4>6 DEF EncAt, n
        <5>2. EncAt(e) = Emit(SubSeq(e, 7, (6 + n) - 2), From(e, 6 + n + 1))
          BY <2>1, <2>4, <4>1, <4>2, <4>3, <4>6 DEF EncAt
        <5>3. QED
          <6>1. /\ EncAt(d).more
                /\ Extended(EncAt(d), c) = Emit(SubSeq(d, 7, (6 + n) - 2), From(d, 6 + n + 1) \o c)
            BY <5>1, EndsExtended
          <6>2. EncAt(d \o c) = Emit(SubSeq(d, 7, (6 + n) - 2), From(d, 6 + n + 1) \o c)
            BY <4>2, <4>4, <5>2 DEF e
          <6>3. QED
            BY <6>1, <6>2
      <4>7. QED
        BY <4>5, <4>6
    <3>3. QED
      BY <3>1, <3>2
  <2>5. QED
    BY <2>3, <2>4
<1>4. QED
  BY <1>2, <1>3

\* The same for packets.
LEMMA HeaderAtExtends ==
    ASSUME NEW k, NEW d \in Seq(Bytes), NEW c \in Seq(Bytes)
    PROVE  \/ HeaderAt(k, d) = Keep(d)
           \/ HeaderAt(k, d).more /\ HeaderAt(k, d \o c) = Extended(HeaderAt(k, d), c)
<1> DEFINE e == d \o c
           b == packetBodyLen(d[2], Uint16(d, 3))
           w == BodyOnWire(k, d[2], Uint16(d, 3))
<1>0. Len(d) \in Nat /\ Len(c) \in Nat
  OBVIOUS
<1>1. /\ e \in Seq(Bytes) /\ Len(e) = Len(d) + Len(c)
      /\ \A i \in 1..Len(d) : e[i] = d[i]
  BY Cat
<1>2. CASE Len(d) < 5
  BY <1>2 DEF HeaderAt
<1>3. CASE ~(Len(d) < 5)
  <2>1. /\ e[2] = d[2] /\ Uint16(e, 3) = Uint16(d, 3) /\ e[5] = d[5] /\ ~(Len(e) < 5)
        /\ 2 <= Len(d) + 1 /\ 4 <= Len(d)
    <3>1. e[3] = d[3] /\ e[3 + 1] = d[3 + 1]
      BY <1>0, <1>1, <1>3
    <3>2. QED
      BY <1>0, <1>1, <1>3, <3>1 DEF Uint16
  <2>2. SubSeq(e, 1, 4) = SubSeq(d, 1, 4)
    BY <2>1, CatPart
  <2>3. From(e, 2) = From(d, 2) \o c
    BY <2>1, CatFrom
  <2>4. d[2] \in Bytes /\ Uint16(d, 3) \in 0..MaxUint16
    BY <1>0, <1>3, Word
  <2>5. b \in Nat /\ w \in Nat /\ b <= w
    BY <2>4, BodyLength
  <2>6. b = packetBodyLen(e[2], Uint16(e, 3)) /\ w = BodyOnWire(k, e[2], Uint16(e, 3))
    BY <2>1
  <2> HIDE DEF e, b, w
  <2>7. CASE CRC8(SubSeq(d, 1, 4)) # d[5]
    <3>1. HeaderAt(k, d) = Skip(From(d, 2)) /\ HeaderAt(k, e) = Skip(From(e, 2))
      BY <1>3, <2>1, <2>2, <2>7 DEF HeaderAt
    <3>2. QED
      <4>1. HeaderAt(k, d).more /\ Extended(HeaderAt(k, d), c) = Skip(From(d, 2) \o c)
        BY <3>1, EndsExtended
      <4>2. HeaderAt(k, d \o c) = Skip(From(d, 2) \o c)
        BY <2>3, <3>1 DEF e
      <4>3. QED
        BY <4>1, <4>2
  <2>8. CASE CRC8(SubSeq(d, 1, 4)) = d[5] /\ Len(d) < 5 + w
    BY <1>3, <2>8 DEF HeaderAt, w
  <2>9. CASE CRC8(SubSeq(d, 1, 4)) = d[5] /\ ~(Len(d) < 5 + w)
    <3>1. /\ ~(Len(e) < 5 + w) /\ 5 + b \in Nat /\ 5 + b <= Len(d) /\ 1 <= (5 + b) + 1
          /\ 5 + w + 1 \in Nat \ {0} /\ 5 + w + 1 <= Len(d) + 1
      BY <1>0, <1>1, <2>5, <2>9
    <3>2. SubSeq(e, 1, 5 + b) = SubSeq(d, 1, 5 + b)
      BY <3>1, CatPart DEF e
    <3>3. From(e, 5 + w + 1) = From(d, 5 + w + 1) \o c
      BY <3>1, CatFrom DEF e
    <3>4. HeaderAt(k, d) = Emit(SubSeq(d, 1, 5 + b), From(d, 5 + w + 1))
      BY <1>3, <2>9, Zenon DEF HeaderAt, b, w
    <3>5. HeaderAt(k, e) = Emit(SubSeq(e, 1, 5 + b), From(e, 5 + w + 1))
      BY <2>1, <2>2, <2>6, <2>9, <3>1 DEF HeaderAt
    <3>6. QED
      <4>1. /\ HeaderAt(k, d).more
            /\ Extended(HeaderAt(k, d), c)
                 = Emit(SubSeq(d, 1, 5 + b), From(d, 5 + w + 1) \o c)
        BY <3>4, EndsExtended
      <4>2. HeaderAt(k, d \o c) = Emit(SubSeq(d, 1, 5 + b), From(d, 5 + w + 1) \o c)
        BY <3>2, <3>3, <3>5 DEF e
      <4>3. QED
        BY <4>1, <4>2
  <2>10. QED
    BY <2>7, <2>8, <2>9
<1>4. QED
  BY <1>2, <1>3

\* An iteration does not depend on what is dropped in front of the prefix.
LEMMA EncDrop ==
    ASSUME NEW t \in Seq(Bytes), NEW m \in Nat, m <= Len(t), \A j \in PairPlaces(t) : j > m,
           m < Len(t) \/ HalfPrefix(t) = <<>>
    PROVE  EncReassemble(From(t, m + 1)) = EncReassemble(t)
<1> DEFINE u == From(t, m + 1)
<1>0. Len(t) \in Nat /\ m + 1 \in Nat \ {0} /\ m + 1 <= Len(t) + 1
  OBVIOUS
<1>1. /\ u \in Seq(Bytes) /\ Len(u) = Len(t) - (m + 1) + 1
      /\ \A i \in 1..(Len(t) - (m + 1) + 1) : u[i] = t[(m + 1) + i - 1]
  BY <1>0, Rest
<1>2. /\ PairIndex(u) = 0 <=> PairIndex(t) = 0
      /\ PairIndex(t) # 0 => From(u, PairIndex(u)) = From(t, PairIndex(t))
  BY PairBehind
<1> HIDE DEF u
<1>3. HalfPrefix(u) = HalfPrefix(t)
  <2>1. CASE m < Len(t)
    <3>1. /\ Len(u) \in 1..(Len(t) - (m + 1) + 1) /\ (m + 1) + Len(u) - 1 = Len(t)
          /\ Len(u) # 0 /\ Len(t) # 0
      BY <1>0, <1>1, <2>1
    <3>2. u[Len(u)] = t[Len(t)]
      BY <1>1, <3>1
    <3>3. u # <<>> /\ t # <<>>
      BY <1>1, <3>1
    <3>4. QED
      BY <3>2, <3>3 DEF HalfPrefix, Last
  <2>2. CASE ~(m < Len(t))
    <3>1. Len(u) = 0
      BY <1>0, <1>1, <2>2
    <3>2. u = <<>>
      BY <1>1, <3>1
    <3>3. QED
      BY <2>2, <3>2 DEF HalfPrefix
  <2>3. QED
    BY <2>1, <2>2
<1>4. EncReassemble(u) = EncReassemble(t)
  BY <1>2, <1>3, IterationAt
<1>5. QED
  BY <1>4 DEF u

\* The same for packets.
LEMMA HeaderDrop ==
    ASSUME NEW k, NEW t \in Seq(Bytes), NEW m \in Nat, m <= Len(t), \A j \in PrefixPlaces(t) : j > m
    PROVE  HeaderReassemble(k, From(t, m + 1)) = HeaderReassemble(k, t)
<1> DEFINE u == From(t, m + 1)
<1>1. /\ PrefixIndex(u) = 0 <=> PrefixIndex(t) = 0
      /\ PrefixIndex(t) # 0 => From(u, PrefixIndex(u)) = From(t, PrefixIndex(t))
  BY PrefixBehind
<1> HIDE DEF u
<1>2. HeaderReassemble(k, u) = HeaderReassemble(k, t)
  BY <1>1, IterationAt
<1>3. QED
  BY <1>2 DEF u

\* An iteration with the result r has not seen that c has not yet arrived.
\* With c its result is whole: the same and c is left over.  Or the call ends,
\* and what it keeps leads to whole when c has arrived: next.
CutUnseen(r, next, whole, c) ==
    \/ r.more /\ whole = Extended(r, c)
    \/ ~r.more /\ r.out = <<>> /\ next = whole

\* An iteration of EncPacketAssembler and SimplePacketAssembler does not see
\* where the stream has been cut.
LEMMA EncCut ==
    ASSUME NEW s \in Seq(Bytes), NEW c \in Seq(Bytes)
    PROVE  LET r == EncReassemble(s)
           IN  CutUnseen(r, EncReassemble(r.rest \o c), EncReassemble(s \o c), c)
<1> DEFINE r == EncReassemble(s)
           t == s \o c
<1>1. /\ t \in Seq(Bytes) /\ Len(t) = Len(s) + Len(c) /\ Len(s) \in Nat /\ Len(c) \in Nat
      /\ \A i \in 1..Len(s) : t[i] = s[i]
  BY Cat
<1>2. /\ PairIndex(s) = First(PairPlaces(s)) /\ PairIndex(t) = First(PairPlaces(t))
      /\ PairPlaces(s) \in SUBSET Nat /\ PairPlaces(t) \in SUBSET Nat
      /\ PairPlaces(s) = {} => PairIndex(s) = 0
      /\ PairIndex(s) = 0 => PairPlaces(s) = {}
  <2>1. PairIndex(s) = First(PairPlaces(s)) /\ PairIndex(t) = First(PairPlaces(t))
    BY DEF PairIndex, PairPlaces
  <2>2. PairPlaces(s) \in SUBSET (Nat \ {0}) /\ PairPlaces(t) \in SUBSET (Nat \ {0})
    BY <1>1 DEF PairPlaces
  <2>3. PairPlaces(s) # {} => First(PairPlaces(s)) # 0
    BY <2>2, FirstFinds
  <2>4. PairPlaces(s) = {} => First(PairPlaces(s)) = 0
    BY DEF First
  <2>5. QED
    BY <2>1, <2>2, <2>3, <2>4
<1>3. ASSUME NEW j \in PairPlaces(t), j < Len(s) PROVE j \in PairPlaces(s)
  <2>1. j \in 1..(Len(s) - 1) /\ j \in 1..Len(s) /\ j + 1 \in 1..Len(s)
    BY <1>1, <1>3 DEF PairPlaces
  <2>2. t[j] = s[j] /\ t[j + 1] = s[j + 1]
    BY <1>1, <2>1
  <2>3. QED
    BY <1>3, <2>1, <2>2 DEF PairPlaces
<1>4. CASE PairIndex(s) = 0
  <2> DEFINE h == HalfPrefix(s)
             m == Len(s) - Len(h)
  <2>1. r = Keep(h)
    BY <1>4, IterationAt
  <2>2. PairPlaces(s) = {}
    BY <1>2, <1>4
  <2>3. /\ h \in {<<>>, <<encPrefix>>} /\ (h = <<encPrefix>> => s # <<>> /\ s[Len(s)] = encPrefix)
        /\ (h = <<>> => s = <<>> \/ s[Len(s)] # encPrefix)
    BY DEF HalfPrefix, Last
  <2> HIDE DEF h
  <2>4. m \in Nat /\ m <= Len(s) /\ From(s, m + 1) = h
    <3>1. CASE h = <<>>
      <4>1. m = Len(s)
        BY <1>1, <3>1
      <4>2. From(s, Len(s) + 1) \in Seq(Bytes) /\ Len(From(s, Len(s) + 1)) = 0
        BY <1>1, Rest
      <4>3. From(s, Len(s) + 1) = <<>>
        BY <4>2
      <4>4. QED
        BY <1>1, <3>1, <4>1, <4>3
    <3>2. CASE h = <<encPrefix>>
      <4>1. Len(s) # 0 /\ s[Len(s)] = encPrefix
        BY <1>1, <2>3, <3>2
      <4>2. m = Len(s) - 1 /\ m + 1 = Len(s) /\ m \in Nat
        BY <1>1, <3>2, <4>1
      <4> DEFINE f == From(s, Len(s))
      <4>3. /\ Len(s) \in Nat \ {0} /\ Len(s) <= Len(s) + 1
            /\ Len(s) - Len(s) + 1 = 1 /\ Len(s) + 1 - 1 = Len(s)
        BY <1>1, <4>1
      <4>4. /\ f \in Seq(Bytes) /\ Len(f) = Len(s) - Len(s) + 1
            /\ \A i \in 1..(Len(s) - Len(s) + 1) : f[i] = s[Len(s) + i - 1]
        BY <4>3, Rest
      <4> HIDE DEF f
      <4>5. Len(f) = 1 /\ f[1] = encPrefix
        BY <4>1, <4>3, <4>4
      <4>6. f = <<encPrefix>>
        BY <4>4, <4>5
      <4>7. QED
        BY <1>1, <3>2, <4>2, <4>6 DEF f
    <3>3. QED
      BY <2>3, <3>1, <3>2
  <2>5. h \in Seq(Bytes)
    <3>1. <<>> \in Seq(Bytes) /\ <<encPrefix>> \in Seq(Bytes)
      BY PrefixBytes
    <3>2. QED
      BY <2>3, <3>1, Zenon
  <2>6. From(t, m + 1) = h \o c
    <3>1. m + 1 \in Nat \ {0} /\ m + 1 <= Len(s) + 1
      BY <1>1, <2>4
    <3>2. QED
      BY <2>4, <3>1, CatFrom
  <2>7. ASSUME NEW j \in PairPlaces(t) PROVE j > m
    <3>1. j \in Nat /\ ~(j < Len(s))
      BY <1>2, <1>3, <2>2, <2>7
    <3>2. CASE h = <<encPrefix>>
      BY <1>1, <3>1, <3>2
    <3>3. CASE h = <<>>
      <4>1. j # Len(s)
        <5>1. SUFFICES ASSUME j = Len(s) PROVE FALSE
          OBVIOUS
        <5>2. Len(s) \in 1..Len(s) /\ t[Len(s)] = encPrefix
          BY <1>1, <2>7, <5>1 DEF PairPlaces
        <5>3. s[Len(s)] = encPrefix /\ s # <<>>
          BY <1>1, <5>2
        <5>4. QED
          BY <2>3, <3>3, <5>3
      <4>2. m = Len(s)
        BY <1>1, <3>3
      <4>3. QED
        BY <1>1, <3>1, <4>1, <4>2
    <3>4. QED
      BY <2>3, <3>2, <3>3
  <2>8. m < Len(t) \/ HalfPrefix(t) = <<>>
    <3>1. CASE h = <<encPrefix>>
      BY <1>1, <2>4, <3>1
    <3>2. CASE h = <<>> /\ Len(c) > 0
      BY <1>1, <3>2
    <3>3. CASE h = <<>> /\ ~(Len(c) > 0)
      <4>1. c = <<>>
        BY <1>1, <3>3
      <4>2. t = s
        BY <4>1, ConcatEmptySeq
      <4>3. QED
        BY <3>3, <4>2 DEF h
    <3>4. QED
      BY <2>3, <3>1, <3>2, <3>3
  <2>9. m <= Len(t)
    BY <1>1, <2>4
  <2> HIDE DEF m, t
  <2>10. EncReassemble(h \o c) = EncReassemble(t)
    BY <1>1, <2>4, <2>6, <2>7, <2>8, <2>9, EncDrop
  <2>11. ~r.more /\ r.out = <<>> /\ r.rest = h
    BY <2>1, EndsExtended
  <2>12. QED
    BY <2>10, <2>11 DEF CutUnseen, t
<1>5. CASE PairIndex(s) # 0
  <2> DEFINE i == PairIndex(s)
             d == From(s, i)
  <2>1. i \in PairPlaces(s) /\ \A j \in PairPlaces(s) : i <= j
    BY <1>2, <1>5, FirstFinds
  <2>2. i \in Nat \ {0} /\ i <= Len(s) - 1 /\ s[i] = encPrefix /\ s[i + 1] = encPrefix
    BY <1>1, <2>1 DEF PairPlaces
  <2> HIDE DEF i
  <2>3. i \in PairPlaces(t)
    <3>1. i \in 1..Len(s) /\ i + 1 \in 1..Len(s) /\ i \in 1..(Len(t) - 1)
      BY <1>1, <2>2
    <3>2. t[i] = encPrefix /\ t[i + 1] = encPrefix
      BY <1>1, <2>2, <3>1
    <3>3. QED
      BY <3>1, <3>2 DEF PairPlaces
  <2>4. ASSUME NEW j \in PairPlaces(t) PROVE i <= j
    <3>1. CASE j < Len(s)
      BY <1>3, <2>1, <3>1
    <3>2. CASE ~(j < Len(s))
      BY <1>1, <1>2, <2>2, <3>2
    <3>3. QED
      BY <3>1, <3>2
  <2>5. PairIndex(t) = i
    BY <1>2, <2>3, <2>4, FirstIs
  <2>6. d \in Seq(Bytes) /\ From(t, i) = d \o c
    <3>1. i \in Nat \ {0} /\ i <= Len(s) + 1
      BY <1>1, <2>2
    <3>2. d \in Seq(Bytes)
      BY <3>1, Rest
    <3>3. From(t, i) = d \o c
      BY <3>1, CatFrom
    <3>4. QED
      BY <3>2, <3>3
  <2>7. r = EncAt(d)
    BY <1>5, IterationAt DEF i
  <2>8. EncReassemble(t) = EncAt(d \o c)
    BY <2>2, <2>5, <2>6, IterationAt
  <2>9. EncReassemble(d \o c) = EncReassemble(t)
    <3> DEFINE m == i - 1
    <3>1. m \in Nat /\ m <= Len(t) /\ m < Len(t) /\ m + 1 = i
      BY <1>1, <2>2
    <3>2. \A j \in PairPlaces(t) : j > m
      BY <1>2, <2>2, <2>4
    <3> HIDE DEF m, t, d
    <3>3. EncReassemble(From(t, m + 1)) = EncReassemble(t)
      BY <1>1, <3>1, <3>2, EncDrop
    <3>4. QED
      BY <2>6, <3>1, <3>3
  <2> HIDE DEF d, t, r
  <2>10. CASE EncAt(d) = Keep(d)
    <3>1. ~r.more /\ r.out = <<>> /\ r.rest = d
      BY <2>7, <2>10, EndsExtended
    <3>2. QED
      BY <2>9, <3>1 DEF CutUnseen, t, r
  <2>11. CASE EncAt(d).more /\ EncAt(d \o c) = Extended(EncAt(d), c)
    BY <2>7, <2>8, <2>11 DEF CutUnseen, t, r
  <2>12. QED
    BY <2>6, <2>10, <2>11, EncAtExtends
<1>6. QED
  BY <1>4, <1>5
\* An iteration of PassthroughAssembler and RawHeaderAssembler does not see it.
LEMMA HeaderCut ==
    ASSUME NEW k, NEW s \in Seq(Bytes), NEW c \in Seq(Bytes)
    PROVE  LET r == HeaderReassemble(k, s)
           IN  CutUnseen(r, HeaderReassemble(k, r.rest \o c), HeaderReassemble(k, s \o c), c)
<1> DEFINE r == HeaderReassemble(k, s)
           t == s \o c
<1>1. /\ t \in Seq(Bytes) /\ Len(t) = Len(s) + Len(c) /\ Len(s) \in Nat /\ Len(c) \in Nat
      /\ \A i \in 1..Len(s) : t[i] = s[i]
  BY Cat
<1>2. /\ PrefixIndex(s) = First(PrefixPlaces(s)) /\ PrefixIndex(t) = First(PrefixPlaces(t))
      /\ PrefixPlaces(s) \in SUBSET Nat /\ PrefixPlaces(t) \in SUBSET Nat
      /\ PrefixPlaces(s) = {} => PrefixIndex(s) = 0
      /\ PrefixIndex(s) = 0 => PrefixPlaces(s) = {}
  <2>1. PrefixIndex(s) = First(PrefixPlaces(s)) /\ PrefixIndex(t) = First(PrefixPlaces(t))
    BY DEF PrefixIndex, PrefixPlaces
  <2>2. PrefixPlaces(s) \in SUBSET (Nat \ {0}) /\ PrefixPlaces(t) \in SUBSET (Nat \ {0})
    BY <1>1 DEF PrefixPlaces
  <2>3. PrefixPlaces(s) # {} => First(PrefixPlaces(s)) # 0
    BY <2>2, FirstFinds
  <2>4. PrefixPlaces(s) = {} => First(PrefixPlaces(s)) = 0
    BY DEF First
  <2>5. QED
    BY <2>1, <2>2, <2>3, <2>4
<1>3. ASSUME NEW j \in PrefixPlaces(t), j <= Len(s) PROVE j \in PrefixPlaces(s)
  <2>1. j \in 1..Len(s)
    BY <1>1, <1>3 DEF PrefixPlaces
  <2>2. QED
    BY <1>1, <1>3, <2>1 DEF PrefixPlaces
<1>4. CASE PrefixIndex(s) = 0
  <2>1. r = Keep(<<>>)
    BY <1>4, IterationAt
  <2>2. PrefixPlaces(s) = {}
    BY <1>2, <1>4
  <2>3. From(t, Len(s) + 1) = <<>> \o c
    <3>1. Len(s) + 1 \in Nat \ {0} /\ Len(s) + 1 <= Len(s) + 1
      BY <1>1
    <3>2. From(s, Len(s) + 1) \in Seq(Bytes) /\ Len(From(s, Len(s) + 1)) = 0
      BY <1>1, <3>1, Rest
    <3>3. From(s, Len(s) + 1) = <<>>
      BY <3>2
    <3>4. QED
      BY <3>1, <3>3, CatFrom
  <2>4. ASSUME NEW j \in PrefixPlaces(t) PROVE j > Len(s)
    BY <1>1, <1>2, <1>3, <2>2, <2>4
  <2>5. Len(s) <= Len(t)
    BY <1>1
  <2> HIDE DEF t
  <2>6. HeaderReassemble(k, <<>> \o c) = HeaderReassemble(k, t)
    BY <1>1, <2>3, <2>4, <2>5, HeaderDrop
  <2>7. ~r.more /\ r.out = <<>> /\ r.rest = <<>>
    BY <2>1, EndsExtended
  <2>8. QED
    BY <2>6, <2>7 DEF CutUnseen, t
<1>5. CASE PrefixIndex(s) # 0
  <2> DEFINE i == PrefixIndex(s)
             d == From(s, i)
  <2>1. i \in PrefixPlaces(s) /\ \A j \in PrefixPlaces(s) : i <= j
    BY <1>2, <1>5, FirstFinds
  <2>2. i \in Nat \ {0} /\ i <= Len(s) /\ s[i] = packetPrefix
    BY <1>1, <2>1 DEF PrefixPlaces
  <2> HIDE DEF i
  <2>3. i \in PrefixPlaces(t)
    <3>1. i \in 1..Len(s) /\ i \in 1..Len(t)
      BY <1>1, <2>2
    <3>2. QED
      BY <1>1, <2>2, <3>1 DEF PrefixPlaces
  <2>4. ASSUME NEW j \in PrefixPlaces(t) PROVE i <= j
    <3>1. CASE j <= Len(s)
      BY <1>3, <2>1, <3>1
    <3>2. CASE ~(j <= Len(s))
      BY <1>1, <1>2, <2>2, <3>2
    <3>3. QED
      BY <3>1, <3>2
  <2>5. PrefixIndex(t) = i
    BY <1>2, <2>3, <2>4, FirstIs
  <2>6. d \in Seq(Bytes) /\ From(t, i) = d \o c
    <3>1. i \in Nat \ {0} /\ i <= Len(s) + 1
      BY <1>1, <2>2
    <3>2. d \in Seq(Bytes)
      BY <3>1, Rest
    <3>3. From(t, i) = d \o c
      BY <3>1, CatFrom
    <3>4. QED
      BY <3>2, <3>3
  <2>7. r = HeaderAt(k, d)
    BY <1>5, IterationAt DEF i
  <2>8. HeaderReassemble(k, t) = HeaderAt(k, d \o c)
    BY <2>2, <2>5, <2>6, IterationAt
  <2>9. HeaderReassemble(k, d \o c) = HeaderReassemble(k, t)
    <3> DEFINE m == i - 1
    <3>1. m \in Nat /\ m <= Len(t) /\ m + 1 = i
      BY <1>1, <2>2
    <3>2. \A j \in PrefixPlaces(t) : j > m
      BY <1>2, <2>2, <2>4
    <3> HIDE DEF m, t, d
    <3>3. HeaderReassemble(k, From(t, m + 1)) = HeaderReassemble(k, t)
      BY <1>1, <3>1, <3>2, HeaderDrop
    <3>4. QED
      BY <2>6, <3>1, <3>3
  <2> HIDE DEF d, t, r
  <2>10. CASE HeaderAt(k, d) = Keep(d)
    <3>1. ~r.more /\ r.out = <<>> /\ r.rest = d
      BY <2>7, <2>10, EndsExtended
    <3>2. QED
      BY <2>9, <3>1 DEF CutUnseen, t, r
  <2>11. CASE HeaderAt(k, d).more /\ HeaderAt(k, d \o c) = Extended(HeaderAt(k, d), c)
    BY <2>7, <2>8, <2>11 DEF CutUnseen, t, r
  <2>12. QED
    BY <2>6, <2>10, <2>11, HeaderAtExtends
<1>6. QED
  BY <1>4, <1>5

\* No iteration sees where the stream has been cut.
THEOREM IterationCut ==
    ASSUME NEW k \in Kinds, NEW s \in Seq(Bytes), NEW c \in Seq(Bytes)
    PROVE  LET r == Reassemble(k, s)
           IN  CutUnseen(r, Reassemble(k, r.rest \o c), Reassemble(k, s \o c), c)
<1>1. CASE k \in {"enc", "simple"}
  <2>1. \A x : Reassemble(k, x) = EncReassemble(x)
    BY <1>1 DEF Reassemble, SimpleParse
  <2>2. QED
    BY <2>1, EncCut
<1>2. CASE k \in {"passthrough", "rawHeader"}
  <2>1. \A x : Reassemble(k, x) = HeaderReassemble(k, x)
    BY <1>2 DEF Reassemble
  <2>2. QED
    BY <2>1, HeaderCut
<1>3. QED
  BY <1>1, <1>2 DEF Kinds
----------------------------------------------------------------------------
(* The loop on a stream in one piece.                                      *)

\* Induction, for a set of numbers.
LEMMA Counting ==
    ASSUME NEW S \in SUBSET Nat, 0 \in S, \A n \in S : n + 1 \in S
    PROVE  S = Nat
<1> DEFINE T == Nat \ S
           x == First(T)
<1>1. SUFFICES ASSUME T # {} PROVE FALSE
  OBVIOUS
<1>2. x \in T /\ \A y \in T : x <= y
  BY <1>1, FirstFinds
<1> HIDE DEF x
<1>3. x \in Nat /\ x # 0 /\ x \notin S
  BY <1>2
<1>4. x - 1 \in Nat /\ x - 1 + 1 = x /\ ~(x <= x - 1)
  BY <1>3
<1>5. x - 1 \in S
  BY <1>2, <1>4
<1>6. QED
  BY <1>3, <1>4, <1>5

\* n iterations of the loop on s that go on: tr[i] is the data and os[i] the
\* payloads after i of them.
IsRun(k, s, n, tr, os) ==
    /\ n \in Nat /\ tr \in [0..n -> Seq(Bytes)] /\ os \in [0..n -> Seq(Seq(Bytes))]
    /\ tr[0] = s /\ os[0] = <<>>
    /\ \A i \in 0..(n - 1) :
         LET r == Reassemble(k, tr[i])
         IN  r.more /\ tr[i + 1] = r.rest /\ os[i + 1] = os[i] \o r.out
    /\ n + Len(tr[n]) <= Len(s)

\* Data from which an assembler makes the same, whatever follows.
Alike(k, d, b) == \A c \in Seq(Bytes) : Reassemble(k, d \o c) = Reassemble(k, b \o c)

\* No data, no iteration.
LEMMA EmptyStops ==
    ASSUME NEW k \in Kinds
    PROVE  Reassemble(k, <<>>) = Keep(<<>>)
<1>1. PairPlaces(<<>>) = {} /\ PrefixPlaces(<<>>) = {}
  BY DEF PairPlaces, PrefixPlaces
<1>2. PairIndex(<<>>) = First(PairPlaces(<<>>)) /\ PrefixIndex(<<>>) = First(PrefixPlaces(<<>>))
  BY DEF PairIndex, PairPlaces, PrefixIndex, PrefixPlaces
<1>3. PairIndex(<<>>) = 0 /\ PrefixIndex(<<>>) = 0
  BY <1>1, <1>2 DEF First
<1>4. HalfPrefix(<<>>) = <<>>
  BY DEF HalfPrefix
<1>5. EncReassemble(<<>>) = Keep(<<>>) /\ HeaderReassemble(k, <<>>) = Keep(<<>>)
  BY <1>3, <1>4, IterationAt
<1>6. CASE k \in {"enc", "simple"}
  BY <1>5, <1>6 DEF Reassemble, SimpleParse
<1>7. CASE k \in {"passthrough", "rawHeader"}
  BY <1>5, <1>7 DEF Reassemble
<1>8. QED
  BY <1>6, <1>7 DEF Kinds

\* What goes on went on in the same way if more had arrived.
LEMMA RunFeed ==
    ASSUME NEW k \in Kinds, NEW s \in Seq(Bytes), NEW c \in Seq(Bytes),
           NEW n, NEW tr, NEW os, IsRun(k, s, n, tr, os)
    PROVE  IsRun(k, s \o c, n, [i \in 0..n |-> tr[i] \o c], os)
<1> DEFINE ts == [i \in 0..n |-> tr[i] \o c]
<1>1. /\ n \in Nat /\ tr \in [0..n -> Seq(Bytes)] /\ os \in [0..n -> Seq(Seq(Bytes))]
      /\ tr[0] = s /\ os[0] = <<>> /\ n + Len(tr[n]) <= Len(s)
  BY DEF IsRun
<1>2. 0 \in 0..n /\ n \in 0..n
  BY <1>1
<1>3. ts \in [0..n -> Seq(Bytes)] /\ ts[0] = s \o c
  <2>1. ASSUME NEW i \in 0..n PROVE tr[i] \o c \in Seq(Bytes)
    BY <1>1, Cat
  <2>2. QED
    BY <1>1, <1>2, <2>1
<1>4. n + Len(ts[n]) <= Len(s \o c)
  <2>1. tr[n] \in Seq(Bytes) /\ ts[n] = tr[n] \o c
    BY <1>1, <1>2
  <2>2. Len(ts[n]) = Len(tr[n]) + Len(c) /\ Len(tr[n]) \in Nat /\ Len(c) \in Nat
    BY <2>1, Cat
  <2>3. Len(s \o c) = Len(s) + Len(c) /\ Len(s) \in Nat
    BY Cat
  <2>4. QED
    BY <1>1, <2>2, <2>3
<1>5. ASSUME NEW i \in 0..(n - 1)
      PROVE  LET r == Reassemble(k, ts[i])
             IN  r.more /\ ts[i + 1] = r.rest /\ os[i + 1] = os[i] \o r.out
  <2> DEFINE r == Reassemble(k, tr[i])
             q == Reassemble(k, ts[i])
  <2>1. r.more /\ tr[i + 1] = r.rest /\ os[i + 1] = os[i] \o r.out
    BY DEF IsRun
  <2>2. i \in 0..n /\ i + 1 \in 0..n
    BY <1>1
  <2>3. tr[i] \in Seq(Bytes) /\ ts[i] = tr[i] \o c /\ ts[i + 1] = tr[i + 1] \o c
    BY <1>1, <2>2
  <2>4. CutUnseen(r, Reassemble(k, r.rest \o c), Reassemble(k, tr[i] \o c), c)
    BY <2>3, IterationCut
  <2>5. q = Extended(r, c)
    BY <2>1, <2>3, <2>4 DEF CutUnseen
  <2> HIDE DEF r, q
  <2>6. q.more = r.more /\ q.rest = r.rest \o c /\ q.out = r.out
    BY <2>5 DEF Extended
  <2>7. q.more /\ ts[i + 1] = q.rest /\ os[i + 1] = os[i] \o q.out
    BY <2>1, <2>3, <2>6
  <2>8. QED
    BY <2>7 DEF q
<1> HIDE DEF ts
<1>6. IsRun(k, s \o c, n, ts, os)
  BY <1>1, <1>3, <1>4, <1>5 DEF IsRun
<1>7. QED
  BY <1>6 DEF ts

\* An iteration that goes on prolongs the run.
LEMMA RunMore ==
    ASSUME NEW k \in Kinds, NEW s \in Seq(Bytes), NEW n, NEW tr, NEW os,
           IsRun(k, s, n, tr, os), Reassemble(k, tr[n]).more
    PROVE  LET r == Reassemble(k, tr[n])
           IN  \E ts, ps : /\ IsRun(k, s, n + 1, ts, ps)
                           /\ ts[n + 1] = r.rest /\ ps[n + 1] = os[n] \o r.out
<1> DEFINE r == Reassemble(k, tr[n])
           ts == [i \in 0..(n + 1) |-> IF i <= n THEN tr[i] ELSE r.rest]
           ps == [i \in 0..(n + 1) |-> IF i <= n THEN os[i] ELSE os[n] \o r.out]
<1>1. /\ n \in Nat /\ tr \in [0..n -> Seq(Bytes)] /\ os \in [0..n -> Seq(Seq(Bytes))]
      /\ tr[0] = s /\ os[0] = <<>> /\ n + Len(tr[n]) <= Len(s)
      /\ r.more
  BY DEF IsRun
<1>2. tr[n] \in Seq(Bytes) /\ os[n] \in Seq(Seq(Bytes)) /\ n \in 0..n
  BY <1>1
<1>3. r.rest \in Seq(Bytes) /\ r.out \in Seq(Seq(Bytes)) /\ Len(r.rest) < Len(tr[n])
  <2>1. Sound(r, tr[n], PrefixOf(k), Bound(k))
    BY <1>2, IterationSound
  <2> HIDE DEF r
  <2>2. QED
    BY <1>1, <2>1 DEF Sound
<1>4. os[n] \o r.out \in Seq(Seq(Bytes))
  BY <1>2, <1>3, ConcatProperties
<1> HIDE DEF r
<1>5. ts \in [0..(n + 1) -> Seq(Bytes)] /\ ps \in [0..(n + 1) -> Seq(Seq(Bytes))]
  <2>1. ASSUME NEW i \in 0..(n + 1)
        PROVE  /\ (IF i <= n THEN tr[i] ELSE r.rest) \in Seq(Bytes)
               /\ (IF i <= n THEN os[i] ELSE os[n] \o r.out) \in Seq(Seq(Bytes))
    <3>1. CASE i <= n
      <4>1. i \in 0..n
        BY <1>1, <3>1
      <4>2. QED
        BY <1>1, <3>1, <4>1
    <3>2. CASE ~(i <= n)
      BY <1>3, <1>4, <3>2
    <3>3. QED
      BY <3>1, <3>2
  <2>2. QED
    BY <2>1
<1>6. /\ \A i \in 0..n : ts[i] = tr[i] /\ ps[i] = os[i]
      /\ ts[n + 1] = r.rest /\ ps[n + 1] = os[n] \o r.out
  <2>1. /\ n + 1 \in 0..(n + 1) /\ ~(n + 1 <= n)
        /\ \A i \in 0..n : i \in 0..(n + 1) /\ i <= n
    BY <1>1
  <2>2. QED
    BY <2>1
<1> HIDE DEF ts, ps
<1>7. ts[0] = s /\ ps[0] = <<>> /\ (n + 1) + Len(ts[n + 1]) <= Len(s) /\ n + 1 \in Nat
  <2>1. Len(r.rest) \in Nat /\ Len(tr[n]) \in Nat /\ Len(s) \in Nat
    BY <1>2, <1>3, LenProperties
  <2>2. 0 \in 0..n /\ n + 1 \in Nat
    BY <1>1
  <2>3. (n + 1) + Len(r.rest) <= Len(s)
    <3>1. ASSUME NEW a \in Nat, NEW b \in Nat, NEW l \in Nat, n + b <= l, a < b
          PROVE  (n + 1) + a <= l
      BY <1>1, <3>1
    <3>2. QED
      BY <1>1, <1>3, <2>1, <3>1, Zenon
  <2>4. QED
    BY <1>1, <1>6, <2>2, <2>3
<1>8. ASSUME NEW i \in 0..((n + 1) - 1)
      PROVE  LET q == Reassemble(k, ts[i])
             IN  q.more /\ ts[i + 1] = q.rest /\ ps[i + 1] = ps[i] \o q.out
  <2>1. i \in 0..n /\ ts[i] = tr[i] /\ ps[i] = os[i]
    BY <1>1, <1>6
  <2>2. CASE i = n
    BY <1>1, <1>6, <2>1, <2>2 DEF r
  <2>3. CASE i # n
    <3>1. i \in 0..(n - 1) /\ i + 1 \in 0..n
      BY <1>1, <2>1, <2>3
    <3>2. ts[i + 1] = tr[i + 1] /\ ps[i + 1] = os[i + 1]
      BY <1>6, <3>1
    <3>3. LET q == Reassemble(k, tr[i])
          IN  q.more /\ tr[i + 1] = q.rest /\ os[i + 1] = os[i] \o q.out
      BY <3>1 DEF IsRun
    <3>4. QED
      BY <2>1, <3>2, <3>3
  <2>4. QED
    BY <2>2, <2>3
<1>9. IsRun(k, s, n + 1, ts, ps)
  BY <1>5, <1>7, <1>8 DEF IsRun
<1>10. QED
  BY <1>6, <1>9 DEF r
\* A run and the iteration that ends it determine ReassembleAll.
LEMMA RunIsAll ==
    ASSUME NEW k \in Kinds, NEW s \in Seq(Bytes), NEW n, NEW tr, NEW os, NEW b,
           IsRun(k, s, n, tr, os), Reassemble(k, tr[n]) = Keep(b)
    PROVE  ReassembleAll(k, s) = [out |-> os[n], rest |-> b, more |-> FALSE]
<1> DEFINE Step(q) == LET r == Reassemble(k, q.rest)
                      IN  IF q.more
                          THEN [out |-> q.out \o r.out, rest |-> r.rest, more |-> r.more]
                          ELSE q
           Body(f) == [m \in Nat |-> IF m = 0 THEN [out |-> <<>>, rest |-> s, more |-> TRUE]
                                     ELSE Step(f[m - 1])]
           end == [out |-> os[n], rest |-> b, more |-> FALSE]
           g == [m \in Nat |-> IF m <= n THEN [out |-> os[m], rest |-> tr[m], more |-> TRUE]
                               ELSE end]
           f == Iterations(k, s)
<1>1. /\ n \in Nat /\ tr \in [0..n -> Seq(Bytes)] /\ os \in [0..n -> Seq(Seq(Bytes))]
      /\ tr[0] = s /\ os[0] = <<>> /\ n + Len(tr[n]) <= Len(s)
  BY DEF IsRun
<1>2. f = CHOOSE h : h = Body(h)
  BY DEF Iterations
<1>3. ASSUME NEW m \in Nat \ {0} PROVE g[m] = Step(g[m - 1])
  <2>0. m - 1 \in Nat /\ m - 1 + 1 = m
    OBVIOUS
  <2>1. CASE m <= n
    <3> DEFINE r == Reassemble(k, tr[m - 1])
    <3>1. m - 1 \in 0..(n - 1) /\ m - 1 <= n /\ m - 1 \in 0..n
      BY <1>1, <2>1
    <3>2. r.more /\ tr[m] = r.rest /\ os[m] = os[m - 1] \o r.out
      <4>1. LET q == Reassemble(k, tr[m - 1])
            IN  /\ q.more /\ tr[(m - 1) + 1] = q.rest
                /\ os[(m - 1) + 1] = os[m - 1] \o q.out
        BY <3>1 DEF IsRun
      <4>2. QED
        BY <2>0, <4>1
    <3>3. r.more = TRUE
      <4>1. tr[m - 1] \in Seq(Bytes)
        BY <1>1, <3>1
      <4>2. Sound(r, tr[m - 1], PrefixOf(k), Bound(k))
        BY <4>1, IterationSound
      <4>3. r.more \in BOOLEAN
        BY <4>2, Zenon DEF Sound
      <4>4. QED
        BY <3>2, <4>3, Zenon
    <3>4. g[m - 1] = [out |-> os[m - 1], rest |-> tr[m - 1], more |-> TRUE]
      BY <2>0, <3>1
    <3>5. g[m] = [out |-> os[m], rest |-> tr[m], more |-> TRUE]
      BY <2>1
    <3> HIDE DEF g, r
    <3>6. g[m - 1].more /\ g[m - 1].rest = tr[m - 1] /\ g[m - 1].out = os[m - 1]
      BY <3>4
    <3>7. Step(g[m - 1]) = [out |-> os[m - 1] \o r.out, rest |-> r.rest, more |-> r.more]
      BY <3>6 DEF r
    <3>8. QED
      BY <3>2, <3>3, <3>5, <3>7
  <2>2. CASE m = n + 1
    <3>1. ~(m <= n) /\ m - 1 = n /\ m - 1 <= n
      BY <1>1, <2>2
    <3>2. g[m] = end /\ g[m - 1] = [out |-> os[n], rest |-> tr[n], more |-> TRUE]
      BY <2>0, <3>1
    <3> HIDE DEF g
    <3>3. g[m - 1].more /\ g[m - 1].rest = tr[n] /\ g[m - 1].out = os[n]
      BY <3>2
    <3>4. Step(g[m - 1]) = [out |-> os[n] \o Keep(b).out,
                            rest |-> Keep(b).rest, more |-> Keep(b).more]
      BY <3>3
    <3>5. os[n] \in Seq(Seq(Bytes))
      BY <1>1
    <3>6. os[n] \o <<>> = os[n]
      BY <3>5, ConcatEmptySeq
    <3>7. Keep(b).out = <<>> /\ Keep(b).rest = b /\ Keep(b).more = FALSE
      BY DEF Keep
    <3>8. QED
      BY <3>2, <3>4, <3>6, <3>7
  <2>3. CASE m > n + 1
    <3>1. ~(m <= n) /\ ~(m - 1 <= n)
      BY <1>1, <2>3
    <3>2. g[m] = end /\ g[m - 1] = end
      BY <2>0, <3>1
    <3> HIDE DEF g
    <3>3. ~g[m - 1].more
      BY <3>2
    <3>4. QED
      BY <3>2, <3>3
  <2>4. QED
    BY <1>1, <2>1, <2>2, <2>3
<1> HIDE DEF Step
<1>4. g[0] = [out |-> <<>>, rest |-> s, more |-> TRUE]
  <2>1. 0 \in Nat /\ 0 <= n
    BY <1>1
  <2>2. g[0] = [out |-> os[0], rest |-> tr[0], more |-> TRUE]
    BY <2>1
  <2> HIDE DEF g
  <2>3. QED
    BY <1>1, <2>2
<1>5. g = Body(g)
  <2>1. ASSUME NEW m \in Nat PROVE g[m] = Body(g)[m]
    BY <1>3, <1>4
  <2>2. g = [m \in Nat |-> g[m]] /\ Body(g) = [m \in Nat |-> Body(g)[m]]
    OBVIOUS
  <2> HIDE DEF g, Body
  <2>3. QED
    BY <2>1, <2>2
<1>6. f = Body(f)
  <2> HIDE DEF f, g, Body
  <2>1. QED
    BY <1>2, <1>5
<1> HIDE DEF f
<1>7. f[0] = g[0] /\ \A m \in Nat \ {0} : f[m] = Step(f[m - 1])
  <2>1. f[0] = [out |-> <<>>, rest |-> s, more |-> TRUE]
    BY <1>6
  <2>2. ASSUME NEW m \in Nat \ {0} PROVE f[m] = Step(f[m - 1])
    BY <1>6
  <2>3. QED
    BY <1>4, <2>1, <2>2
<1> HIDE DEF g
<1> DEFINE S == {m \in Nat : f[m] = g[m]}
<1>8. S = Nat
  <2>1. S \in SUBSET Nat /\ 0 \in S
    BY <1>7
  <2>2. ASSUME NEW m \in S PROVE m + 1 \in S
    <3>1. m \in Nat /\ m + 1 \in Nat \ {0} /\ (m + 1) - 1 = m /\ f[m] = g[m]
      BY <2>2
    <3>2. f[m + 1] = Step(f[m]) /\ g[m + 1] = Step(g[m])
      BY <1>3, <1>7, <3>1
    <3>3. QED
      BY <3>1, <3>2
  <2> HIDE DEF S
  <2>3. QED
    BY <2>1, <2>2, Counting
<1>9. Len(s) + 1 \in Nat /\ ~(Len(s) + 1 <= n)
  <2>1. tr[n] \in Seq(Bytes)
    BY <1>1
  <2>2. Len(tr[n]) \in Nat /\ Len(s) \in Nat
    BY <2>1, LenProperties
  <2>3. QED
    BY <1>1, <2>2
<1>10. f[Len(s) + 1] = g[Len(s) + 1]
  BY <1>8, <1>9
<1>11. g[Len(s) + 1] = end
  BY <1>9 DEF g
<1>12. QED
  BY <1>10, <1>11 DEF ReassembleAll, f

\* The last iteration of a call produces nothing.
LEMMA NotMoreIsKeep ==
    ASSUME NEW k \in Kinds, NEW s \in Seq(Bytes), ~Reassemble(k, s).more
    PROVE  Reassemble(k, s) = Keep(Reassemble(k, s).rest)
<1> DEFINE r == Reassemble(k, s)
<1>1. \A p, x : Skip(x).more /\ Emit(p, x).more /\ Keep(x) = Keep(Keep(x).rest)
  BY DEF Skip, Emit, Keep
<1>2. CASE k \in {"enc", "simple"}
  <2>1. r = EncReassemble(s)
    BY <1>2 DEF Reassemble, SimpleParse
  <2>2. \E p, x : r = Keep(x) \/ r = Skip(x) \/ r = Emit(p, x)
    BY <2>1, Zenon DEF EncReassemble
  <2>3. QED
    BY <1>1, <2>2
<1>3. CASE k \in {"passthrough", "rawHeader"}
  <2>1. r = HeaderReassemble(k, s)
    BY <1>3 DEF Reassemble
  <2>2. \E p, x : r = Keep(x) \/ r = Skip(x) \/ r = Emit(p, x)
    BY <2>1, Zenon DEF HeaderReassemble
  <2>3. QED
    BY <1>1, <2>2
<1>4. QED
  BY <1>2, <1>3 DEF Kinds

----------------------------------------------------------------------------
(* The assembler.                                                          *)

\* The assembler has made of the stream what the loop makes of it in one
\* piece, up to the data tr[n]; what it has kept in its buffer may be less,
\* but leads to the same.  Between two calls the loop would stop there too.
SplitInv ==
    \E n, tr, os :
        /\ IsRun(kind, fed, n, tr, os) /\ out = os[n]
        /\ buffer \in Seq(Bytes) /\ Alike(kind, tr[n], buffer)
        /\ ~busy => Reassemble(kind, tr[n]) = Keep(buffer)
\* It starts so.
LEMMA InitSplit == Init => SplitInv
<1> SUFFICES ASSUME Init PROVE SplitInv
  OBVIOUS
<1> DEFINE tr == [i \in 0..0 |-> <<>>]
<1>1. kind \in Kinds /\ fed = <<>> /\ buffer = <<>> /\ out = <<>>
  BY DEF Init, Kinds
<1>2. <<>> \in Seq(Bytes) /\ <<>> \in Seq(Seq(Bytes)) /\ Len(<<>>) = 0
  OBVIOUS
<1>3. tr \in [0..0 -> Seq(Bytes)] /\ tr \in [0..0 -> Seq(Seq(Bytes))] /\ tr[0] = <<>>
  BY <1>2
<1>4. 0..(0 - 1) = {}
  OBVIOUS
<1> HIDE DEF tr
<1>5. IsRun(kind, fed, 0, tr, tr)
  BY <1>1, <1>2, <1>3, <1>4 DEF IsRun
<1>6. Reassemble(kind, <<>>) = Keep(<<>>)
  BY <1>1, EmptyStops
<1>7. QED
  BY <1>1, <1>2, <1>3, <1>5, <1>6 DEF SplitInv, Alike

\* A notification finds it so and leaves it so.
LEMMA FeedSplit ==
    ASSUME TypeOK, SplitInv, NEW z \in 1..MaxChunk, Feed(z)
    PROVE  SplitInv'
<1> DEFINE chunk == SubSeq(wire, 1, z)
<1>0. /\ chunk \in Seq(Bytes)
      /\ kind' = kind /\ fed' = fed \o chunk /\ buffer' = buffer \o chunk /\ out' = out /\ busy'
  <2>1. chunk \in Seq(Bytes)
    BY FeedTypes DEF TypeOK
  <2>2. QED
    BY <2>1 DEF Feed
<1> HIDE DEF chunk
<1>1. PICK n, tr, os :
        /\ IsRun(kind, fed, n, tr, os) /\ out = os[n]
        /\ buffer \in Seq(Bytes) /\ Alike(kind, tr[n], buffer)
  BY DEF SplitInv
<1> DEFINE ts == [i \in 0..n |-> tr[i] \o chunk]
<1>2. kind \in Kinds /\ fed \in Seq(Bytes)
  BY DEF TypeOK, Kinds
<1>3. IsRun(kind, fed \o chunk, n, ts, os)
  BY <1>0, <1>1, <1>2, RunFeed
<1>4. n \in 0..n /\ tr[n] \in Seq(Bytes)
  BY <1>1 DEF IsRun
<1>5. ts[n] = tr[n] \o chunk
  BY <1>4
<1> HIDE DEF ts
<1>6. ASSUME NEW c \in Seq(Bytes)
      PROVE  Reassemble(kind, ts[n] \o c) = Reassemble(kind, (buffer \o chunk) \o c)
  <2>1. chunk \o c \in Seq(Bytes)
    BY <1>0, ConcatProperties
  <2>2. /\ (tr[n] \o chunk) \o c = tr[n] \o (chunk \o c)
        /\ (buffer \o chunk) \o c = buffer \o (chunk \o c)
    <3>1. \A x \in Seq(Bytes) : (x \o chunk) \o c = x \o (chunk \o c)
      BY <1>0, ConcatAssociative
    <3>2. QED
      BY <1>1, <1>4, <3>1
  <2>3. Reassemble(kind, tr[n] \o (chunk \o c)) = Reassemble(kind, buffer \o (chunk \o c))
    BY <1>1, <2>1 DEF Alike
  <2>4. QED
    BY <1>5, <2>2, <2>3
<1>7. Alike(kind, ts[n], buffer \o chunk)
  BY <1>6 DEF Alike
<1>8. buffer \o chunk \in Seq(Bytes)
  BY <1>0, <1>1, ConcatProperties
<1>9. kind' = kind /\ fed' = fed \o chunk /\ buffer' = buffer \o chunk /\ out' = out /\ busy'
  BY <1>0
<1>10. /\ IsRun(kind', fed', n, ts, os) /\ out' = os[n]
       /\ buffer' \in Seq(Bytes) /\ Alike(kind', ts[n], buffer')
  BY <1>1, <1>3, <1>7, <1>8, <1>9
<1>11. QED
  BY <1>9, <1>10 DEF SplitInv

\* So does an iteration.
LEMMA IterateSplit ==
    ASSUME TypeOK, SplitInv, Iterate
    PROVE  SplitInv'
<1>1. PICK n, tr, os :
        /\ IsRun(kind, fed, n, tr, os) /\ out = os[n]
        /\ buffer \in Seq(Bytes) /\ Alike(kind, tr[n], buffer)
  BY DEF SplitInv
<1> DEFINE r == Reassemble(kind, buffer)
<1>2. kind \in Kinds /\ fed \in Seq(Bytes)
  BY DEF TypeOK, Kinds
<1>3. n \in 0..n /\ tr[n] \in Seq(Bytes) /\ os[n] \in Seq(Seq(Bytes))
  BY <1>1 DEF IsRun
<1>4. r = Reassemble(kind, tr[n])
  <2>1. tr[n] \o <<>> = tr[n] /\ buffer \o <<>> = buffer /\ <<>> \in Seq(Bytes)
    BY <1>1, <1>3, ConcatEmptySeq
  <2>2. Reassemble(kind, tr[n] \o <<>>) = Reassemble(kind, buffer \o <<>>)
    BY <1>1, <2>1 DEF Alike
  <2>3. QED
    BY <2>1, <2>2
<1>5. kind' = kind /\ fed' = fed /\ out' = out \o r.out /\ buffer' = r.rest /\ busy' = r.more
  BY DEF Iterate
<1>6. r.rest \in Seq(Bytes) /\ r.more \in BOOLEAN
  <2>1. Sound(r, buffer, PrefixOf(kind), Bound(kind))
    BY <1>1, <1>2, IterationSound
  <2> HIDE DEF r
  <2>2. QED
    BY <2>1, Zenon DEF Sound
<1>7. CASE r.more
  <2>1. PICK ts, ps : /\ IsRun(kind, fed, n + 1, ts, ps)
                      /\ ts[n + 1] = r.rest /\ ps[n + 1] = os[n] \o r.out
    <3>1. Reassemble(kind, tr[n]).more
      BY <1>4, <1>7
    <3>2. \E ts, ps : /\ IsRun(kind, fed, n + 1, ts, ps)
                      /\ ts[n + 1] = Reassemble(kind, tr[n]).rest
                      /\ ps[n + 1] = os[n] \o Reassemble(kind, tr[n]).out
      BY <1>1, <1>2, <3>1, RunMore
    <3>3. QED
      BY <1>4, <3>2
  <2> HIDE DEF r
  <2>2. Alike(kind, ts[n + 1], r.rest)
    BY <2>1 DEF Alike
  <2>3. /\ IsRun(kind', fed', n + 1, ts, ps) /\ out' = ps[n + 1]
        /\ buffer' \in Seq(Bytes) /\ Alike(kind', ts[n + 1], buffer') /\ busy'
    BY <1>1, <1>5, <1>6, <1>7, <2>1, <2>2
  <2>4. QED
    BY <2>3 DEF SplitInv
<1>8. CASE ~r.more
  <2>1. ASSUME NEW c \in Seq(Bytes)
        PROVE  /\ r.out = <<>>
               /\ Reassemble(kind, r.rest \o c) = Reassemble(kind, tr[n] \o c)
    <3>1. CutUnseen(r, Reassemble(kind, r.rest \o c), Reassemble(kind, buffer \o c), c)
      BY <1>1, <1>2, IterationCut
    <3>2. Reassemble(kind, tr[n] \o c) = Reassemble(kind, buffer \o c)
      BY <1>1 DEF Alike
    <3> HIDE DEF r
    <3>3. QED
      BY <1>8, <3>1, <3>2 DEF CutUnseen
  <2>2. Alike(kind, tr[n], r.rest)
    BY <2>1 DEF Alike
  <2>3. r.out = <<>>
    <3>1. <<>> \in Seq(Bytes)
      OBVIOUS
    <3>2. QED
      BY <2>1, <3>1
  <2>4. r = Keep(r.rest)
    BY <1>1, <1>2, <1>8, NotMoreIsKeep
  <2> HIDE DEF r
  <2>5. out \o r.out = out
    BY <1>1, <1>3, <2>3, ConcatEmptySeq
  <2>6. /\ IsRun(kind', fed', n, tr, os) /\ out' = os[n]
        /\ buffer' \in Seq(Bytes) /\ Alike(kind', tr[n], buffer')
        /\ Reassemble(kind', tr[n]) = Keep(buffer')
    BY <1>1, <1>4, <1>5, <1>6, <2>2, <2>4, <2>5
  <2>7. QED
    BY <2>6 DEF SplitInv
<1>9. QED
  BY <1>7, <1>8

\* The assembler has made of the stream what the loop makes of it.
THEOREM SplitInvariance == Spec => []SplitInv
<1>1. IInv /\ SplitInv /\ [Next]_vars => SplitInv'
  <2> SUFFICES ASSUME IInv, SplitInv, [Next]_vars PROVE SplitInv'
    OBVIOUS
  <2>1. TypeOK
    BY DEF IInv
  <2>2. ASSUME NEW n \in 1..MaxChunk, Feed(n) PROVE SplitInv'
    BY <2>1, <2>2, FeedSplit
  <2>3. CASE Iterate
    BY <2>1, <2>3, IterateSplit
  <2>4. CASE UNCHANGED vars
    BY <2>4 DEF vars, SplitInv
  <2>5. QED
    BY <2>2, <2>3, <2>4 DEF Next
<1>2. QED
  BY Invariance, InitSplit, <1>1, PTL DEF Spec

\* Whatever a device sends and however its notifications cut it, payloads and
\* buffer are those of the stream in one piece.
THEOREM SplitSafe == Spec => []SplitInvariant
<1>1. IInv /\ SplitInv => SplitInvariant
  <2> SUFFICES ASSUME IInv, SplitInv, ~busy
               PROVE  ReassembleAll(kind, fed) = [out |-> out, rest |-> buffer, more |-> FALSE]
    BY DEF SplitInvariant
  <2>1. kind \in Kinds /\ fed \in Seq(Bytes)
    BY DEF IInv, TypeOK, Kinds
  <2>2. PICK n, tr, os : /\ IsRun(kind, fed, n, tr, os) /\ out = os[n]
                         /\ Reassemble(kind, tr[n]) = Keep(buffer)
    BY DEF SplitInv
  <2>3. QED
    BY <2>1, <2>2, RunIsAll
<1>2. QED
  BY Invariance, SplitInvariance, <1>1, PTL
----------------------------------------------------------------------------
(* Streams of frames.                                                      *)

\* AfterFrames is what its definition says.
LEMMA AfterEquations ==
    ASSUME NEW k, NEW s \in Seq(Bytes)
    PROVE  LET a == AfterFrames(k, s)
           IN  /\ a[0] = s
               /\ \A n \in 1..Len(s) : a[n] = From(a[n - 1], FrameLength(k, a[n - 1]) + 1)
<1> DEFINE Step(t) == From(t, FrameLength(k, t) + 1)
           N == Len(s)
           Body(f) == [n \in 0..N |-> IF n = 0 THEN s ELSE Step(f[n - 1])]
           a == AfterFrames(k, s)
           Upto(m, h) == h[0] = s /\ \A n \in 1..m : h[n] = Step(h[n - 1])
           S == {m \in Nat : \E h : Upto(m, h)}
<1>1. a = CHOOSE f : f = Body(f)
  BY DEF AfterFrames
<1> HIDE DEF Step, a
<1>2. N \in Nat
  OBVIOUS
<1> HIDE DEF N
<1>3. S = Nat
  <2>1. S \in SUBSET Nat
    OBVIOUS
  <2>2. 0 \in S
    <3>1. Upto(0, [n \in 0..0 |-> s])
      <4>1. 1..0 = {} /\ 0 \in 0..0
        OBVIOUS
      <4>2. QED
        BY <4>1
    <3> HIDE DEF Upto
    <3>2. QED
      BY <3>1
  <2>3. ASSUME NEW m \in S PROVE m + 1 \in S
    <3>1. m \in Nat
      OBVIOUS
    <3>2. PICK h : Upto(m, h)
      OBVIOUS
    <3> DEFINE g == [n \in 0..(m + 1) |-> IF n <= m THEN h[n] ELSE Step(h[m])]
    <3>3. /\ \A n \in 0..m : g[n] = h[n]
          /\ g[m + 1] = Step(h[m])
      <4>1. /\ \A n \in 0..m : n \in 0..(m + 1) /\ n <= m
            /\ m + 1 \in 0..(m + 1) /\ ~(m + 1 <= m)
        BY <3>1
      <4>2. QED
        BY <4>1
    <3> HIDE DEF g
    <3>4. g[0] = s
      <4>1. 0 \in 0..m
        BY <3>1
      <4>2. QED
        BY <3>2, <3>3, <4>1
    <3>5. ASSUME NEW n \in 1..(m + 1) PROVE g[n] = Step(g[n - 1])
      <4>1. n - 1 \in 0..m
        BY <3>1
      <4>2. CASE n <= m
        <5>1. n \in 1..m /\ n \in 0..m
          BY <3>1, <4>2
        <5>2. QED
          BY <3>2, <3>3, <4>1, <5>1
      <4>3. CASE ~(n <= m)
        <5>1. n = m + 1 /\ n - 1 = m /\ m \in 0..m
          BY <3>1, <4>3
        <5>2. QED
          BY <3>3, <5>1
      <4>4. QED
        BY <4>2, <4>3
    <3>6. Upto(m + 1, g)
      BY <3>4, <3>5
    <3> HIDE DEF Upto
    <3>7. QED
      BY <3>1, <3>6
  <2> HIDE DEF S
  <2>4. QED
    BY <2>1, <2>2, <2>3, Counting
<1>4. PICK h : Upto(N, h)
  <2> HIDE DEF Upto
  <2>1. QED
    BY <1>2, <1>3
<1> DEFINE g == [n \in 0..N |-> h[n]]
<1>5. g = Body(g)
  <2>1. ASSUME NEW n \in 0..N PROVE g[n] = Body(g)[n]
    <3>1. CASE n = 0
      BY <1>4, <3>1
    <3>2. CASE n # 0
      <4>1. n \in 1..N /\ n - 1 \in 0..N
        BY <1>2, <3>2
      <4>2. QED
        BY <1>4, <3>2, <4>1
    <3>3. QED
      BY <3>1, <3>2
  <2>2. g = [n \in 0..N |-> g[n]] /\ Body(g) = [n \in 0..N |-> Body(g)[n]]
    OBVIOUS
  <2> HIDE DEF g, Body
  <2>3. QED
    BY <2>1, <2>2
<1>6. a = Body(a)
  <2> HIDE DEF g, Body
  <2>1. QED
    BY <1>1, <1>5
<1>7. a[0] = s
  <2>1. 0 \in 0..N
    BY <1>2
  <2>2. QED
    BY <1>6, <2>1
<1>8. ASSUME NEW n \in 1..N PROVE a[n] = Step(a[n - 1])
  <2>1. n \in 0..N /\ n # 0
    BY <1>2
  <2>2. QED
    BY <1>6, <2>1
<1>9. QED
  BY <1>7, <1>8 DEF a, N, Step

\* A well-formed frame at the beginning of the data is what the next iteration
\* cuts out.
LEMMA FrameIsEmitted ==
    ASSUME NEW k \in Kinds, NEW t \in Seq(Bytes), FrameLength(k, t) # 0
    PROVE  \E p : Reassemble(k, t) = Emit(p, From(t, FrameLength(k, t) + 1))
<1>0. Len(t) \in Nat
  OBVIOUS
<1>1. From(t, 1) = t
  BY SubSeqFull DEF From
<1>2. CASE k \in {"enc", "simple"}
  <2> DEFINE n == 6 + Uint16(t, 5)
  <2>1. FrameLength(k, t) = IF /\ Len(t) >= 8 /\ t[1] = encPrefix /\ t[2] = encPrefix
                               /\ n >= 8 /\ n <= 6 + MaxEncLen /\ n <= Len(t)
                               /\ CRC16(SubSeq(t, 1, n - 2)) = Uint16(t, n - 1)
                            THEN n ELSE 0
    BY <1>2 DEF FrameLength
  <2>2. /\ Len(t) >= 8 /\ t[1] = encPrefix /\ t[2] = encPrefix
        /\ n >= 8 /\ n <= 6 + MaxEncLen /\ n <= Len(t)
        /\ CRC16(SubSeq(t, 1, n - 2)) = Uint16(t, n - 1) /\ FrameLength(k, t) = n
    BY <2>1
  <2>3. PairIndex(t) = 1
    <3>1. 1 \in PairPlaces(t)
      BY <1>0, <2>2 DEF PairPlaces
    <3>2. PairPlaces(t) \in SUBSET Nat /\ \A y \in PairPlaces(t) : 1 <= y
      BY <1>0 DEF PairPlaces
    <3>3. First(PairPlaces(t)) = 1
      BY <3>1, <3>2, FirstIs
    <3>4. QED
      BY <3>3 DEF PairIndex, PairPlaces
  <2>4. /\ ~(Len(t) < 8) /\ ~(Len(t) < n)
        /\ ~(Uint16(t, 5) < 2 \/ Uint16(t, 5) > MaxEncLen)
    <3> DEFINE m == Uint16(t, 5)
    <3>1. m \in 0..MaxUint16 /\ MaxEncLen \in Nat
      BY <1>0, <2>2, Word DEF MaxEncLen
    <3>2. m \in Nat
      BY <3>1, Numbers
    <3> HIDE DEF m
    <3>3. QED
      BY <1>0, <2>2, <3>1, <3>2 DEF m
  <2>5. EncReassemble(t) = EncAt(t)
    BY <1>1, <2>3, IterationAt
  <2>6. EncAt(t) = Emit(SubSeq(t, 7, n - 2), From(t, n + 1))
    BY <2>2, <2>4, Zenon DEF EncAt
  <2>7. Reassemble(k, t) = EncReassemble(t)
    BY <1>2 DEF Reassemble, SimpleParse
  <2>8. QED
    BY <2>2, <2>5, <2>6, <2>7
<1>3. CASE k \in {"passthrough", "rawHeader"}
  <2> DEFINE n == 5 + BodyOnWire(k, t[2], Uint16(t, 3))
  <2>1. FrameLength(k, t) = IF /\ Len(t) >= 5 /\ t[1] = packetPrefix
                               /\ CRC8(SubSeq(t, 1, 4)) = t[5] /\ n <= Len(t)
                            THEN n ELSE 0
    BY <1>3 DEF FrameLength
  <2>2. /\ Len(t) >= 5 /\ t[1] = packetPrefix /\ n <= Len(t)
        /\ CRC8(SubSeq(t, 1, 4)) = t[5] /\ FrameLength(k, t) = n
    BY <2>1
  <2>3. PrefixIndex(t) = 1
    <3>1. 1 \in PrefixPlaces(t)
      BY <1>0, <2>2 DEF PrefixPlaces
    <3>2. PrefixPlaces(t) \in SUBSET Nat /\ \A y \in PrefixPlaces(t) : 1 <= y
      BY <1>0 DEF PrefixPlaces
    <3>3. First(PrefixPlaces(t)) = 1
      BY <3>1, <3>2, FirstIs
    <3>4. QED
      BY <3>3 DEF PrefixIndex, PrefixPlaces
  <2>4. HeaderReassemble(k, t) = HeaderAt(k, t)
    BY <1>1, <2>3, IterationAt
  <2>5. HeaderAt(k, t) = Emit(SubSeq(t, 1, 5 + packetBodyLen(t[2], Uint16(t, 3))),
                              From(t, n + 1))
    <3>1. t[2] \in Bytes /\ Uint16(t, 3) \in 0..MaxUint16
      BY <1>0, <2>2, Word
    <3>2. BodyOnWire(k, t[2], Uint16(t, 3)) \in Nat
      BY <3>1, BodyLength
    <3>3. ~(Len(t) < 5) /\ ~(Len(t) < n)
      BY <1>0, <2>2, <3>2
    <3>4. QED
      BY <2>2, <3>3, Zenon DEF HeaderAt
  <2>6. Reassemble(k, t) = HeaderReassemble(k, t)
    BY <1>3 DEF Reassemble
  <2>7. QED
    BY <2>2, <2>4, <2>5, <2>6
<1>4. QED
  BY <1>2, <1>3 DEF Kinds
\* The loop takes the frames of a stream one by one, until nothing is left.
LEMMA RunOfFrames ==
    ASSUME NEW k \in Kinds, NEW s \in Seq(Bytes), NEW n, NEW tr, NEW os, NEW b,
           IsRun(k, s, n, tr, os), Reassemble(k, tr[n]) = Keep(b),
           AfterFrames(k, s)[Len(s)] = <<>>
    PROVE  /\ b = <<>>
           /\ \A m \in 0..Len(s) : AfterFrames(k, s)[m] = <<>> <=> Len(os[n]) <= m
<1> DEFINE a == AfterFrames(k, s)
           N == Len(s)
<1>1. /\ n \in Nat /\ tr \in [0..n -> Seq(Bytes)] /\ os \in [0..n -> Seq(Seq(Bytes))]
      /\ tr[0] = s /\ os[0] = <<>> /\ n + Len(tr[n]) <= Len(s)
  BY DEF IsRun
<1>2. N \in Nat /\ n <= N
  <2>1. tr[n] \in Seq(Bytes)
    BY <1>1
  <2>2. Len(tr[n]) \in Nat /\ N \in Nat
    BY <2>1, LenProperties
  <2>3. QED
    BY <1>1, <2>2
<1>3. a[0] = s /\ \A m \in 1..N : a[m] = From(a[m - 1], FrameLength(k, a[m - 1]) + 1)
  BY AfterEquations
<1>4. a[N] = <<>>
  OBVIOUS
<1> HIDE DEF a, N
<1>5. ASSUME NEW i \in 0..N, a[i] \in Seq(Bytes), FrameLength(k, a[i]) = 0, NEW j \in i..N
      PROVE  a[j] = a[i]
  <2> DEFINE S == {d \in Nat : i + d <= N => a[i + d] = a[i]}
  <2>1. S \in SUBSET Nat /\ 0 \in S
    BY <1>2
  <2>2. ASSUME NEW d \in S PROVE d + 1 \in S
    <3>1. SUFFICES ASSUME i + (d + 1) <= N PROVE a[i + (d + 1)] = a[i]
      OBVIOUS
    <3>2. /\ i + (d + 1) \in 1..N /\ (i + (d + 1)) - 1 = i + d /\ i + d <= N
      BY <1>2, <3>1
    <3>3. a[i + d] = a[i]
      BY <3>2
    <3>4. a[i + (d + 1)] = From(a[i], 0 + 1)
      BY <1>3, <1>5, <3>2, <3>3
    <3>5. From(a[i], 1) = a[i]
      BY <1>5, SubSeqFull DEF From
    <3>6. QED
      BY <3>4, <3>5
  <2>3. S = Nat
    <3> HIDE DEF S
    <3>1. QED
      BY <2>1, <2>2, Counting
  <2>4. j - i \in Nat /\ i + (j - i) = j /\ j <= N
    BY <1>2
  <2>5. j - i \in S
    BY <2>3, <2>4
  <2>6. QED
    BY <2>4, <2>5
<1>6. ASSUME NEW i \in 0..n PROVE a[i] = tr[i] /\ Len(os[i]) = i
  <2> DEFINE S == {m \in Nat : m <= n => a[m] = tr[m] /\ Len(os[m]) = m}
  <2>1. S \in SUBSET Nat /\ 0 \in S
    BY <1>1, <1>3
  <2>2. ASSUME NEW m \in S PROVE m + 1 \in S
    <3>1. SUFFICES ASSUME m + 1 <= n PROVE a[m + 1] = tr[m + 1] /\ Len(os[m + 1]) = m + 1
      OBVIOUS
    <3>2. /\ m \in 0..(n - 1) /\ m \in 0..n /\ m \in 0..N /\ m + 1 \in 1..N /\ (m + 1) - 1 = m
          /\ m <= n /\ N \in m..N
      BY <1>1, <1>2, <3>1
    <3>3. a[m] = tr[m] /\ Len(os[m]) = m /\ tr[m] \in Seq(Bytes) /\ os[m] \in Seq(Seq(Bytes))
      BY <1>1, <3>2
    <3> DEFINE r == Reassemble(k, tr[m])
    <3>4. r.more /\ tr[m + 1] = r.rest /\ os[m + 1] = os[m] \o r.out
      BY <3>2 DEF IsRun
    <3>5. FrameLength(k, tr[m]) # 0
      <4>1. SUFFICES ASSUME FrameLength(k, tr[m]) = 0 PROVE FALSE
        OBVIOUS
      <4>2. a[N] = tr[m]
        BY <1>5, <3>2, <3>3, <4>1
      <4>3. r = Keep(<<>>)
        BY <1>4, <4>2, EmptyStops
      <4> HIDE DEF r
      <4>4. QED
        BY <3>4, <4>3 DEF Keep
    <3>6. PICK p : r = Emit(p, From(tr[m], FrameLength(k, tr[m]) + 1))
      BY <3>3, <3>5, FrameIsEmitted
    <3>7. r.out \in Seq(Seq(Bytes))
      <4>1. Sound(r, tr[m], PrefixOf(k), Bound(k))
        BY <3>3, IterationSound
      <4>2. QED
        BY <4>1, Zenon DEF Sound
    <3> HIDE DEF r
    <3>8. r.rest = From(tr[m], FrameLength(k, tr[m]) + 1) /\ r.out = <<p>>
      BY <3>6 DEF Emit
    <3>9. a[m + 1] = tr[m + 1]
      BY <1>3, <3>2, <3>3, <3>4, <3>8
    <3>10. Len(r.out) = 1
      BY <3>8
    <3>11. Len(os[m + 1]) = m + 1
      <4>1. Len(os[m] \o r.out) = Len(os[m]) + Len(r.out)
        BY <3>3, <3>7, ConcatProperties
      <4>2. QED
        BY <3>3, <3>4, <3>10, <4>1
    <3>12. QED
      BY <3>9, <3>11
  <2>3. S = Nat
    <3> HIDE DEF S
    <3>1. QED
      BY <2>1, <2>2, Counting
  <2>4. i \in Nat /\ i <= n
    BY <1>1
  <2>5. i \in S
    <3> HIDE DEF S
    <3>1. QED
      BY <2>3, <2>4
  <2>6. QED
    BY <2>4, <2>5
<1>7. n \in 0..n /\ n \in 0..N /\ tr[n] \in Seq(Bytes) /\ N \in n..N
  BY <1>1, <1>2
<1>8. a[n] = tr[n] /\ Len(os[n]) = n
  BY <1>6, <1>7
<1>9. FrameLength(k, tr[n]) = 0
  <2>1. SUFFICES ASSUME FrameLength(k, tr[n]) # 0 PROVE FALSE
    OBVIOUS
  <2>2. PICK p, x : Reassemble(k, tr[n]) = Emit(p, x)
    BY <1>7, <2>1, FrameIsEmitted
  <2>3. Emit(p, x).more /\ ~Keep(b).more
    BY DEF Emit, Keep
  <2>4. QED
    BY <2>2, <2>3
<1>10. \A j \in n..N : a[j] = tr[n]
  BY <1>5, <1>7, <1>8, <1>9
<1>11. tr[n] = <<>>
  BY <1>4, <1>7, <1>10
<1>12. b = <<>>
  <2>1. Keep(b) = Keep(<<>>)
    BY <1>11, EmptyStops
  <2>2. Keep(b).rest = b /\ Keep(<<>>).rest = <<>>
    BY DEF Keep
  <2>3. QED
    BY <2>1, <2>2
<1>13. ASSUME NEW m \in 0..N PROVE a[m] = <<>> <=> n <= m
  <2>1. CASE n <= m
    <3>1. m \in n..N
      BY <1>1, <1>2, <2>1
    <3>2. QED
      BY <1>10, <1>11, <2>1, <3>1
  <2>2. CASE ~(n <= m)
    <3>1. m \in 0..n /\ m \in 0..(n - 1)
      BY <1>1, <1>2, <2>2
    <3>2. a[m] = tr[m] /\ Reassemble(k, tr[m]).more
      BY <1>6, <3>1 DEF IsRun
    <3>3. a[m] # <<>>
      <4>1. ~Keep(<<>>).more
        BY DEF Keep
      <4>2. QED
        BY <3>2, <4>1, EmptyStops
    <3>4. QED
      BY <2>2, <3>3
  <2>3. QED
    BY <2>1, <2>2
<1>14. QED
  BY <1>8, <1>12, <1>13 DEF a, N

\* A stream of frames without noise is decoded completely, however many and
\* however long the frames are and wherever it has been cut.
THEOREM CleanSafe == Spec => []CleanStreamComplete
<1>1. IInv /\ SplitInv => CleanStreamComplete
  <2> SUFFICES ASSUME IInv, SplitInv, ~busy, AfterFrames(kind, fed)[Len(fed)] = <<>>
               PROVE  /\ buffer = <<>>
                      /\ \A n \in 0..Len(fed) :
                           AfterFrames(kind, fed)[n] = <<>> <=> Len(out) <= n
    BY DEF CleanStreamComplete
  <2>1. kind \in Kinds /\ fed \in Seq(Bytes)
    BY DEF IInv, TypeOK, Kinds
  <2>2. PICK n, tr, os : /\ IsRun(kind, fed, n, tr, os) /\ out = os[n]
                         /\ Reassemble(kind, tr[n]) = Keep(buffer)
    BY DEF SplitInv
  <2>3. QED
    BY <2>1, <2>2, RunOfFrames
<1>2. QED
  BY Invariance, SplitInvariance, <1>1, PTL
=============================================================================
