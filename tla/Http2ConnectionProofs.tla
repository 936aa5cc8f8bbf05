----------------------- MODULE Http2ConnectionProofs -----------------------
(***************************************************************************)
(* The theorem about Http2Connection: frames are handled as the client     *)
(* sent them, for any inputs and any number of values of a byte.  Where    *)
(* the reader is in the stream of a client whose frames have no content is *)
(* said for each place of innerRun; the numbers of several bytes are       *)
(* worked out from what OrAssumption says of the operator |.               *)
(***************************************************************************)
EXTENDS Http2Connection, WellFoundedInduction, NaturalsInduction, TLAPS

-----------------------------------------------------------------------------
(* Numbers of several bytes.                                               *)

\* Products of numbers are numbers, and not less than a factor that is
\* multiplied with more than zero.
LEMMA Products ==
  ASSUME NEW a \in Nat, NEW b \in Nat
  PROVE  /\ a * b \in Nat /\ a * b = b * a
         /\ b > 0 => a * b >= a
  OBVIOUS

\* What is left of b times c when a + 1 times c are taken away.
LEMMA Differences ==
  ASSUME NEW a \in Nat, NEW b \in Nat, NEW c \in Nat
  PROVE  (b - (a + 1)) * c = b * c - (a * c + c)
  OBVIOUS

\* Multiples and remainders.
LEMMA Remainder ==
  ASSUME NEW b \in Nat, b > 0, NEW a \in Nat, NEW r \in 0 .. (b - 1)
  PROVE  (a * b + r) % b = r
  OBVIOUS

\* The places of the bytes, for the provers.
LEMMA Places ==
  /\ ByteRange \in Nat /\ ByteRange >= 2
  /\ Place[1] = 1 /\ Place[2] = ByteRange /\ Place[3] = ByteRange * ByteRange
  /\ Place[4] = ByteRange * ByteRange * ByteRange
  /\ Word = ByteRange * Place[4]
  /\ \A n \in 1 .. 4 : Place[n] \in Nat /\ Place[n] > 0
  /\ Word \in Nat /\ Word >= ByteRange
  <1>1. ByteRange \in Nat /\ ByteRange >= 2
    BY Http2Assumption
  <1> DEFINE B2 == ByteRange * ByteRange
             B3 == B2 * ByteRange
  <1>2. B2 \in Nat /\ B2 > 0
    BY <1>1, Products
  <1> HIDE DEF B2
  <1>3. B3 \in Nat /\ B3 > 0
    BY <1>1, <1>2, Products
  <1> HIDE DEF B3
  <1>4. ByteRange * B3 \in Nat /\ ByteRange * B3 >= ByteRange
    BY <1>1, <1>3, Products
  <1>5. /\ Place[1] = 1 /\ Place[2] = ByteRange /\ Place[3] = B2 /\ Place[4] = B3
        /\ Word = ByteRange * B3
    BY DEF Place, Word, B2, B3
  <1>6. \A n \in 1 .. 4 : Place[n] \in Nat /\ Place[n] > 0
    BY <1>1, <1>2, <1>3, <1>5
  <1> QED
    BY <1>1, <1>4, <1>5, <1>6 DEF B2, B3

\* The remainder of a division by an even number is even when the dividend is.
LEMMA RemainderParity ==
  ASSUME NEW a \in Nat, NEW m \in Nat, m > 0, m % 2 = 0
  PROVE  a % m \in 0 .. (m - 1) /\ (a % m) % 2 = a % 2
  <1> DEFINE q == a \div m
             r == a % m
             h == m \div 2
  <1>1. q \in Nat /\ r \in 0 .. (m - 1) /\ a = m * q + r
    OBVIOUS
  <1>2. h \in Nat /\ m = 2 * h
    OBVIOUS
  <1> HIDE DEF q, r, h
  <1>3. h * q \in Nat /\ a = 2 * (h * q) + r
    BY <1>1, <1>2
  <1>4. \A k \in Nat : (2 * k + r) % 2 = r % 2
    BY <1>1
  <1>5. a % 2 = r % 2
    BY <1>3, <1>4
  <1> QED
    BY <1>1, <1>5 DEF r

\* A product is even when a factor is.
LEMMA EvenProduct ==
  ASSUME NEW a \in Nat, NEW b \in Nat, b % 2 = 0
  PROVE  a * b \in Nat /\ (a * b) % 2 = 0
  <1> DEFINE h == b \div 2
  <1>1. h \in Nat /\ b = 2 * h
    OBVIOUS
  <1> HIDE DEF h
  <1>2. a * h \in Nat /\ a * b = 2 * (a * h)
    BY <1>1
  <1>3. \A k \in Nat : (2 * k) % 2 = 0
    OBVIOUS
  <1> QED
    BY <1>2, <1>3

\* The places are even but for the last byte's.
LEMMA EvenPlaces ==
  /\ \A n \in 2 .. 4 : Place[n] % 2 = 0
  /\ Word % 2 = 0 /\ Word \div 2 \in Nat /\ (Word \div 2) % 2 = 0
  <1>1. ByteRange \in Nat /\ ByteRange % 2 = 0
    BY Http2Assumption
  <1>2. /\ Place[2] = ByteRange /\ Place[3] = Place[2] * ByteRange /\ Place[4] = Place[3] * ByteRange
        /\ \A n \in 1 .. 4 : Place[n] \in Nat
    BY Places
  <1>3. Place[2] % 2 = 0 /\ Place[3] % 2 = 0 /\ Place[4] % 2 = 0
    <2>1. \A x \in Nat : (x * ByteRange) % 2 = 0
      BY <1>1, EvenProduct
    <2>2. Place[2] \in Nat /\ Place[3] \in Nat
      BY <1>2
    <2>3. Place[3] % 2 = 0
      BY <1>2, <2>1, <2>2, Zenon
    <2>4. Place[4] % 2 = 0
      BY <1>2, <2>1, <2>2, Zenon
    <2> QED
      BY <1>1, <1>2, <2>3, <2>4
  <1> DEFINE h == ByteRange \div 2
             P == Place[4]
  <1>4. h \in Nat /\ ByteRange = 2 * h /\ P \in Nat /\ P % 2 = 0 /\ Word = ByteRange * P
    BY <1>1, <1>2, <1>3, Places
  <1> HIDE DEF h, P
  <1>5. h * P \in Nat /\ (h * P) % 2 = 0
    BY <1>4, EvenProduct
  <1>6. Word = 2 * (h * P)
    BY <1>4
  <1>7. \A k \in Nat : (2 * k) % 2 = 0 /\ (2 * k) \div 2 = k
    OBVIOUS
  <1>8. Word % 2 = 0 /\ Word \div 2 = h * P
    BY <1>5, <1>6, <1>7
  <1> QED
    BY <1>3, <1>5, <1>8

\* A byte in its place: a word, which is even unless it is the last byte's, and
\* the byte's part of the number when the byte is not negative.
LEMMA ShiftedIs ==
  ASSUME NEW c \in Byte, NEW n \in 0 .. 3
  PROVE  /\ Shifted(c, n) \in Words
         /\ n # 0 => Shifted(c, n) % 2 = 0
         /\ n = 0 => Shifted(c, n) % 2 = c % 2
         /\ c < ByteRange \div 2 => Shifted(c, n) = c * Place[n + 1]
  <1> DEFINE s == SignExtended(c)
             p == Place[n + 1]
  <1>1. ByteRange \in Nat /\ ByteRange >= 2 /\ ByteRange % 2 = 0 /\ c \in Nat /\ c < ByteRange
    BY Http2Assumption DEF Byte
  <1>2. Word \in Nat /\ Word >= ByteRange /\ Word > 0 /\ Word % 2 = 0
    BY <1>1, Places, EvenPlaces
  <1>3. s \in Nat /\ s % 2 = c % 2
    BY <1>1, <1>2 DEF SignExtended
  <1>4. p \in Nat /\ p > 0 /\ (n # 0 => p % 2 = 0) /\ (n = 0 => p = 1)
    <2>1. n + 1 \in 1 .. 4 /\ (n # 0 => n + 1 \in 2 .. 4) /\ (n = 0 => n + 1 = 1)
      OBVIOUS
    <2> QED
      BY <2>1, Places, EvenPlaces
  <1>5. Shifted(c, n) = (s * p) % Word
    BY DEF Shifted
  <1> HIDE DEF s, p
  <1>6. s * p \in Nat /\ (n # 0 => (s * p) % 2 = 0) /\ (n = 0 => (s * p) % 2 = c % 2)
    <2>1. CASE n = 0
      BY <1>3, <1>4, <2>1
    <2>2. CASE n # 0
      BY <1>3, <1>4, <2>2, EvenProduct
    <2> QED
      BY <2>1, <2>2
  <1>7. Shifted(c, n) \in Words /\ Shifted(c, n) % 2 = (s * p) % 2
    BY <1>2, <1>5, <1>6, RemainderParity DEF Words
  <1>8. ASSUME c < ByteRange \div 2 PROVE Shifted(c, n) = c * Place[n + 1]
    <2>1. s = c
      BY <1>8 DEF s, SignExtended
    <2>2. c * p \in Nat /\ c * p < Word
      <3>1. c + 1 <= ByteRange /\ p <= Place[4] /\ Place[4] \in Nat
        <4>1. /\ Place[1] = 1 /\ Place[2] = ByteRange /\ Place[3] = Place[2] * ByteRange
              /\ Place[4] = Place[3] * ByteRange /\ \A i \in 1 .. 4 : Place[i] \in Nat
          BY Places
        <4>2. Place[2] <= Place[3] /\ Place[3] <= Place[4] /\ Place[1] <= Place[2]
          BY <1>1, <4>1, Products
        <4>3. p \in {Place[1], Place[2], Place[3], Place[4]}
          BY DEF p
        <4> QED
          BY <1>1, <4>1, <4>2, <4>3
      <3>2. Word = ByteRange * Place[4]
        BY Places
      <3>3. \A x \in Nat : c * p <= c * (p + x)
        BY <1>1, <1>4
      <3>4. c * p <= c * Place[4]
        <4>1. Place[4] - p \in Nat /\ p + (Place[4] - p) = Place[4]
          BY <1>4, <3>1
        <4> QED
          BY <3>3, <4>1
      <3>5. c * Place[4] + Place[4] <= Word
        <4>1. ByteRange - (c + 1) \in Nat
          BY <1>1, <3>1
        <4>2. (ByteRange - (c + 1)) * Place[4] \in Nat
          BY <3>1, <4>1, Products
        <4>3. (ByteRange - (c + 1)) * Place[4] = ByteRange * Place[4] - (c * Place[4] + Place[4])
          BY <1>1, <3>1, Differences
        <4> QED
          BY <1>1, <3>1, <3>2, <4>2, <4>3
      <3>6. c * p \in Nat /\ c * Place[4] \in Nat
        BY <1>1, <1>4, <3>1, Products
      <3> QED
        BY <1>2, <1>4, <3>1, <3>4, <3>5, <3>6
    <2>3. \A x \in Nat : x < Word => x % Word = x
      BY <1>2
    <2> QED
      BY <1>5, <2>1, <2>2, <2>3 DEF p
  <1> QED
    BY <1>6, <1>7, <1>8

\* A number of three bytes that are not negative.
LEMMA ThreeBytes ==
  ASSUME NEW d \in [1 .. 3 -> Byte],
         d[1] < ByteRange \div 2, d[2] < ByteRange \div 2, d[3] < ByteRange \div 2
  PROVE  read3Byte(d) = d[1] * Place[3] + d[2] * Place[2] + d[3]
  <1> DEFINE a == d[1]
             b == d[2]
             c == d[3]
             x == Shifted(a, 2)
             y == Shifted(b, 1)
             z == Shifted(c, 0)
  <1>0. a \in Byte /\ b \in Byte /\ c \in Byte
    OBVIOUS
  <1>1. ByteRange \in Nat /\ ByteRange >= 2 /\ a \in Nat /\ b \in Nat /\ c \in Nat /\ b < ByteRange /\ c < ByteRange
    BY <1>0, Http2Assumption DEF Byte
  <1>2. Place[1] = 1 /\ Place[2] = ByteRange /\ Place[3] = ByteRange * ByteRange /\ Place[3] \in Nat /\ Place[3] > 0
    BY Places
  <1>3. x \in Words /\ y \in Words /\ z \in Words
    BY <1>0, ShiftedIs
  <1>4. x = a * Place[3] /\ y = b * Place[2] /\ z = c * Place[1]
    BY <1>0, ShiftedIs
  <1>5. read3Byte(d) = BitOr(BitOr(x, y), z)
    BY DEF read3Byte
  <1> HIDE DEF x, y, z, a, b, c
  <1>6. y < Place[3] /\ z < Place[2] /\ z = c
    <2>1. (ByteRange - 1 - b) \in Nat
      BY <1>1
    <2>2. (ByteRange - 1 - b) * ByteRange \in Nat
      BY <1>1, <2>1, Products
    <2>3. (ByteRange - 1 - b) * ByteRange = ByteRange * ByteRange - ByteRange - b * ByteRange
      BY <1>1
    <2>4. b * ByteRange \in Nat /\ ByteRange * ByteRange \in Nat
      BY <1>1, Products
    <2> QED
      BY <1>1, <1>2, <1>4, <2>2, <2>3, <2>4
  <1>7. x % Place[3] = 0
    <2>1. (a * Place[3] + 0) % Place[3] = 0
      BY <1>1, <1>2, Remainder
    <2>2. a * Place[3] \in Nat
      BY <1>1, <1>2, Products
    <2> QED
      BY <1>4, <2>1, <2>2
  <1>8. BitOr(x, y) = x + y /\ BitOr(x, y) \in Words
    BY <1>3, <1>6, <1>7, OrAssumption
  <1>9. (x + y) % Place[2] = 0
    <2>1. a * ByteRange \in Nat /\ b \in Nat /\ a * ByteRange + b \in Nat
      BY <1>1, Products
    <2>2. x + y = (a * ByteRange + b) * ByteRange + 0
      BY <1>1, <1>2, <1>4
    <2> QED
      <3>1. 0 \in 0 .. (ByteRange - 1) /\ ByteRange > 0
        BY <1>1
      <3>2. ((a * ByteRange + b) * ByteRange + 0) % ByteRange = 0
        BY <1>1, <2>1, <3>1, Remainder
      <3> QED
        BY <1>2, <2>2, <3>2
  <1>10. BitOr(x + y, z) = x + y + z
    BY <1>3, <1>6, <1>8, <1>9, OrAssumption
  <1> QED
    BY <1>4, <1>5, <1>6, <1>8, <1>10 DEF a, b, c

\* Whether a stream is refused for its number being odd, its last byte says.
LEMMA StreamParity ==
  ASSUME NEW h \in FrameHeader
  PROVE  StreamId(h) \in Nat /\ StreamId(h) % 2 = h.stream[4] % 2
  <1> DEFINE d == h.stream
             x == Shifted(d[1], 3)
             y == Shifted(d[2], 2)
             z == Shifted(d[3], 1)
             w == Shifted(d[4], 0)
             v == read4Byte(d)
  <1>1. d[1] \in Byte /\ d[2] \in Byte /\ d[3] \in Byte /\ d[4] \in Byte
    BY DEF FrameHeader
  <1>2. /\ x \in Words /\ y \in Words /\ z \in Words /\ w \in Words
        /\ x % 2 = 0 /\ y % 2 = 0 /\ z % 2 = 0 /\ w % 2 = d[4] % 2
    BY <1>1, ShiftedIs
  <1>3. v = BitOr(BitOr(BitOr(x, y), z), w)
    BY DEF read4Byte
  <1>4. StreamId(h) = (v + Word \div 2) % Word
    BY DEF StreamId
  <1>5. d[4] \in Nat
    BY <1>1, Http2Assumption DEF Byte
  <1> HIDE DEF x, y, z, w, v, d
  <1>6. /\ BitOr(x, y) \in Words /\ BitOr(x, y) % 2 = 0
        /\ BitOr(BitOr(x, y), z) \in Words /\ BitOr(BitOr(x, y), z) % 2 = 0
    BY <1>2, OrAssumption
  <1>7. v \in Words /\ (v % 2 = 0 <=> w % 2 = 0)
    BY <1>2, <1>3, <1>6, OrAssumption
  <1>8. Word \in Nat /\ Word > 0 /\ Word % 2 = 0 /\ Word \div 2 \in Nat /\ (Word \div 2) % 2 = 0
    BY Places, EvenPlaces
  <1>9. v \in Nat /\ w \in Nat
    BY <1>2, <1>7, <1>8 DEF Words
  <1>10. v % 2 = w % 2
    BY <1>7, <1>9
  <1> DEFINE u == v + Word \div 2
  <1>11. u \in Nat /\ u % 2 = v % 2
    BY <1>8, <1>9
  <1> HIDE DEF u
  <1>12. StreamId(h) \in Nat /\ StreamId(h) % 2 = u % 2
    <2>1. StreamId(h) = u % Word
      BY <1>4 DEF u
    <2>2. u % Word \in 0 .. (Word - 1) /\ (u % Word) % 2 = u % 2
      BY <1>8, <1>11, RemainderParity
    <2> QED
      BY <1>8, <2>1, <2>2
  <1> QED
    BY <1>2, <1>10, <1>11, <1>12 DEF d

-----------------------------------------------------------------------------
(* The frames of an input: the function by which FramesTo is defined       *)
(* exists and there is only one.                                           *)

\* A set of numbers that is not empty has a least one.
LEMMA LeastNumber ==
  ASSUME NEW T \in SUBSET Nat, T # {}
  PROVE  \E m \in T : \A n \in T : m <= n
  <1> DEFINE R == OpToRel(<, Nat)
  <1>1. IsWellFoundedOn(R, Nat)
    BY NatLessThanWellFounded DEF OpToRel
  <1>2. \E m \in T : \A n \in T : ~(<<n, m>> \in R)
    <2> HIDE DEF R
    <2> QED
      BY <1>1, WFMin
  <1>3. PICK m \in T : \A n \in T : ~(n < m)
    BY <1>2 DEF OpToRel
  <1> QED
    BY <1>3

\* Induction over the numbers, for a set instead of a predicate.
LEMMA NumbersFromZero ==
  ASSUME NEW S, 0 \in S, \A n \in Nat : n \in S => n + 1 \in S
  PROVE  Nat \subseteq S
  <1> DEFINE T == {n \in Nat : n \notin S}
  <1> SUFFICES ASSUME T # {} PROVE FALSE
    OBVIOUS
  <1>1. PICK m \in T : \A n \in T : m <= n
    <2>1. T \subseteq Nat
      OBVIOUS
    <2> HIDE DEF T
    <2> QED
      BY <2>1, LeastNumber
  <1>2. m # 0 /\ m - 1 \in Nat /\ m - 1 < m
    BY <1>1
  <1>3. m - 1 \in S
    BY <1>1, <1>2
  <1> QED
    BY <1>1, <1>2, <1>3

\* The input is one that clients send.
InputOK == input \in Seq(Unit)

IsHeader(i) == input[i].kind = "header"

\* f gives the frames that begin in the first units, up to n of them.
Frames(f, n) ==
    \A i \in 0 .. n :
      f[i] = IF i = 0 THEN << >> ELSE IF IsHeader(i) THEN Append(f[i - 1], input[i].header) ELSE f[i - 1]

\* Units by their kind.
LEMMA Units ==
  ASSUME InputOK
  PROVE  /\ Len(input) \in Nat /\ DOMAIN input = 1 .. Len(input)
         /\ \A i \in 1 .. Len(input) :
              /\ IsHeader(i) => input[i].header \in FrameHeader
              /\ input[i].kind = "byte" => input[i].value \in Byte
  <1>1. Len(input) \in Nat /\ DOMAIN input = 1 .. Len(input) /\ \A i \in 1 .. Len(input) : input[i] \in Unit
    BY DEF InputOK
  <1>2. \A u \in Unit : (u.kind = "header" => u.header \in FrameHeader) /\ (u.kind = "byte" => u.value \in Byte)
    BY DEF Unit
  <1> QED
    BY <1>1, <1>2 DEF IsHeader

\* There is such a function.
LEMMA FramesExist ==
  ASSUME InputOK, NEW n \in Nat, n <= Len(input)
  PROVE  \E f \in [0 .. n -> Seq(FrameHeader)] : Frames(f, n)
  <1> DEFINE S == {m \in Nat : m <= Len(input) => \E f \in [0 .. m -> Seq(FrameHeader)] : Frames(f, m)}
  <1>1. 0 \in S
    <2> DEFINE f == [i \in 0 .. 0 |-> << >>]
    <2>1. Frames(f, 0)
      BY DEF Frames
    <2>2. f \in [0 .. 0 -> Seq(FrameHeader)]
      OBVIOUS
    <2> QED
      BY <2>1, <2>2
  <1>2. ASSUME NEW m \in Nat, m \in S PROVE m + 1 \in S
    <2> SUFFICES ASSUME m + 1 <= Len(input)
                 PROVE  \E f \in [0 .. (m + 1) -> Seq(FrameHeader)] : Frames(f, m + 1)
      OBVIOUS
    <2>1. PICK f \in [0 .. m -> Seq(FrameHeader)] : Frames(f, m)
      BY <1>2, Units
    <2> DEFINE last == IF IsHeader(m + 1) THEN Append(f[m], input[m + 1].header) ELSE f[m]
               g == [i \in 0 .. (m + 1) |-> IF i = m + 1 THEN last ELSE f[i]]
    <2>2. last \in Seq(FrameHeader)
      <3>1. f[m] \in Seq(FrameHeader)
        BY <2>1
      <3>2. IsHeader(m + 1) => input[m + 1].header \in FrameHeader
        BY Units
      <3> QED
        BY <3>1, <3>2
    <2>3. g \in [0 .. (m + 1) -> Seq(FrameHeader)]
      <3> HIDE DEF last
      <3> QED
        BY <2>1, <2>2
    <2>4. ASSUME NEW i \in 0 .. (m + 1)
          PROVE  g[i] = IF i = 0 THEN << >> ELSE IF IsHeader(i) THEN Append(g[i - 1], input[i].header) ELSE g[i - 1]
      <3>1. CASE i = m + 1
        BY <3>1
      <3>2. CASE i # m + 1
        <4>1. i \in 0 .. m /\ g[i] = f[i] /\ (i # 0 => g[i - 1] = f[i - 1])
          BY <3>2
        <4> HIDE DEF g
        <4> QED
          BY <2>1, <4>1 DEF Frames
      <3> QED
        BY <3>1, <3>2
    <2>5. Frames(g, m + 1)
      <3> HIDE DEF g
      <3> QED
        BY <2>4 DEF Frames
    <2> QED
      BY <2>3, <2>5
  <1> HIDE DEF S
  <1>3. Nat \subseteq S
    BY <1>1, <1>2, NumbersFromZero
  <1> QED
    BY <1>3 DEF S

\* The frames that begin in the first n units are sent one by one.
LEMMA FramesToIs ==
  ASSUME InputOK
  PROVE  /\ FramesTo(0) = << >>
         /\ \A i \in 1 .. Len(input) :
              FramesTo(i) = IF IsHeader(i) THEN Append(FramesTo(i - 1), input[i].header) ELSE FramesTo(i - 1)
         /\ \A i \in 0 .. Len(input) : FramesTo(i) \in Seq(FrameHeader)
  <1> DEFINE N == Len(input)
             G(f) == [i \in 0 .. N |-> IF i = 0 THEN << >>
                                       ELSE IF input[i].kind = "header" THEN Append(f[i - 1], input[i].header)
                                       ELSE f[i - 1]]
             s == CHOOSE f : f = G(f)
  <1>1. \A i : FramesTo(i) = s[i]
    BY DEF FramesTo
  <1>2. N \in Nat
    BY Units
  <1>3. PICK f \in [0 .. N -> Seq(FrameHeader)] : Frames(f, N)
    BY <1>2, FramesExist
  <1>4. f = G(f)
    BY <1>3 DEF Frames, IsHeader
  <1>5. s = G(s)
    BY <1>4
  <1> HIDE DEF s
  <1>6. Frames(s, N)
    BY <1>5 DEF Frames, IsHeader
  <1> DEFINE S == {i \in Nat : i <= N => s[i] = f[i]}
  <1>7. 0 \in S
    BY <1>2, <1>3, <1>6 DEF Frames
  <1>8. ASSUME NEW i \in Nat, i \in S PROVE i + 1 \in S
    <2> SUFFICES ASSUME i + 1 <= N PROVE s[i + 1] = f[i + 1]
      OBVIOUS
    <2>1. i + 1 \in 0 .. N /\ i + 1 # 0 /\ (i + 1) - 1 = i /\ s[i] = f[i]
      BY <1>2, <1>8
    <2>2. s[i + 1] = IF IsHeader(i + 1) THEN Append(s[i], input[i + 1].header) ELSE s[i]
      BY <1>6, <2>1 DEF Frames
    <2>3. f[i + 1] = IF IsHeader(i + 1) THEN Append(f[i], input[i + 1].header) ELSE f[i]
      BY <1>3, <2>1 DEF Frames
    <2> QED
      BY <2>1, <2>2, <2>3
  <1> HIDE DEF S
  <1>9. Nat \subseteq S
    BY <1>7, <1>8, NumbersFromZero
  <1>10. \A i \in 0 .. N : s[i] = f[i]
    BY <1>2, <1>9 DEF S
  <1>11. \A i \in 0 .. N : s[i] \in Seq(FrameHeader)
    BY <1>3, <1>10
  <1>12. s[0] = << >> /\ \A i \in 1 .. N : s[i] = IF IsHeader(i) THEN Append(s[i - 1], input[i].header) ELSE s[i - 1]
    BY <1>2, <1>6 DEF Frames
  <1> QED
    BY <1>1, <1>11, <1>12

\* The frames of the first i units come first among all of them.
LEMMA FramesGrow ==
  ASSUME InputOK, NEW i \in 0 .. Len(input)
  PROVE  \A j \in i .. Len(input) :
           /\ Len(FramesTo(i)) <= Len(FramesTo(j))
           /\ \A k \in 1 .. Len(FramesTo(i)) : FramesTo(j)[k] = FramesTo(i)[k]
  <1> DEFINE N == Len(input)
             P(j) == /\ Len(FramesTo(i)) <= Len(FramesTo(j))
                     /\ \A k \in 1 .. Len(FramesTo(i)) : FramesTo(j)[k] = FramesTo(i)[k]
             S == {m \in Nat : i + m <= N => P(i + m)}
  <1>0. N \in Nat /\ i \in Nat /\ \A j \in 0 .. N : FramesTo(j) \in Seq(FrameHeader) /\ Len(FramesTo(j)) \in Nat
    BY Units, FramesToIs
  <1>1. 0 \in S
    <2>1. P(i)
      BY <1>0
    <2> QED
      BY <1>0, <2>1
  <1>2. ASSUME NEW m \in Nat, m \in S PROVE m + 1 \in S
    <2> SUFFICES ASSUME i + (m + 1) <= N PROVE P(i + (m + 1))
      OBVIOUS
    <2> DEFINE j == i + m
    <2>1. j \in 0 .. N /\ j + 1 \in 1 .. N /\ i + (m + 1) = j + 1 /\ P(j)
      BY <1>0, <1>2
    <2> HIDE DEF j
    <2>2. FramesTo(j + 1) = IF IsHeader(j + 1) THEN Append(FramesTo(j), input[j + 1].header) ELSE FramesTo(j)
      <3>1. (j + 1) - 1 = j
        BY <1>0, <2>1
      <3> QED
        BY <2>1, <3>1, FramesToIs
    <2>3. FramesTo(j) \in Seq(FrameHeader) /\ FramesTo(i) \in Seq(FrameHeader)
      BY <1>0, <2>1
    <2>4. CASE ~IsHeader(j + 1)
      BY <2>1, <2>2, <2>4
    <2>5. CASE IsHeader(j + 1)
      <3>1. input[j + 1].header \in FrameHeader
        BY <2>1, <2>5, Units
      <3>2. /\ Len(FramesTo(j + 1)) = Len(FramesTo(j)) + 1
            /\ \A k \in 1 .. Len(FramesTo(j)) : FramesTo(j + 1)[k] = FramesTo(j)[k]
        BY <2>2, <2>3, <2>5, <3>1
      <3>3. /\ Len(FramesTo(i)) \in Nat /\ Len(FramesTo(j)) \in Nat /\ Len(FramesTo(i)) <= Len(FramesTo(j))
            /\ \A k \in 1 .. Len(FramesTo(i)) : k \in 1 .. Len(FramesTo(j)) /\ FramesTo(j)[k] = FramesTo(i)[k]
        BY <2>1, <2>3
      <3>4. P(j + 1)
        BY <3>2, <3>3
      <3> HIDE DEF P
      <3> QED
        BY <2>1, <3>4
    <2> QED
      BY <2>4, <2>5
  <1> HIDE DEF S, P
  <1>3. Nat \subseteq S
    BY <1>1, <1>2, NumbersFromZero
  <1>4. ASSUME NEW j \in i .. N PROVE P(j)
    <2>1. j - i \in Nat /\ i + (j - i) = j
      BY <1>0
    <2>2. j - i \in S
      BY <1>3, <2>1
    <2>3. i + (j - i) <= N => P(i + (j - i))
      BY <2>2 DEF S
    <2> QED
      BY <1>0, <2>1, <2>3
  <1> QED
    BY <1>4 DEF P

-----------------------------------------------------------------------------
(* The inductive invariant.                                                *)

\* Every frame that has been recorded has taken a unit.
Counted ==
    /\ Len(handled) < pos
    /\ pc = "checkSettings" => Len(handled) + 1 < pos
    /\ pc = "dispatch" /\ inStep => Len(handled) + 1 < pos

\* Only a discard behind stale indices leaves the data.
PastSlipped ==
    /\ indices = "past" => ~inStep /\ slipped /\ pc \notin {"start", "preface", "settings", "checkSettings"}
    /\ pc = "crashed" => indices = "past"

\* SettingsFirst, and what the reader has seen of the first frames where it is.
SettingsSeen ==
    /\ SettingsFirst
    /\ pc \in {"start", "preface"} => pos = 1
    /\ pc \in {"start", "preface", "settings", "checkSettings"} => handled = << >>
    /\ pc \in {"settings", "checkSettings"} => input[1].kind = "preface"
    /\ pc \in {"loop", "dispatch", "priority", "padding"} => handled # << >>

\* The frame whose header is at i is the one in progress.
FrameAt(i) == i \in DOMAIN input /\ IsHeader(i) /\ frameHeader = input[i].header

AtHeader == pos \in DOMAIN input => IsHeader(pos)

\* How far the reader is in a HEADERS frame at i.
InHeaders(i) ==
    /\ FrameAt(i) /\ IsRead(frameHeader)
    /\ handled = FramesTo(i)
    /\ padding = (IF Padded(frameHeader) THEN input[i + 1].value ELSE 0)
    /\ pos = i + 1 + (IF Padded(frameHeader) THEN 1 ELSE 0) + (IF pc = "padding" THEN PriorityBytes(frameHeader) ELSE 0)

\* The frames so far are the first ones sent, and the next one, if any, is refused.
Ended ==
    \/ handled = << >> \/ handled = ClientFrames
    \/ \E i \in DOMAIN input : handled = FramesTo(i - 1) /\ IsHeader(i) /\ input[i].header.type > MaxFrameType

\* Where the reader is in the stream of a client whose frames have no content,
\* as long as no padding was discarded behind stale indices.
InStep ==
    Contentless /\ ~slipped =>
        /\ inStep
        /\ pc = "settings" => pos = 2
        /\ pc = "checkSettings" => pos = 3 /\ FrameAt(2)
        /\ pc = "loop" => AtHeader /\ handled = FramesTo(pos - 1)
        /\ pc = "dispatch" => FrameAt(pos - 1) /\ handled = FramesTo(pos - 2)
        /\ pc \in {"priority", "padding"} => \E i \in DOMAIN input : InHeaders(i)
        /\ pc \in {"left", "done"} => Ended

IInv == TypeOK /\ Counted /\ PastSlipped /\ SettingsSeen /\ InStep

\* The input and the members, for the provers.
LEMMA Typed ==
  ASSUME TypeOK
  PROVE  /\ InputOK /\ Len(input) \in Nat /\ DOMAIN input = 1 .. Len(input)
         /\ InputEnd = Len(input) + 1 /\ pos \in 1 .. (Len(input) + 1)
         /\ handled \in Seq(FrameHeader) /\ Len(handled) \in Nat
         /\ frameHeader \in FrameHeader /\ frameHeader.type \in 0 .. 255
         /\ ByteRange \in Nat /\ padding \in 0 .. (ByteRange - 1)
  <1>1. InputOK
    BY Http2Assumption DEF TypeOK, InputOK
  <1>2. frameHeader \in FrameHeader /\ frameHeader.type \in 0 .. 255
    BY DEF TypeOK, FrameHeader
  <1>3. Len(input) \in Nat /\ DOMAIN input = 1 .. Len(input)
    BY <1>1, Units
  <1> QED
    BY <1>1, <1>2, <1>3, Http2Assumption DEF TypeOK, InputEnd, Byte

\* A read of the BufferedReader moves on, and not behind the stream's end.
LEMMA ReadMoves ==
  ASSUME TypeOK, NEW n \in Nat, n > 0, NEW kind
  PROVE  /\ MoveWhole(n, kind) => /\ pos' = pos + n /\ pos' \in 1 .. InputEnd /\ inStep' = inStep
                                 /\ \A i \in pos .. (pos + n - 1) : i \in DOMAIN input /\ input[i].kind = kind
         /\ MoveAskew(n, kind) => pos' \in 1 .. InputEnd /\ pos' >= pos /\ inStep' = FALSE /\ ~Whole(n, kind)
         /\ MoveAskew(n, "header") => pos' >= pos + 1
         /\ ReadFails(n, kind) => pos' \in 1 .. InputEnd /\ pos' >= pos /\ inStep' = inStep /\ ~Whole(n, kind)
  <1>1. Len(input) \in Nat /\ DOMAIN input = 1 .. Len(input) /\ InputEnd = Len(input) + 1 /\ pos \in 1 .. (Len(input) + 1)
    BY Typed
  <1>2. ASSUME MoveWhole(n, kind)
        PROVE  /\ pos' = pos + n /\ pos' \in 1 .. InputEnd /\ inStep' = inStep
               /\ \A i \in pos .. (pos + n - 1) : i \in DOMAIN input /\ input[i].kind = kind
    <2>1. pos' = pos + n /\ inStep' = inStep /\ \A i \in pos .. (pos + n - 1) : i \in DOMAIN input /\ input[i].kind = kind
      BY <1>2 DEF MoveWhole, Whole
    <2>2. pos + n - 1 \in pos .. (pos + n - 1)
      BY <1>1
    <2>3. pos + n - 1 \in 1 .. Len(input)
      BY <1>1, <2>1, <2>2
    <2> QED
      BY <1>1, <2>1, <2>3
  <1>3. ASSUME MoveAskew(n, kind)
        PROVE  pos' \in 1 .. InputEnd /\ pos' >= pos /\ inStep' = FALSE /\ ~Whole(n, kind)
    BY <1>1, <1>3 DEF MoveAskew
  <1>5. ASSUME MoveAskew(n, "header")
        PROVE  pos' >= pos + 1
    BY <1>1, <1>5 DEF MoveAskew
  <1>4. ASSUME ReadFails(n, kind)
        PROVE  pos' \in 1 .. InputEnd /\ pos' >= pos /\ inStep' = inStep /\ ~Whole(n, kind)
    BY <1>1, <1>4 DEF ReadFails
  <1> QED
    BY <1>2, <1>3, <1>4, <1>5

\* The header that a read yields.
LEMMA HeaderTyped ==
  ASSUME TypeOK, NEW next, readFrameHeader(next)
  PROVE  /\ frameHeader' \in FrameHeader
         /\ pos' \in 1 .. InputEnd /\ pos' >= pos
         /\ inStep' \in BOOLEAN
         /\ pc' # "left" => pc' = next
         /\ pc' # "left" /\ indices # "past" => pos' >= pos + 1
         /\ indices = "past" => inStep' = inStep
  <1>1. InputOK /\ DOMAIN input = 1 .. Len(input) /\ frameHeader \in FrameHeader /\ inStep \in BOOLEAN
        /\ Len(input) \in Nat /\ pos \in 1 .. (Len(input) + 1)
    BY Typed DEF TypeOK
  <1>0. 1 \in Nat /\ 1 > 0
    OBVIOUS
  <1>2. CASE ReadFails(1, "header") /\ pc' = "left" /\ UNCHANGED frameHeader
    <2>1. pos' \in 1 .. InputEnd /\ pos' >= pos /\ inStep' = inStep
      BY <1>0, <1>2, ReadMoves, Zenon
    <2>2. frameHeader' \in FrameHeader /\ inStep' \in BOOLEAN
      BY <1>1, <1>2, <2>1, Zenon
    <2>3. pc' = "left"
      BY <1>2
    <2> QED
      BY <2>1, <2>2, <2>3
  <1>3. CASE ReadWhole(1, "header") /\ frameHeader' = input[pos].header
    <2>1. /\ pos' = pos + 1 /\ pos' \in 1 .. InputEnd /\ inStep' = inStep
          /\ \A i \in pos .. (pos + 1 - 1) : i \in DOMAIN input /\ input[i].kind = "header"
      BY <1>0, <1>3, ReadMoves, Zenon DEF ReadWhole
    <2>2. pos \in DOMAIN input /\ IsHeader(pos)
      BY <1>1, <2>1 DEF IsHeader
    <2>3. frameHeader' \in FrameHeader
      BY <1>1, <1>3, <2>2, Units
    <2>4. pc' = "left" \/ pc' = next
      BY DEF readFrameHeader
    <2>5. inStep' \in BOOLEAN
      BY <1>1, <2>1, Zenon
    <2>6. pos' >= pos /\ pos' >= pos + 1
      BY <1>1, <2>1
    <2> QED
      BY <2>1, <2>3, <2>4, <2>5, <2>6, Zenon
  <1>4. CASE (ReadAskew(1, "header") \/ ReadPast) /\ frameHeader' \in StrayHeaders
    <2>1. frameHeader' \in FrameHeader
      BY <1>4, Http2Assumption
    <2>2. pc' = "left" \/ pc' = next
      BY DEF readFrameHeader
    <2>3. CASE ReadAskew(1, "header")
      <3>0. MoveAskew(1, "header")
        BY <2>3 DEF ReadAskew
      <3>1. pos' \in 1 .. InputEnd /\ pos' >= pos /\ pos' >= pos + 1 /\ inStep' = FALSE
        BY <1>0, <3>0, ReadMoves, Zenon
      <3>2. inStep' \in BOOLEAN /\ indices # "past"
        BY <2>3, <3>1, Zenon DEF ReadAskew, MoveAskew
      <3> QED
        BY <2>1, <2>2, <3>1, <3>2, Zenon
    <2>4. CASE ReadPast
      <3>1. indices = "past" /\ pos' = pos /\ inStep' = inStep
        BY <2>4 DEF ReadPast, readVars
      <3>2. pos \in 1 .. InputEnd /\ pos >= pos
        BY <1>1 DEF InputEnd
      <3> QED
        BY <1>1, <2>1, <2>2, <3>1, <3>2, Zenon
    <2> QED
      BY <1>4, <2>3, <2>4
  <1> QED
    BY <1>2, <1>3, <1>4 DEF readFrameHeader

-----------------------------------------------------------------------------
(* The types are kept, and frames are counted.                             *)

\* The connection before it runs satisfies the invariant.
LEMMA InitEstablishes == Init => IInv
  <1> SUFFICES ASSUME Init PROVE IInv
    OBVIOUS
  <1>1. InputOK
    BY Http2Assumption DEF Init, InputOK
  <1>2. Len(input) \in Nat /\ 0 \in Byte
    BY <1>1, Units, Http2Assumption DEF Byte
  <1>3. frameHeader \in FrameHeader
    <2>1. <<0, 0, 0>> \in [1 .. 3 -> Byte] /\ <<0, 0, 0, 0>> \in [1 .. 4 -> Byte]
      BY <1>2
    <2> QED
      BY <2>1 DEF Init, FrameHeader
  <1>4. handled = << >> /\ handled \in Seq(FrameHeader) /\ Len(handled) = 0
    BY DEF Init
  <1>5. TypeOK
    <2>1. inStep \in BOOLEAN /\ open \in BOOLEAN /\ slipped \in BOOLEAN
      BY Zenon DEF Init
    <2>2. indices \in {"zero", "stale", "some", "past"}
      BY DEF Init
    <2> QED
      BY <1>2, <1>3, <1>4, <2>1, <2>2 DEF Init, TypeOK, InputEnd
  <1>6. Counted /\ PastSlipped /\ SettingsSeen /\ InStep
    BY <1>4 DEF Init, Counted, PastSlipped, SettingsSeen, SettingsFirst, InStep
  <1> QED
    BY <1>5, <1>6 DEF IInv

\* A frame that is dispatched.
LEMMA Dispatched ==
  ASSUME TypeOK
  PROVE  /\ Append(handled, frameHeader) \in Seq(FrameHeader)
         /\ Len(Append(handled, frameHeader)) = Len(handled) + 1
         /\ Append(handled, frameHeader) # << >>
         /\ Append(handled, frameHeader)[Len(handled) + 1] = frameHeader
         /\ \A i \in 1 .. Len(handled) : Append(handled, frameHeader)[i] = handled[i]
  <1>1. handled \in Seq(FrameHeader) /\ frameHeader \in FrameHeader
    BY Typed
  <1>2. /\ Append(handled, frameHeader) \in Seq(FrameHeader)
        /\ Len(Append(handled, frameHeader)) = Len(handled) + 1
        /\ Append(handled, frameHeader)[Len(handled) + 1] = frameHeader
        /\ \A i \in 1 .. Len(handled) : Append(handled, frameHeader)[i] = handled[i]
    BY <1>1
  <1>3. Append(handled, frameHeader) # << >>
    <2>1. Len(<< >>) = 0 /\ Len(handled) \in Nat
      BY <1>1
    <2> QED
      BY <1>2, <2>1
  <1> QED
    BY <1>2, <1>3

\* A frame that is dispatched is recorded when it is in step.
LEMMA DispatchCounted ==
  ASSUME TypeOK, Counted, pc = "dispatch", Dispatch
  PROVE  handled' \in Seq(FrameHeader) /\ Len(handled') \in Nat /\ Len(handled') < pos
  <1>1. handled \in Seq(FrameHeader) /\ Len(handled) \in Nat /\ pos \in Nat
    BY Typed
  <1>2. CASE inStep
    <2>1. handled' = Append(handled, frameHeader) /\ Len(handled) + 1 < pos
      BY <1>2 DEF Dispatch, Counted
    <2> QED
      BY <1>1, <2>1, Dispatched
  <1>3. CASE ~inStep
    BY <1>1, <1>3 DEF Dispatch, Counted
  <1> QED
    BY <1>2, <1>3

\* The members with two values keep to them, and so does the history.
LEMMA FlagsKept ==
  ASSUME TypeOK, Next
  PROVE  inStep' \in BOOLEAN /\ open' \in BOOLEAN /\ slipped' \in BOOLEAN
  <1> USE DEF TypeOK
  <1>1. CASE Start
    BY <1>1, Zenon DEF Start, readVars
  <1>2. CASE checkPreface
    BY <1>2, Zenon DEF checkPreface, ReadWhole, MoveWhole, ReadFails
  <1>3. CASE ReadSettingsHeader
    BY <1>3, Zenon DEF ReadSettingsHeader, readFrameHeader, ReadWhole, MoveWhole, ReadFails, ReadAskew, MoveAskew, ReadPast, readVars
  <1>4. CASE FirstSettings
    BY <1>4, Zenon DEF FirstSettings, readVars
  <1>5. CASE ReadLoopHeader
    BY <1>5, Zenon DEF ReadLoopHeader, readFrameHeader, ReadWhole, MoveWhole, ReadFails, ReadAskew, MoveAskew, ReadPast, readVars
  <1>6. CASE handleOtherFrames
    BY <1>6, Zenon DEF handleOtherFrames, readVars
  <1>7. CASE handleHeadersFrame
    BY <1>7, Zenon DEF handleHeadersFrame, readPadding, readFixedLength, ReadWhole, MoveWhole, ReadFails, ReadAskew, MoveAskew,
                       ReadPast, readVars
  <1>8. CASE ReadPriority
    BY <1>8, Zenon DEF ReadPriority, readFixedLength, ReadWhole, MoveWhole, ReadFails, ReadAskew, MoveAskew, ReadPast, readVars
  <1>9. CASE DiscardPadding
    BY <1>9, Zenon DEF DiscardPadding, discard, DiscardBuffered, DiscardStale, MoveWhole, ReadFails, MoveAskew, ReadPast, readVars
  <1>10. CASE run \/ Crash
    BY <1>10, Zenon DEF run, Crash, readVars
  <1>11. CASE writeTask
    BY <1>11, Zenon DEF writeTask, readVars
  <1> QED
    BY <1>1, <1>2, <1>3, <1>4, <1>5, <1>6, <1>7, <1>8, <1>9, <1>10, <1>11, Zenon DEF Next, Reader

\* The reader's indices keep to the four cases, and only a discard behind stale
\* ones leaves the data.
LEMMA IndicesKept ==
  ASSUME TypeOK, PastSlipped, Next
  PROVE  indices' \in {"zero", "stale", "some", "past"} /\ PastSlipped'
  <1> DEFINE Kinds == {"zero", "stale", "some", "past"}
             Early == {"start", "preface", "settings", "checkSettings"}
  <1>0. indices \in Kinds
    BY DEF TypeOK
  <1>1. \A n, kind : ReadWhole(n, kind) \/ ReadAskew(n, kind) \/ ReadFails(n, kind) => indices' \in Kinds /\ indices' # "past"
    BY DEF ReadWhole, ReadAskew, ReadFails, Buffered
  <1>9. pc' = "crashed" => indices = "past" /\ UNCHANGED readVars
    BY DEF PastSlipped, Next, Reader, Start, checkPreface, ReadSettingsHeader, readFrameHeader, FirstSettings, ReadLoopHeader,
           MaxFrameType, handleOtherFrames, handleHeadersFrame, readPadding, ReadPriority, DiscardPadding, run, Crash, writeTask
  <1>2. ASSUME UNCHANGED <<readVars, slipped>>, pc' \notin Early \/ pc \in Early PROVE indices' \in Kinds /\ PastSlipped'
    BY <1>0, <1>2, <1>9 DEF PastSlipped, readVars
  <1>3. ASSUME indices' \in Kinds, indices' # "past" PROVE indices' \in Kinds /\ PastSlipped'
    BY <1>3, <1>9 DEF PastSlipped, readVars
  <1>4. CASE Start \/ FirstSettings \/ handleOtherFrames \/ run \/ Crash \/ writeTask
    <2>1. UNCHANGED <<readVars, slipped>> /\ (pc' \notin Early \/ pc \in Early)
      BY <1>4 DEF Start, FirstSettings, handleOtherFrames, run, Crash, writeTask
    <2> QED
      BY <1>2, <2>1
  <1>5. CASE checkPreface
    BY <1>1, <1>3, <1>5 DEF checkPreface
  <1>6. CASE ReadSettingsHeader \/ ReadLoopHeader
    <2>1. UNCHANGED slipped /\ \E next \in {"checkSettings", "dispatch"} :
             readFrameHeader(next) /\ (next = "checkSettings" => pc \in Early)
      BY <1>6 DEF ReadSettingsHeader, ReadLoopHeader
    <2>2. PICK next \in {"checkSettings", "dispatch"} : readFrameHeader(next) /\ (next = "checkSettings" => pc \in Early)
      BY <2>1
    <2>3. CASE ReadPast
      <3>1. pc' \in {"left", next}
        BY <2>2 DEF readFrameHeader
      <3> QED
        BY <1>2, <2>1, <2>2, <2>3, <3>1 DEF ReadPast
    <2>4. CASE ReadWhole(1, "header") \/ ReadAskew(1, "header") \/ ReadFails(1, "header")
      BY <1>1, <1>3, <2>4
    <2> QED
      BY <2>2, <2>3, <2>4 DEF readFrameHeader
  <1>7. CASE handleHeadersFrame \/ ReadPriority
    <2>1. UNCHANGED slipped /\ pc' \in {"loop", "priority", "padding"}
      BY <1>7 DEF handleHeadersFrame, ReadPriority, readPadding
    <2>2. \/ UNCHANGED readVars
          \/ \E n \in Nat : ReadWhole(n, "byte") \/ ReadAskew(n, "byte") \/ ReadFails(n, "byte")
      BY <1>7 DEF handleHeadersFrame, ReadPriority, readPadding, readFixedLength, PriorityLength, ReadPast, readVars
    <2>3. CASE UNCHANGED readVars
      BY <1>2, <2>1, <2>3
    <2>4. CASE \E n \in Nat : ReadWhole(n, "byte") \/ ReadAskew(n, "byte") \/ ReadFails(n, "byte")
      BY <1>1, <1>3, <2>4
    <2> QED
      BY <2>2, <2>3, <2>4
  <1>8. CASE DiscardPadding
    <2>1. pc' = "loop"
      BY <1>8 DEF DiscardPadding
    <2>2. CASE UNCHANGED <<readVars, slipped>>
      BY <1>2, <2>1, <2>2
    <2>3. CASE DiscardBuffered(padding)
      <3>1. indices' \in {"zero", "some"}
        BY <2>3 DEF DiscardBuffered, ReadFails
      <3> QED
        BY <1>3, <3>1
    <2>4. CASE DiscardStale(padding)
      <3>1. indices' \in Kinds /\ inStep' = FALSE /\ slipped' = TRUE
        BY <2>4 DEF DiscardStale
      <3> QED
        BY <2>1, <3>1 DEF PastSlipped
    <2> QED
      BY <1>8, <2>2, <2>3, <2>4 DEF DiscardPadding, discard, ReadPast
  <1> QED
    BY <1>4, <1>5, <1>6, <1>7, <1>8 DEF Next, Reader

\* What the pad length is, and where the reader is behind it.
LEMMA PaddingRead ==
  ASSUME TypeOK, PastSlipped, readPadding
  PROVE  /\ padding' \in Byte /\ pos' \in 1 .. InputEnd /\ pos' >= pos
         /\ pc' \in {"loop", "priority"}
  <1>1. /\ padding \in Byte /\ pos \in 1 .. InputEnd /\ InputOK /\ 0 \in Byte /\ DOMAIN input = 1 .. Len(input)
        /\ Len(input) \in Nat /\ InputEnd = Len(input) + 1
    BY Typed, Http2Assumption DEF TypeOK, Byte
  <1>0. 1 \in Nat /\ 1 > 0 /\ pos \in Nat
    BY <1>1
  <1>2. CASE ~getFrameFlags(PADDED) /\ padding' = 0 /\ pc' = "priority" /\ UNCHANGED readVars
    BY <1>1, <1>2 DEF readVars
  <1>3. CASE getFrameFlags(PADDED) /\ ReadFails(1, "byte") /\ pc' = "loop" /\ UNCHANGED padding
    <2>1. pos' \in 1 .. InputEnd /\ pos' >= pos
      BY <1>0, <1>3, ReadMoves, Zenon
    <2> QED
      BY <1>1, <1>3, <2>1
  <1>4. CASE /\ getFrameFlags(PADDED) /\ readFixedLength(1)
             /\ padding' \in IF inStep' THEN {input[pos].value} ELSE Byte
             /\ pc' = "priority"
    <2>0. input[pos].value \in Byte \/ ~inStep' => padding' \in Byte
      BY <1>4
    <2>1. CASE ReadWhole(1, "byte")
      <3>1. /\ pos' = pos + 1 /\ pos' \in 1 .. InputEnd
            /\ \A i \in pos .. (pos + 1 - 1) : i \in DOMAIN input /\ input[i].kind = "byte"
        BY <1>0, <2>1, ReadMoves, Zenon DEF ReadWhole
      <3>2. pos \in 1 .. Len(input) /\ input[pos].kind = "byte"
        BY <1>0, <1>1, <3>1
      <3>3. input[pos].value \in Byte
        BY <1>1, <3>2, Units
      <3>4. padding' \in Byte
        BY <1>4, <3>3, Zenon
      <3> QED
        BY <1>0, <1>4, <3>1, <3>4
    <2>2. CASE ReadAskew(1, "byte")
      <3>1. pos' \in 1 .. InputEnd /\ pos' >= pos /\ inStep' = FALSE
        BY <1>0, <2>2, ReadMoves, Zenon DEF ReadAskew
      <3>2. padding' \in Byte
        BY <2>0, <3>1
      <3> QED
        BY <1>4, <3>1, <3>2
    <2>3. CASE ReadPast
      <3>1. pos' = pos /\ inStep' = inStep /\ ~inStep
        BY <2>3 DEF ReadPast, readVars, PastSlipped
      <3>2. padding' \in Byte
        BY <2>0, <3>1
      <3> QED
        BY <1>1, <1>4, <3>1, <3>2
    <2> QED
      BY <1>4, <2>1, <2>2, <2>3 DEF readFixedLength
  <1> QED
    BY <1>2, <1>3, <1>4 DEF readPadding

\* A read of bytes, or one that fails, does not move back.
LEMMA BytesMove ==
  ASSUME TypeOK, NEW n \in Nat, n > 0,
         ReadFails(n, "byte") \/ MoveWhole(n, "byte") \/ MoveAskew(n, "byte") \/ ReadPast
  PROVE  pos' \in 1 .. InputEnd /\ pos' >= pos
  <1>0. pos \in Nat /\ InputEnd \in Nat /\ pos \in 1 .. InputEnd
    BY Typed
  <1>1. CASE ReadFails(n, "byte") \/ MoveAskew(n, "byte")
    BY <1>1, ReadMoves
  <1>2. CASE MoveWhole(n, "byte")
    <2>1. pos' = pos + n /\ pos' \in 1 .. InputEnd
      BY <1>2, ReadMoves
    <2> QED
      BY <1>0, <2>1
  <1>3. CASE ReadPast
    BY <1>0, <1>3 DEF ReadPast, readVars
  <1> QED
    BY <1>1, <1>2, <1>3

\* So does a discard.
LEMMA DiscardMoves ==
  ASSUME TypeOK, padding # 0, discard(padding)
  PROVE  pos' \in 1 .. InputEnd /\ pos' >= pos
  <1>0. pos \in Nat /\ InputEnd \in Nat /\ pos \in 1 .. InputEnd /\ padding \in Nat /\ padding > 0
    BY Typed
  <1>1. CASE DiscardStale(padding)
    <2>1. pos' \in pos .. InputEnd
      BY <1>0, <1>1 DEF DiscardStale
    <2> QED
      BY <1>0, <2>1
  <1>2. CASE ReadFails(padding, "byte") \/ MoveWhole(padding, "byte") \/ MoveAskew(padding, "byte") \/ ReadPast
    BY <1>0, <1>2, BytesMove
  <1> QED
    BY <1>1, <1>2 DEF discard, DiscardBuffered

\* Every action keeps the variables in their types.
LEMMA TypeKept ==
  ASSUME IInv, Next
  PROVE  TypeOK' /\ Counted' /\ PastSlipped'
  <1>0. TypeOK /\ Counted /\ PastSlipped
    BY DEF IInv
  <1>1. inStep' \in BOOLEAN /\ open' \in BOOLEAN /\ slipped' \in BOOLEAN
    BY <1>0, FlagsKept
  <1>10. indices' \in {"zero", "stale", "some", "past"} /\ PastSlipped'
    BY <1>0, IndicesKept
  <1>2. /\ InputOK /\ Len(input) \in Nat /\ DOMAIN input = 1 .. Len(input)
        /\ InputEnd = Len(input) + 1 /\ pos \in 1 .. (Len(input) + 1)
        /\ handled \in Seq(FrameHeader) /\ Len(handled) \in Nat
        /\ frameHeader \in FrameHeader /\ padding \in 0 .. (ByteRange - 1) /\ ByteRange \in Nat
    BY <1>0, Typed
  <1>3. input' = input
    BY DEF Next, Reader, Start, checkPreface, ReadSettingsHeader, FirstSettings, ReadLoopHeader, handleOtherFrames,
           handleHeadersFrame, ReadPriority, DiscardPadding, run, Crash, writeTask
  <1>4. InputEnd' = InputEnd /\ Len(input') = Len(input)
    BY <1>3 DEF InputEnd
  <1>5. writer' \in {"none", "queued", "written", "failed"}
    BY <1>0 DEF TypeOK, Next, Reader, Start, checkPreface, ReadSettingsHeader, FirstSettings, ReadLoopHeader, handleOtherFrames,
           handleHeadersFrame, ReadPriority, DiscardPadding, run, Crash, writeTask
  <1> DEFINE Pcs == {"start", "preface", "settings", "checkSettings", "loop", "dispatch", "priority", "padding", "left", "done", "crashed"}
             Rest == /\ pos' \in 1 .. InputEnd /\ pc' \in Pcs
                     /\ padding' \in Byte
                     /\ frameHeader' \in FrameHeader
                     /\ handled' \in Seq(FrameHeader) /\ Len(handled') < pos'
                     /\ pc' = "checkSettings" => Len(handled') + 1 < pos'
                     /\ pc' = "dispatch" /\ inStep' => Len(handled') + 1 < pos'
  <1>6. Rest
    <2>0. padding \in Byte /\ pc \in Pcs /\ Len(handled) < pos /\ pos \in 1 .. InputEnd /\ 1 \in Nat /\ 1 > 0 /\ pos \in Nat
      BY <1>0, <1>2 DEF TypeOK, Counted
    <2>1. CASE Start
      BY <1>2, <2>0, <2>1 DEF Start, readVars
    <2>2. CASE checkPreface
      <3>1. pos' \in 1 .. InputEnd /\ pos' >= pos
        <4>1. CASE ReadWhole(1, "preface")
          <5>1. pos' \in 1 .. InputEnd /\ pos' = pos + 1
            BY <1>0, <2>0, <4>1, ReadMoves, Zenon DEF ReadWhole
          <5> QED
            BY <1>2, <5>1
        <4>2. CASE ReadFails(1, "preface")
          BY <1>0, <2>0, <4>2, ReadMoves, Zenon
        <4> QED
          BY <2>2, <4>1, <4>2 DEF checkPreface
      <3>2. pc' \in {"settings", "left"} /\ handled' = handled /\ frameHeader' = frameHeader /\ padding' = padding
        BY <2>2 DEF checkPreface
      <3> QED
        BY <1>2, <2>0, <3>1, <3>2
    <2>3. CASE ReadSettingsHeader \/ ReadLoopHeader
      <3>1. PICK next \in {"checkSettings", "dispatch"} : readFrameHeader(next) /\ (next = "checkSettings" => pc = "settings")
        BY <2>3 DEF ReadSettingsHeader, ReadLoopHeader
      <3>2. /\ frameHeader' \in FrameHeader
            /\ pos' \in 1 .. InputEnd /\ pos' >= pos
            /\ pc' # "left" => pc' = next
            /\ pc' # "left" /\ indices # "past" => pos' >= pos + 1
            /\ indices = "past" => inStep' = inStep
        BY <1>0, <3>1, HeaderTyped
      <3>4. indices = "past" => next = "dispatch" /\ ~inStep'
        BY <1>0, <3>1, <3>2 DEF PastSlipped
      <3>3. handled' = handled /\ padding' = padding
        BY <2>3 DEF ReadSettingsHeader, ReadLoopHeader
      <3> QED
        BY <1>2, <2>0, <3>2, <3>3, <3>4
    <2>4. CASE FirstSettings
      <3>1. /\ pc = "checkSettings" /\ pos' = pos /\ pc' \in {"loop", "left"}
            /\ handled' \in {handled, Append(handled, frameHeader)} /\ frameHeader' = frameHeader /\ padding' = padding
        BY <2>4 DEF FirstSettings, readVars
      <3>2. Len(handled) + 1 < pos
        BY <1>0, <3>1 DEF Counted
      <3>3. handled' \in Seq(FrameHeader) /\ Len(handled') <= Len(handled) + 1
        BY <1>0, <1>2, <3>1, Dispatched
      <3>4. Len(handled') \in Nat
        BY <3>3
      <3> QED
        BY <1>2, <2>0, <3>1, <3>2, <3>3, <3>4
    <2>5. CASE handleOtherFrames
      <3>1. /\ pc = "dispatch" /\ pos' = pos /\ pc' = "loop"
            /\ Dispatch /\ frameHeader' = frameHeader /\ padding' = padding
        BY <2>5 DEF handleOtherFrames, readVars
      <3>2. handled' \in Seq(FrameHeader) /\ Len(handled') \in Nat /\ Len(handled') < pos
        BY <1>0, <3>1, DispatchCounted
      <3> QED
        BY <1>2, <2>0, <3>1, <3>2
    <2>6. CASE handleHeadersFrame
      <3>1. pc = "dispatch" /\ Dispatch /\ frameHeader' = frameHeader
        BY <2>6 DEF handleHeadersFrame
      <3>2. handled' \in Seq(FrameHeader) /\ Len(handled') \in Nat /\ Len(handled') < pos
        BY <1>0, <3>1, DispatchCounted
      <3>4. /\ padding' \in Byte /\ pos' \in 1 .. InputEnd /\ pos' >= pos
            /\ pc' \in {"loop", "priority"}
        <4>1. CASE readPadding
          BY <1>0, <4>1, PaddingRead
        <4>2. CASE pc' = "loop" /\ UNCHANGED <<readVars, padding>>
          BY <1>2, <2>0, <4>2 DEF readVars
        <4> QED
          BY <2>6, <4>1, <4>2 DEF handleHeadersFrame
      <3> QED
        BY <1>2, <2>0, <3>1, <3>2, <3>4
    <2>7. CASE ReadPriority
      <3>1. handled' = handled /\ frameHeader' = frameHeader /\ padding' = padding /\ pc' \in {"padding", "loop"}
        BY <2>7 DEF ReadPriority
      <3>2. pos' \in 1 .. InputEnd /\ pos' >= pos
        <4>1. PriorityLength \in Nat /\ PriorityLength > 0
          BY DEF PriorityLength
        <4>2. CASE UNCHANGED readVars
          BY <2>0, <4>2 DEF readVars
        <4>3. CASE ReadFails(PriorityLength, "byte") \/ readFixedLength(PriorityLength)
          BY <1>0, <4>1, <4>3, BytesMove, Zenon DEF readFixedLength, ReadWhole, ReadAskew
        <4> QED
          BY <2>7, <4>2, <4>3 DEF ReadPriority
      <3> QED
        BY <1>2, <2>0, <3>1, <3>2
    <2>8. CASE DiscardPadding
      <3>1. handled' = handled /\ frameHeader' = frameHeader /\ padding' = padding /\ pc' = "loop"
        BY <2>8 DEF DiscardPadding
      <3>2. pos' \in 1 .. InputEnd /\ pos' >= pos
        <4>2. CASE UNCHANGED readVars
          BY <2>0, <4>2 DEF readVars
        <4>3. CASE padding # 0 /\ discard(padding)
          BY <1>0, <4>3, DiscardMoves
        <4> QED
          BY <2>8, <4>2, <4>3 DEF DiscardPadding
      <3> QED
        BY <1>2, <2>0, <3>1, <3>2
    <2>9. CASE run \/ Crash \/ writeTask
      <3>1. /\ handled' = handled /\ frameHeader' = frameHeader /\ padding' = padding /\ pos' = pos /\ inStep' = inStep
            /\ pc' = pc \/ pc' = "done" \/ pc' = "crashed"
        BY <2>9 DEF run, Crash, writeTask, readVars
      <3> QED
        BY <1>0, <1>2, <2>0, <3>1 DEF Counted
    <2> QED
      BY <2>1, <2>2, <2>3, <2>4, <2>5, <2>6, <2>7, <2>8, <2>9 DEF Next, Reader
  <1>7. Counted'
    BY <1>6 DEF Counted
  <1>8. Len(handled') <= Len(input)
    <2>1. Len(handled') \in Nat /\ pos' \in 1 .. (Len(input) + 1) /\ Len(handled') < pos'
      BY <1>2, <1>6
    <2> QED
      BY <1>2, <2>1
  <1>9. TypeOK'
    <2>1. input' \in Inputs
      BY <1>0, <1>3 DEF TypeOK
    <2> HIDE DEF Pcs
    <2>2. pc' \in Pcs /\ pos' \in 1 .. InputEnd' /\ Len(handled') <= Len(input')
      BY <1>4, <1>6, <1>8
    <2> QED
      BY <1>1, <1>5, <1>6, <1>10, <2>1, <2>2 DEF TypeOK, Pcs
  <1> QED
    BY <1>7, <1>9, <1>10

-----------------------------------------------------------------------------
(* The first frames.                                                       *)

\* No action dispatches a frame before the preface and the first SETTINGS.
LEMMA SettingsKept ==
  ASSUME IInv, Next
  PROVE  SettingsSeen'
  <1>0. TypeOK /\ SettingsSeen
    BY DEF IInv
  <1>1. /\ handled \in Seq(FrameHeader) /\ Len(handled) \in Nat /\ pos \in Nat
        /\ handled # << >> => Len(handled) >= 1
    <2>1. handled \in Seq(FrameHeader) /\ Len(handled) \in Nat /\ pos \in Nat
      BY <1>0, Typed
    <2> QED
      BY <2>1
  <1>2. input' = input
    BY DEF Next, Reader, Start, checkPreface, ReadSettingsHeader, FirstSettings, ReadLoopHeader, handleOtherFrames,
           handleHeadersFrame, ReadPriority, DiscardPadding, run, Crash, writeTask
  <1>3. CASE Start
    BY <1>0, <1>3 DEF Start, SettingsSeen, SettingsFirst, readVars
  <1>4. CASE checkPreface
    <2>1. ASSUME pc' = "settings" PROVE input[1].kind = "preface"
      <3>1. pc = "preface" /\ ReadWhole(1, "preface")
        BY <1>4, <2>1 DEF checkPreface
      <3>2. pos = 1 /\ \A i \in pos .. (pos + 1 - 1) : input[i].kind = "preface"
        BY <1>0, <3>1 DEF SettingsSeen, ReadWhole, MoveWhole, Whole
      <3> QED
        BY <3>2
    <2>2. pc' \in {"settings", "left"} /\ handled' = handled /\ handled = << >>
      BY <1>0, <1>4 DEF checkPreface, SettingsSeen
    <2> QED
      BY <1>2, <2>1, <2>2 DEF SettingsSeen, SettingsFirst
  <1>5. CASE ReadSettingsHeader
    <2>1. handled' = handled /\ handled = << >> /\ pc' \in {"checkSettings", "left"} /\ input[1].kind = "preface"
      BY <1>0, <1>5 DEF ReadSettingsHeader, readFrameHeader, SettingsSeen
    <2> QED
      BY <1>2, <2>1 DEF SettingsSeen, SettingsFirst
  <1>6. CASE FirstSettings
    <2>1. pc = "checkSettings" /\ handled = << >> /\ input[1].kind = "preface" /\ Len(handled) = 0
      BY <1>0, <1>6 DEF FirstSettings, SettingsSeen
    <2>2. CASE /\ frameHeader.type = SETTINGS /\ handleSettingsFrame(FALSE)
               /\ pc' = "loop" /\ handled' = Append(handled, frameHeader)
      <3>1. handled' # << >> /\ handled'[1] = frameHeader
        BY <1>0, <2>1, <2>2, Dispatched
      <3>2. frameHeader.type = SETTINGS /\ frameHeader.flags = 0 /\ frameHeader.stream = <<0, 0, 0, 0>>
        BY <2>2 DEF handleSettingsFrame
      <3> QED
        BY <1>2, <2>1, <2>2, <3>1, <3>2 DEF SettingsSeen, SettingsFirst
    <2>3. CASE pc' = "left" /\ UNCHANGED handled
      BY <1>2, <2>1, <2>3 DEF SettingsSeen, SettingsFirst
    <2> QED
      BY <1>6, <2>2, <2>3 DEF FirstSettings
  <1>7. CASE ReadLoopHeader
    <2>1. pc = "loop" /\ handled' = handled /\ pc' \in {"dispatch", "left"}
      BY <1>7 DEF ReadLoopHeader, readFrameHeader
    <2> QED
      BY <1>0, <1>2, <2>1 DEF SettingsSeen, SettingsFirst
  <1>8. CASE handleOtherFrames \/ handleHeadersFrame
    <2>1. pc = "dispatch" /\ handled' \in {handled, Append(handled, frameHeader)} /\ pc' \in {"loop", "priority"}
      BY <1>8 DEF handleOtherFrames, handleHeadersFrame, readPadding, Dispatch
    <2>2. handled # << >>
      BY <1>0, <2>1 DEF SettingsSeen
    <2>3. handled' # << >> /\ handled'[1] = handled[1]
      <3>1. 1 \in 1 .. Len(handled)
        BY <1>1, <2>2
      <3> QED
        BY <1>0, <2>1, <3>1, Dispatched
    <2> QED
      BY <1>0, <1>2, <2>1, <2>2, <2>3 DEF SettingsSeen, SettingsFirst
  <1>9. CASE ReadPriority \/ DiscardPadding
    <2>1. pc \in {"priority", "padding"} /\ handled' = handled /\ pc' \in {"padding", "loop"}
      BY <1>9 DEF ReadPriority, DiscardPadding
    <2> QED
      BY <1>0, <1>2, <2>1 DEF SettingsSeen, SettingsFirst
  <1>10. CASE run \/ Crash
    <2>1. handled' = handled /\ pc' \in {"done", "crashed"}
      BY <1>10 DEF run, Crash
    <2> QED
      BY <1>0, <1>2, <2>1 DEF SettingsSeen, SettingsFirst
  <1>11. CASE writeTask
    <2>1. handled' = handled /\ pc' = pc /\ pos' = pos
      BY <1>11 DEF writeTask, readVars
    <2> QED
      BY <1>0, <1>2, <2>1 DEF SettingsSeen, SettingsFirst
  <1> QED
    BY <1>3, <1>4, <1>5, <1>6, <1>7, <1>8, <1>9, <1>10, <1>11 DEF Next, Reader

-----------------------------------------------------------------------------
(* In step with the client.                                                *)

\* Units that are no headers begin no frames.
LEMMA NoFramesBetween ==
  ASSUME InputOK, NEW i \in 0 .. Len(input), NEW j \in i .. Len(input),
         \A k \in (i + 1) .. j : ~IsHeader(k)
  PROVE  FramesTo(j) = FramesTo(i)
  <1> DEFINE S == {m \in Nat : i + m <= j => FramesTo(i + m) = FramesTo(i)}
  <1>0. i \in Nat /\ j \in Nat /\ Len(input) \in Nat /\ i <= j /\ j <= Len(input)
    BY Units
  <1>1. 0 \in S
    BY <1>0
  <1>2. ASSUME NEW m \in Nat, m \in S PROVE m + 1 \in S
    <2> SUFFICES ASSUME i + (m + 1) <= j PROVE FramesTo(i + (m + 1)) = FramesTo(i)
      OBVIOUS
    <2>1. /\ FramesTo(i + m) = FramesTo(i) /\ i + (m + 1) \in 1 .. Len(input) /\ ~IsHeader(i + (m + 1))
          /\ (i + (m + 1)) - 1 = i + m
      BY <1>0, <1>2
    <2> QED
      BY <2>1, FramesToIs
  <1> HIDE DEF S
  <1>3. Nat \subseteq S
    BY <1>1, <1>2, NumbersFromZero
  <1>4. j - i \in S /\ i + (j - i) = j /\ i + (j - i) <= j
    BY <1>0, <1>3
  <1> QED
    BY <1>4 DEF S

\* The frame at i is one more frame.
LEMMA OneMoreFrame ==
  ASSUME InputOK, NEW i \in 1 .. Len(input), IsHeader(i)
  PROVE  FramesTo(i) = Append(FramesTo(i - 1), input[i].header)
  BY FramesToIs

\* A sequence is a prefix of another when its elements are the other's first ones.
LEMMA PrefixByItems ==
  ASSUME NEW S, NEW s \in Seq(S), NEW u \in Seq(S), Len(s) <= Len(u), \A k \in 1 .. Len(s) : u[k] = s[k]
  PROVE  IsPrefix(s, u)
  <1>1. Len(s) \in Nat /\ Len(u) \in Nat
    OBVIOUS
  <1>2. SubSeq(s, 1, Len(s)) = SubSeq(u, 1, Len(s))
    BY <1>1
  <1> QED
    BY <1>2 DEF IsPrefix

\* When the reader has left, FramesInStep follows from where it did.
LEMMA EndedIs ==
  ASSUME InputOK, handled \in Seq(FrameHeader), Ended
  PROVE  /\ IsPrefix(handled, ClientFrames)
         /\ handled # << >> /\ handled # ClientFrames => ClientFrames[Len(handled) + 1].type > MaxFrameType
  <1>0. Len(input) \in Nat /\ DOMAIN input = 1 .. Len(input) /\ \A i \in 0 .. Len(input) : FramesTo(i) \in Seq(FrameHeader)
    BY Units, FramesToIs
  <1>1. ClientFrames = FramesTo(Len(input)) /\ ClientFrames \in Seq(FrameHeader)
    BY <1>0 DEF ClientFrames
  <1>2. CASE handled = << >>
    BY <1>1, <1>2 DEF IsPrefix
  <1>3. CASE handled = ClientFrames
    BY <1>1, <1>3 DEF IsPrefix
  <1>4. ASSUME NEW i \in DOMAIN input, handled = FramesTo(i - 1), IsHeader(i), input[i].header.type > MaxFrameType
        PROVE  IsPrefix(handled, ClientFrames) /\ ClientFrames[Len(handled) + 1].type > MaxFrameType
    <2>1. i \in 1 .. Len(input) /\ i - 1 \in 0 .. Len(input) /\ Len(input) \in i .. Len(input) /\ i \in 0 .. Len(input)
      BY <1>0
    <2>2. /\ Len(FramesTo(i)) <= Len(ClientFrames)
          /\ \A k \in 1 .. Len(FramesTo(i)) : ClientFrames[k] = FramesTo(i)[k]
      BY <1>1, <2>1, FramesGrow
    <2>3. FramesTo(i) = Append(handled, input[i].header) /\ input[i].header \in FrameHeader
      BY <1>4, <2>1, OneMoreFrame, Units
    <2>4. /\ Len(FramesTo(i)) = Len(handled) + 1 /\ Len(handled) \in Nat
          /\ FramesTo(i)[Len(handled) + 1] = input[i].header
          /\ \A k \in 1 .. Len(handled) : FramesTo(i)[k] = handled[k]
      BY <2>3
    <2>5. ClientFrames[Len(handled) + 1] = input[i].header
      BY <2>2, <2>4
    <2>6. Len(handled) <= Len(ClientFrames) /\ \A k \in 1 .. Len(handled) : ClientFrames[k] = handled[k]
      BY <1>1, <2>2, <2>4
    <2>7. IsPrefix(handled, ClientFrames)
      BY <1>1, <2>4, <2>6, PrefixByItems
    <2> QED
      BY <1>4, <2>5, <2>7
  <1> QED
    BY <1>1, <1>2, <1>3, <1>4 DEF Ended

\* The frames of the first units are a prefix of all of them.
LEMMA FramesPrefix ==
  ASSUME InputOK, NEW i \in 0 .. Len(input)
  PROVE  IsPrefix(FramesTo(i), ClientFrames)
  <1>0. Len(input) \in Nat /\ i \in Nat /\ i <= Len(input)
    BY Units
  <1>1. Len(input) \in i .. Len(input) /\ Len(input) \in 0 .. Len(input)
    BY <1>0
  <1>2. FramesTo(i) \in Seq(FrameHeader) /\ FramesTo(Len(input)) \in Seq(FrameHeader)
    BY <1>1, FramesToIs
  <1>3. /\ Len(FramesTo(i)) <= Len(FramesTo(Len(input)))
        /\ \A k \in 1 .. Len(FramesTo(i)) : FramesTo(Len(input))[k] = FramesTo(i)[k]
    BY <1>1, FramesGrow
  <1> QED
    BY <1>2, <1>3, PrefixByItems DEF ClientFrames

\* What is said of the input stays true.
LEMMA SameInput ==
  ASSUME input' = input
  PROVE  /\ \A i : FramesTo(i)' = FramesTo(i)
         /\ ClientFrames' = ClientFrames
         /\ Contentless' <=> Contentless
         /\ \A i : IsHeader(i)' <=> IsHeader(i)
  <1>1. \A i : FramesTo(i)' = FramesTo(i)
    BY DEF FramesTo
  <1>2. ClientFrames' = ClientFrames
    BY <1>1 DEF ClientFrames, FramesTo
  <1>3. \A i : NoContent(i)' <=> NoContent(i)
    BY DEF NoContent, ReadBehind
  <1>4. Contentless' <=> Contentless
    BY <1>3 DEF Contentless, NoContent, ReadBehind
  <1> QED
    BY <1>1, <1>2, <1>4 DEF IsHeader

\* A read of units that are there and of the kind wanted gets them.
LEMMA ReadsThem ==
  ASSUME TypeOK, inStep, NEW n \in Nat, n > 0, NEW kind,
         \A i \in pos .. (pos + n - 1) : i \in DOMAIN input /\ input[i].kind = kind
  PROVE  /\ ~ReadFails(n, kind) /\ ~MoveAskew(n, kind) /\ ~ReadAskew(n, kind)
         /\ MoveWhole(n, kind) => pos' = pos + n /\ inStep'
         /\ ReadWhole(n, kind) => pos' = pos + n /\ inStep'
  <1>1. Whole(n, kind)
    BY DEF Whole
  <1> QED
    BY <1>1 DEF ReadFails, MoveAskew, ReadAskew, MoveWhole, ReadWhole

\* The header that is next is read as it is; at the end the read fails.
LEMMA ReadsHeader ==
  ASSUME TypeOK, PastSlipped, inStep, AtHeader, NEW next, readFrameHeader(next)
  PROVE  /\ inStep'
         /\ pos \in DOMAIN input => /\ pos' = pos + 1 /\ frameHeader' = input[pos].header
                                    /\ pc' = IF input[pos].header.type <= MaxFrameType THEN next ELSE "left"
         /\ pos \notin DOMAIN input => pos = Len(input) + 1 /\ pc' = "left"
  <1>0. Len(input) \in Nat /\ DOMAIN input = 1 .. Len(input) /\ InputEnd = Len(input) + 1 /\ pos \in 1 .. (Len(input) + 1) /\ pos \in Nat
    BY Typed
  <1>3. ~ReadPast
    BY DEF ReadPast, PastSlipped
  <1>1. CASE pos \in DOMAIN input
    <2>1. \A i \in pos .. (pos + 1 - 1) : i \in DOMAIN input /\ input[i].kind = "header"
      <3>1. \A i \in pos .. (pos + 1 - 1) : i = pos
        BY <1>0
      <3> QED
        BY <1>1, <3>1 DEF AtHeader, IsHeader
    <2>2. 1 \in Nat /\ 1 > 0
      OBVIOUS
    <2>3. ~ReadFails(1, "header") /\ ~ReadAskew(1, "header") /\ (ReadWhole(1, "header") => pos' = pos + 1 /\ inStep')
      BY <2>1, <2>2, ReadsThem, Zenon
    <2> QED
      BY <1>1, <1>3, <2>3 DEF readFrameHeader
  <1>2. CASE pos \notin DOMAIN input
    <2>1. pos = Len(input) + 1 /\ ~(pos < InputEnd)
      BY <1>0, <1>2
    <2>2. ~ReadAskew(1, "header")
      BY <1>0, <2>1 DEF ReadAskew, MoveAskew
    <2>3. ~ReadWhole(1, "header")
      <3>1. pos \in pos .. (pos + 1 - 1)
        BY <1>0
      <3> QED
        BY <1>2, <3>1 DEF ReadWhole, MoveWhole, Whole
    <2>4. pc' = "left" /\ ReadFails(1, "header")
      BY <1>3, <2>2, <2>3 DEF readFrameHeader
    <2>5. inStep' = inStep
      BY <2>4 DEF ReadFails
    <2> QED
      BY <1>2, <2>1, <2>4, <2>5
  <1> QED
    BY <1>1, <1>2

\* What follows the header of a frame without content.
LEMMA BehindFrame ==
  ASSUME InputOK, Contentless, NEW i \in DOMAIN input, IsHeader(i)
  PROVE  LET h == input[i].header
             e == i + ReadBehind(i)
         IN  /\ e \in i .. Len(input)
             /\ \A k \in (i + 1) .. e : k \in DOMAIN input /\ input[k].kind = "byte"
             /\ e + 1 \in DOMAIN input => IsHeader(e + 1)
             /\ FramesTo(e) = FramesTo(i)
             /\ PriorityBytes(h) \in {0, PriorityLength}
             /\ Padded(h) => i + 1 \in DOMAIN input /\ input[i + 1].kind = "byte" /\ input[i + 1].value \in Byte
  <1> DEFINE h == input[i].header
             r == ReadBehind(i)
             e == i + r
  <1>0. Len(input) \in Nat /\ DOMAIN input = 1 .. Len(input) /\ i \in Nat
    BY Units
  <1>1. NoContent(i)
    BY DEF Contentless, IsHeader
  <1>2. Padded(h) => i + 1 \in DOMAIN input /\ input[i + 1].kind = "byte" /\ input[i + 1].value \in Byte
    BY <1>0, <1>1, Units DEF NoContent
  <1>3. PriorityBytes(h) \in {0, PriorityLength} /\ PriorityLength \in Nat
    BY DEF PriorityBytes, PriorityLength
  <1>4. r \in Nat
    <2>1. Padded(h) => input[i + 1].value \in Nat
      BY <1>2, Http2Assumption DEF Byte
    <2>2. r = PriorityBytes(h) + IF Padded(h) THEN 1 + input[i + 1].value ELSE 0
      BY DEF ReadBehind
    <2> QED
      BY <1>3, <2>1, <2>2
  <1>5. \A k \in (i + 1) .. e : k \in DOMAIN input /\ input[k].kind = "byte"
    BY <1>1 DEF NoContent
  <1>6. e + 1 \in DOMAIN input => IsHeader(e + 1)
    BY <1>1 DEF NoContent, IsHeader
  <1> HIDE DEF r
  <1>7. e \in i .. Len(input)
    <2>1. CASE r = 0
      BY <1>0, <2>1
    <2>2. CASE r # 0
      <3>1. e \in (i + 1) .. e
        BY <1>0, <1>4, <2>2
      <3> QED
        BY <1>0, <1>5, <3>1
    <2> QED
      BY <2>1, <2>2
  <1>8. FramesTo(e) = FramesTo(i)
    <2>1. \A k \in (i + 1) .. e : ~IsHeader(k)
      BY <1>5 DEF IsHeader
    <2>2. i \in 0 .. Len(input)
      BY <1>0
    <2> HIDE DEF e
    <2> QED
      BY <1>7, <2>1, <2>2, NoFramesBetween
  <1> QED
    BY <1>2, <1>3, <1>5, <1>6, <1>7, <1>8 DEF r

\* A frame of which nothing is read ends with its header.
LEMMA NothingRead ==
  ASSUME InputOK, Contentless, NEW i \in DOMAIN input, IsHeader(i), ~IsRead(input[i].header)
  PROVE  i + 1 \in DOMAIN input => IsHeader(i + 1)
  <1>1. ReadBehind(i) = 0
    BY DEF ReadBehind, Padded, PriorityBytes
  <1>2. i \in Nat
    BY Units
  <1>3. i + ReadBehind(i) + 1 = i + 1
    BY <1>1, <1>2
  <1>4. i + ReadBehind(i) + 1 \in DOMAIN input => IsHeader(i + ReadBehind(i) + 1)
    BY BehindFrame
  <1> QED
    BY <1>3, <1>4

\* From the loop back to the loop: the frame at i is done.
LEMMA FrameDone ==
  ASSUME InputOK, Contentless, NEW i \in DOMAIN input, IsHeader(i), ~IsRead(input[i].header),
         handled = FramesTo(i - 1), frameHeader = input[i].header
  PROVE  /\ Append(handled, frameHeader) = FramesTo(i)
         /\ i + 1 \in DOMAIN input => IsHeader(i + 1)
  <1>1. i \in 1 .. Len(input)
    BY Units
  <1> QED
    BY <1>1, OneMoreFrame, NothingRead

\* The reader stays where it is when nothing moves.
LEMMA InStepUnchanged ==
  ASSUME InStep, UNCHANGED <<input, pos, inStep, pc, frameHeader, padding, handled, slipped>>
  PROVE  InStep'
  <1>1. /\ \A i : FramesTo(i)' = FramesTo(i)
        /\ ClientFrames' = ClientFrames
        /\ Contentless' <=> Contentless
        /\ \A i : IsHeader(i)' <=> IsHeader(i)
    BY SameInput
  <1>2. FramesTo(pos - 1)' = FramesTo(pos - 1) /\ FramesTo(pos - 2)' = FramesTo(pos - 2)
    BY DEF FramesTo
  <1>3. (AtHeader' <=> AtHeader) /\ (FrameAt(pos - 1)' <=> FrameAt(pos - 1)) /\ (FrameAt(2)' <=> FrameAt(2))
    BY DEF AtHeader, FrameAt, IsHeader
  <1>4. Ended' <=> Ended
    BY <1>1 DEF Ended
  <1>5. \A i : InHeaders(i)' <=> InHeaders(i)
    <2>1. \A i : FrameAt(i)' <=> FrameAt(i)
      BY DEF FrameAt, IsHeader
    <2> QED
      BY <1>1, <2>1 DEF InHeaders
  <1>6. (\E i \in DOMAIN input : InHeaders(i)) => (\E i \in DOMAIN input : InHeaders(i))'
    BY <1>5
  <1>7. inStep' = inStep /\ pos' = pos /\ pc' = pc /\ handled' = handled /\ slipped' = slipped
    OBVIOUS
  <1> QED
    BY <1>1, <1>2, <1>3, <1>4, <1>6, <1>7 DEF InStep

\* Once padding was discarded behind stale indices that is remembered.
LEMMA SlippedKept ==
  ASSUME Next, ~slipped'
  PROVE  ~slipped
  BY DEF Next, Reader, Start, checkPreface, ReadSettingsHeader, FirstSettings, ReadLoopHeader, handleOtherFrames,
         handleHeadersFrame, ReadPriority, DiscardPadding, discard, DiscardBuffered, DiscardStale, run, Crash, writeTask

\* Where the reader is in its client's stream, action by action.
LEMMA InStepKept ==
  ASSUME IInv, Next
  PROVE  InStep'
  <1>0. TypeOK /\ PastSlipped /\ SettingsSeen /\ InStep
    BY DEF IInv
  <1>1. /\ InputOK /\ Len(input) \in Nat /\ DOMAIN input = 1 .. Len(input)
        /\ InputEnd = Len(input) + 1 /\ pos \in 1 .. (Len(input) + 1) /\ pos \in Nat
        /\ handled \in Seq(FrameHeader) /\ frameHeader \in FrameHeader
        /\ padding \in Nat
    BY <1>0, Typed
  <1>2. input' = input
    BY DEF Next, Reader, Start, checkPreface, ReadSettingsHeader, FirstSettings, ReadLoopHeader, handleOtherFrames,
           handleHeadersFrame, ReadPriority, DiscardPadding, run, Crash, writeTask
  <1>3. /\ \A i : FramesTo(i)' = FramesTo(i)
        /\ ClientFrames' = ClientFrames
        /\ Contentless' <=> Contentless
        /\ \A i : IsHeader(i)' <=> IsHeader(i)
    BY <1>2, SameInput
  <1> SUFFICES ASSUME Contentless, ~slipped' PROVE InStep'
    BY <1>3 DEF InStep
  <1>19. ~slipped
    BY SlippedKept
  <1>4. inStep /\ ~ReadPast
    BY <1>0, <1>19 DEF InStep, ReadPast, PastSlipped
  <1>5. ASSUME pc' \in {"left", "done"}, inStep', Ended' PROVE InStep'
    BY <1>5 DEF InStep
  <1>6. ASSUME handled' = << >> PROVE Ended'
    BY <1>6 DEF Ended
  <1>7. ASSUME pc' = "loop", inStep', NEW i \in DOMAIN input, pos' = i + 1, handled' = FramesTo(i),
               i + 1 \in DOMAIN input => IsHeader(i + 1)
        PROVE  InStep'
    <2>1. AtHeader'
      BY <1>2, <1>7 DEF AtHeader, IsHeader
    <2>2. handled' = FramesTo(pos' - 1)
      BY <1>1, <1>7
    <2>3. (FramesTo(pos - 1))' = FramesTo(pos' - 1)
      BY <1>2 DEF FramesTo
    <2> QED
      BY <1>7, <2>1, <2>2, <2>3 DEF InStep
  <1>8. CASE Start
    BY <1>4, <1>8 DEF Start, InStep, readVars
  <1>9. CASE checkPreface
    <2>1. handled' = << >> /\ pos = 1
      BY <1>0, <1>9 DEF checkPreface, SettingsSeen
    <2>2. inStep' /\ (pc' = "settings" => pos' = 2) /\ pc' \in {"settings", "left"}
      <3>1. CASE ReadWhole(1, "preface") /\ pc' = "settings"
        <4>1. pos' = pos + 1 /\ inStep' = inStep
          BY <3>1 DEF ReadWhole, MoveWhole
        <4> QED
          BY <1>4, <2>1, <3>1, <4>1
      <3>2. CASE ReadFails(1, "preface") /\ pc' = "left"
        <4>1. inStep' = inStep
          BY <3>2 DEF ReadFails
        <4> QED
          BY <1>4, <3>2, <4>1
      <3> QED
        BY <1>9, <3>1, <3>2 DEF checkPreface
    <2> QED
      BY <1>6, <2>1, <2>2 DEF InStep
  <1>10. CASE ReadSettingsHeader
    <2>1. pc = "settings" /\ pos = 2 /\ handled = << >> /\ handled' = << >> /\ readFrameHeader("checkSettings")
      BY <1>0, <1>10, <1>19 DEF ReadSettingsHeader, InStep, SettingsSeen
    <2>2. AtHeader
      BY <1>1, <2>1 DEF AtHeader, Contentless, IsHeader
    <2>3. /\ inStep'
          /\ pos \in DOMAIN input => /\ pos' = pos + 1 /\ frameHeader' = input[pos].header
                                     /\ pc' = IF input[pos].header.type <= MaxFrameType THEN "checkSettings" ELSE "left"
          /\ pos \notin DOMAIN input => pos = Len(input) + 1 /\ pc' = "left"
      BY <1>0, <1>4, <2>1, <2>2, ReadsHeader, Zenon
    <2>4. CASE pc' = "left"
      BY <1>5, <1>6, <2>1, <2>3, <2>4
    <2>5. CASE pc' # "left"
      <3>1. /\ pc' = "checkSettings" /\ pos' = 3 /\ 2 \in DOMAIN input /\ IsHeader(2)
            /\ frameHeader' = input[2].header
        BY <2>1, <2>2, <2>3, <2>5 DEF AtHeader
      <3>2. FrameAt(2)'
        BY <1>2, <1>3, <3>1 DEF FrameAt
      <3> QED
        BY <2>3, <3>1, <3>2 DEF InStep
    <2> QED
      BY <2>4, <2>5
  <1>11. CASE FirstSettings
    <2>1. pc = "checkSettings" /\ pos = 3 /\ FrameAt(2) /\ handled = << >> /\ input[1].kind = "preface"
      BY <1>0, <1>11, <1>19 DEF FirstSettings, InStep, SettingsSeen
    <2>2. inStep' /\ pos' = pos
      BY <1>4, <1>11 DEF FirstSettings, readVars
    <2>3. CASE frameHeader.type = SETTINGS /\ pc' = "loop" /\ handled' = Append(handled, frameHeader)
      <3>1. 2 \in DOMAIN input /\ IsHeader(2) /\ frameHeader = input[2].header /\ 1 \in 1 .. Len(input) /\ ~IsHeader(1)
        BY <1>1, <2>1 DEF FrameAt, IsHeader
      <3>2. FramesTo(1) = << >>
        <4>1. FramesTo(1) = FramesTo(1 - 1) /\ FramesTo(0) = << >>
          BY <1>1, <3>1, FramesToIs
        <4> QED
          BY <4>1
      <3>3. ~IsRead(input[2].header)
        BY <2>3, <3>1 DEF IsRead, SETTINGS, HEADERS
      <3>4. handled = FramesTo(2 - 1)
        BY <2>1, <3>2
      <3>5. handled' = FramesTo(2) /\ (2 + 1 \in DOMAIN input => IsHeader(2 + 1))
        BY <1>1, <2>3, <3>1, <3>3, <3>4, FrameDone
      <3>6. pos' = 2 + 1
        BY <2>1, <2>2
      <3> QED
        BY <1>7, <2>2, <2>3, <3>1, <3>5, <3>6
    <2>4. CASE pc' = "left" /\ UNCHANGED handled
      BY <1>5, <1>6, <2>1, <2>2, <2>4
    <2> QED
      BY <1>11, <2>3, <2>4 DEF FirstSettings
  <1>12. CASE ReadLoopHeader
    <2>1. pc = "loop" /\ AtHeader /\ handled = FramesTo(pos - 1) /\ handled' = handled /\ readFrameHeader("dispatch")
      BY <1>0, <1>12, <1>19 DEF ReadLoopHeader, InStep
    <2>2. /\ inStep'
          /\ pos \in DOMAIN input => /\ pos' = pos + 1 /\ frameHeader' = input[pos].header
                                     /\ pc' = IF input[pos].header.type <= MaxFrameType THEN "dispatch" ELSE "left"
          /\ pos \notin DOMAIN input => pos = Len(input) + 1 /\ pc' = "left"
      BY <1>0, <1>4, <2>1, ReadsHeader, Zenon
    <2>3. CASE pos \notin DOMAIN input
      <3>1. pos - 1 = Len(input)
        BY <1>1, <2>2, <2>3
      <3>2. handled' = ClientFrames'
        BY <1>3, <2>1, <3>1 DEF ClientFrames
      <3> QED
        BY <1>5, <2>2, <2>3, <3>2 DEF Ended
    <2>4. CASE pos \in DOMAIN input /\ input[pos].header.type <= MaxFrameType
      <3>1. pc' = "dispatch" /\ pos' - 1 = pos /\ pos' - 2 = pos - 1 /\ frameHeader' = input[pos].header /\ IsHeader(pos)
        BY <1>1, <2>1, <2>2, <2>4 DEF AtHeader
      <3>2. FrameAt(pos - 1)'
        BY <1>2, <2>4, <3>1 DEF FrameAt, IsHeader
      <3>3. handled' = (FramesTo(pos - 2))'
        <4>1. (FramesTo(pos - 2))' = FramesTo(pos' - 2)
          BY <1>2 DEF FramesTo
        <4> QED
          BY <2>1, <3>1, <4>1
      <3> QED
        BY <2>2, <3>1, <3>2, <3>3 DEF InStep
    <2>5. CASE pos \in DOMAIN input /\ ~(input[pos].header.type <= MaxFrameType)
      <3>1. pc' = "left" /\ IsHeader(pos) /\ input[pos].header.type > MaxFrameType
        <4>1. input[pos].header \in FrameHeader
          BY <1>1, <2>1, <2>5, Units DEF AtHeader
        <4>2. input[pos].header.type \in 0 .. 255
          BY <4>1 DEF FrameHeader
        <4>3. \A x \in 0 .. 255 : ~(x <= MaxFrameType) => x > MaxFrameType
          BY DEF MaxFrameType
        <4>4. input[pos].header.type > MaxFrameType
          BY <2>5, <4>2, <4>3
        <4>5. pc' = "left" /\ IsHeader(pos)
          BY <2>1, <2>2, <2>5 DEF AtHeader
        <4> QED
          BY <4>4, <4>5
      <3>2. Ended'
        <4>1. handled' = FramesTo(pos - 1)
          BY <2>1
        <4>2. \E i \in DOMAIN input : handled' = FramesTo(i - 1) /\ IsHeader(i) /\ input[i].header.type > MaxFrameType
          BY <2>5, <3>1, <4>1
        <4>3. PICK i \in DOMAIN input : handled' = FramesTo(i - 1) /\ IsHeader(i) /\ input[i].header.type > MaxFrameType
          BY <4>2
        <4>4. FramesTo(i - 1)' = FramesTo(i - 1) /\ IsHeader(i)'
          BY <1>3, <4>3
        <4> QED
          BY <1>2, <4>3, <4>4 DEF Ended
      <3> QED
        BY <1>5, <2>2, <3>1, <3>2
    <2> QED
      BY <2>3, <2>4, <2>5
  <1>13. CASE handleOtherFrames
    <2>1. pc = "dispatch" /\ FrameAt(pos - 1) /\ handled = FramesTo(pos - 2)
      BY <1>0, <1>13, <1>19 DEF handleOtherFrames, InStep
    <2>2. inStep' /\ pos' = pos /\ pc' = "loop" /\ handled' = Append(handled, frameHeader) /\ frameHeader.type # HEADERS
      BY <1>4, <1>13 DEF handleOtherFrames, Dispatch, readVars
    <2>3. PICK i \in DOMAIN input : IsHeader(i) /\ frameHeader = input[i].header /\ i - 1 = pos - 2 /\ i + 1 = pos
      <3>1. pos - 1 \in DOMAIN input /\ IsHeader(pos - 1) /\ frameHeader = input[pos - 1].header
        BY <2>1 DEF FrameAt
      <3>2. (pos - 1) - 1 = pos - 2 /\ (pos - 1) + 1 = pos
        BY <1>1
      <3> QED
        BY <3>1, <3>2
    <2>4. ~IsRead(input[i].header)
      BY <2>2, <2>3 DEF IsRead
    <2>5. handled' = FramesTo(i) /\ (i + 1 \in DOMAIN input => IsHeader(i + 1))
      BY <1>1, <2>1, <2>2, <2>3, <2>4, FrameDone
    <2> QED
      BY <1>7, <2>2, <2>3, <2>5
  <1>14. CASE handleHeadersFrame
    <2>1. pc = "dispatch" /\ FrameAt(pos - 1) /\ handled = FramesTo(pos - 2)
      BY <1>0, <1>14, <1>19 DEF handleHeadersFrame, InStep
    <2>2. handled' = Append(handled, frameHeader) /\ frameHeader.type = HEADERS /\ frameHeader' = frameHeader
      BY <1>4, <1>14 DEF handleHeadersFrame, Dispatch
    <2>3. PICK i \in DOMAIN input : IsHeader(i) /\ frameHeader = input[i].header /\ i - 1 = pos - 2 /\ i + 1 = pos
      <3>1. pos - 1 \in DOMAIN input /\ IsHeader(pos - 1) /\ frameHeader = input[pos - 1].header
        BY <2>1 DEF FrameAt
      <3>2. (pos - 1) - 1 = pos - 2 /\ (pos - 1) + 1 = pos
        BY <1>1
      <3> QED
        BY <3>1, <3>2
    <2>4. getFrameStreamId \in Nat /\ getFrameStreamId % 2 = frameHeader.stream[4] % 2
      BY <1>1, StreamParity DEF getFrameStreamId
    <2>5. CASE /\ getFrameStreamId = 0 \/ getFrameStreamId % 2 # 0
               /\ pc' = "loop" /\ UNCHANGED <<readVars, padding>>
      <3>1. ~IsRead(input[i].header)
        BY <2>3, <2>4, <2>5 DEF IsRead, getFrameStreamId
      <3>2. handled' = FramesTo(i) /\ (i + 1 \in DOMAIN input => IsHeader(i + 1))
        BY <1>1, <2>1, <2>2, <2>3, <3>1, FrameDone
      <3>3. pos' = i + 1 /\ inStep'
        BY <1>4, <2>3, <2>5 DEF readVars
      <3> QED
        BY <1>7, <2>3, <2>5, <3>2, <3>3
    <2>6. CASE getFrameStreamId # 0 /\ getFrameStreamId % 2 = 0 /\ readPadding
      <3>1. IsRead(frameHeader)
        BY <2>2, <2>4, <2>6 DEF IsRead, getFrameStreamId
      <3>2. Padded(frameHeader) <=> getFrameFlags(PADDED)
        BY <3>1 DEF Padded, getFrameFlags
      <3>3. /\ pc' = "priority" /\ inStep'
            /\ padding' = (IF Padded(frameHeader) THEN input[i + 1].value ELSE 0)
            /\ pos' = i + 1 + (IF Padded(frameHeader) THEN 1 ELSE 0)
        <4>1. CASE ~getFrameFlags(PADDED)
          <5>1. padding' = 0 /\ pc' = "priority" /\ pos' = pos /\ inStep' = inStep
            BY <2>6, <4>1 DEF readPadding, readVars
          <5> QED
            BY <1>1, <1>4, <2>3, <3>2, <4>1, <5>1
        <4>2. CASE getFrameFlags(PADDED)
          <5>1. i + 1 \in DOMAIN input /\ input[i + 1].kind = "byte"
            BY <1>1, <2>3, <3>2, <4>2, BehindFrame
          <5>2. \A k \in pos .. (pos + 1 - 1) : k \in DOMAIN input /\ input[k].kind = "byte"
            <6>1. \A k \in pos .. (pos + 1 - 1) : k = pos
              BY <1>1
            <6> QED
              BY <2>3, <5>1, <6>1
          <5>3. 1 \in Nat /\ 1 > 0
            OBVIOUS
          <5>4. ~ReadFails(1, "byte") /\ ~ReadAskew(1, "byte") /\ (ReadWhole(1, "byte") => pos' = pos + 1 /\ inStep')
            BY <1>0, <1>4, <5>2, <5>3, ReadsThem, Zenon
          <5>5. /\ ReadWhole(1, "byte") /\ pc' = "priority"
                /\ padding' \in IF inStep' THEN {input[pos].value} ELSE Byte
            BY <1>4, <2>6, <4>2, <5>4 DEF readPadding, readFixedLength
          <5>6. padding' = input[pos].value
            BY <5>4, <5>5
          <5> QED
            BY <1>1, <2>3, <3>2, <4>2, <5>4, <5>5, <5>6
        <4> QED
          BY <4>1, <4>2
      <3>4. handled' = FramesTo(i)
        BY <1>1, <2>1, <2>2, <2>3, OneMoreFrame
      <3>5. InHeaders(i)'
        <4>1. i + 1 + (IF Padded(frameHeader) THEN 1 ELSE 0) + 0 = i + 1 + (IF Padded(frameHeader) THEN 1 ELSE 0)
          BY <1>1, <2>3
        <4>2. FrameAt(i)'
          BY <1>2, <2>2, <2>3 DEF FrameAt, IsHeader
        <4>3. handled' = FramesTo(i)'
          BY <1>3, <3>4
        <4>4. frameHeader' = frameHeader /\ input' = input
          BY <1>2, <2>2
        <4> QED
          BY <3>1, <3>3, <4>1, <4>2, <4>3, <4>4 DEF InHeaders
      <3>6. \E j \in DOMAIN input' : InHeaders(j)'
        BY <1>2, <2>3, <3>5
      <3> QED
        BY <3>3, <3>6 DEF InStep
    <2> QED
      BY <1>14, <2>5, <2>6 DEF handleHeadersFrame
  <1>15. CASE ReadPriority
    <2>1. pc = "priority" /\ frameHeader' = frameHeader /\ padding' = padding /\ handled' = handled
      BY <1>15 DEF ReadPriority
    <2>2. PICK i \in DOMAIN input : InHeaders(i)
      BY <1>0, <1>19, <2>1 DEF InStep
    <2> DEFINE h == frameHeader
               one == IF Padded(h) THEN 1 ELSE 0
    <2>3. /\ FrameAt(i) /\ IsRead(h) /\ handled = FramesTo(i)
          /\ padding = (IF Padded(h) THEN input[i + 1].value ELSE 0)
          /\ pos = i + 1 + one /\ i \in Nat
      BY <1>1, <2>1, <2>2 DEF InHeaders
    <2>4. PriorityBytes(h) = IF getFrameFlags(PRIORITY) THEN PriorityLength ELSE 0
      BY <2>3 DEF PriorityBytes, getFrameFlags
    <2>5. /\ pc' = "padding" /\ inStep' /\ pos' = i + 1 + one + PriorityBytes(h)
      <3>1. CASE ~getFrameFlags(PRIORITY)
        <4>1. pc' = "padding" /\ pos' = pos /\ inStep' = inStep
          BY <1>15, <3>1 DEF ReadPriority, readVars
        <4> QED
          BY <1>1, <1>4, <2>3, <2>4, <3>1, <4>1
      <3>2. CASE getFrameFlags(PRIORITY)
        <4>1. h = input[i].header /\ IsHeader(i)
          BY <2>3 DEF FrameAt
        <4>2. \A k \in (i + 1) .. (i + ReadBehind(i)) : k \in DOMAIN input /\ input[k].kind = "byte"
          BY <1>1, <4>1, BehindFrame
        <4>3. ReadBehind(i) = PriorityLength + IF Padded(h) THEN 1 + input[i + 1].value ELSE 0
          BY <2>4, <3>2, <4>1 DEF ReadBehind
        <4>4. Padded(h) => input[i + 1].value \in Nat
          <5>1. Padded(h) => input[i + 1].value \in Byte
            BY <1>1, <4>1, BehindFrame
          <5> QED
            BY <5>1, Http2Assumption DEF Byte
        <4>5. \A k \in pos .. (pos + PriorityLength - 1) : k \in (i + 1) .. (i + ReadBehind(i))
          BY <2>3, <4>3, <4>4 DEF PriorityLength
        <4>6. \A k \in pos .. (pos + PriorityLength - 1) : k \in DOMAIN input /\ input[k].kind = "byte"
          BY <4>2, <4>5
        <4>7. PriorityLength \in Nat /\ PriorityLength > 0
          BY DEF PriorityLength
        <4>8. /\ ~ReadFails(PriorityLength, "byte") /\ ~ReadAskew(PriorityLength, "byte")
              /\ ReadWhole(PriorityLength, "byte") => pos' = pos + PriorityLength /\ inStep'
          BY <1>0, <1>4, <4>6, <4>7, ReadsThem, Zenon
        <4>9. pc' = "padding" /\ ReadWhole(PriorityLength, "byte")
          BY <1>4, <1>15, <3>2, <4>8 DEF ReadPriority, readFixedLength
        <4> QED
          BY <2>3, <2>4, <3>2, <4>8, <4>9
      <3> QED
        BY <3>1, <3>2
    <2>6. InHeaders(i)'
      <3>1. FrameAt(i)'
        BY <1>2, <2>1, <2>3 DEF FrameAt, IsHeader
      <3>2. handled' = FramesTo(i)'
        BY <1>3, <2>1, <2>3
      <3> QED
        BY <1>2, <2>1, <2>3, <2>5, <3>1, <3>2 DEF InHeaders
    <2>7. \E j \in DOMAIN input' : InHeaders(j)'
      BY <1>2, <2>6
    <2> QED
      BY <2>5, <2>7 DEF InStep
  <1>16. CASE DiscardPadding
    <2>1. pc = "padding" /\ pc' = "loop" /\ handled' = handled
      BY <1>16 DEF DiscardPadding
    <2>2. PICK i \in DOMAIN input : InHeaders(i)
      BY <1>0, <1>19, <2>1 DEF InStep
    <2> DEFINE h == frameHeader
               e == i + ReadBehind(i)
    <2>3. /\ FrameAt(i) /\ IsRead(h) /\ handled = FramesTo(i)
          /\ padding = (IF Padded(h) THEN input[i + 1].value ELSE 0)
          /\ pos = i + 1 + (IF Padded(h) THEN 1 ELSE 0) + PriorityBytes(h) /\ i \in Nat
      BY <1>1, <2>1, <2>2 DEF InHeaders
    <2>4. h = input[i].header /\ IsHeader(i)
      BY <2>3 DEF FrameAt
    <2>5. /\ e \in i .. Len(input)
          /\ \A k \in (i + 1) .. e : k \in DOMAIN input /\ input[k].kind = "byte"
          /\ e + 1 \in DOMAIN input => IsHeader(e + 1)
          /\ FramesTo(e) = FramesTo(i)
          /\ PriorityBytes(h) \in {0, PriorityLength}
      BY <1>1, <2>4, BehindFrame
    <2>6. PriorityBytes(h) \in Nat
      BY <2>5 DEF PriorityLength
    <2>7. e = i + (PriorityBytes(h) + IF Padded(h) THEN 1 + input[i + 1].value ELSE 0)
      BY <2>4 DEF ReadBehind
    <2> HIDE DEF e
    <2>8. pos + padding = e + 1
      <3>1. CASE Padded(h)
        <4>1. padding = input[i + 1].value /\ pos = i + 1 + 1 + PriorityBytes(h)
          BY <2>3, <3>1
        <4>2. e = i + (PriorityBytes(h) + (1 + padding))
          BY <2>7, <3>1, <4>1
        <4>3. \A a, b, c \in Nat : a + 1 + 1 + b + c = a + (b + (1 + c)) + 1
          OBVIOUS
        <4>4. i \in Nat /\ padding \in Nat
          BY <1>1, <2>3
        <4>5. i + 1 + 1 + PriorityBytes(h) + padding = i + (PriorityBytes(h) + (1 + padding)) + 1
          BY <2>6, <4>3, <4>4
        <4> QED
          BY <4>1, <4>2, <4>5
      <3>2. CASE ~Padded(h)
        <4>1. padding = 0 /\ pos = i + 1 + 0 + PriorityBytes(h) /\ e = i + (PriorityBytes(h) + 0)
          BY <2>3, <2>7, <3>2
        <4> QED
          BY <2>3, <2>6, <4>1
      <3> QED
        BY <3>1, <3>2
    <2>9. pos' = e + 1 /\ inStep'
      <3>1. CASE padding = 0
        <4>1. pos' = pos /\ inStep' = inStep
          BY <1>16, <3>1 DEF DiscardPadding, readVars
        <4> QED
          BY <1>1, <1>4, <2>8, <3>1, <4>1
      <3>2. CASE padding # 0
        <4>1. padding \in Nat /\ padding > 0
          BY <1>1, <3>2
        <4>2. \A k \in pos .. (pos + padding - 1) : k \in DOMAIN input /\ input[k].kind = "byte"
          <5>1. e \in Nat /\ pos >= i + 1
            BY <1>1, <2>3, <2>5, <2>6
          <5>2. \A k \in pos .. (pos + padding - 1) : k \in (i + 1) .. e
            BY <1>1, <2>3, <2>8, <4>1, <5>1
          <5> QED
            BY <2>5, <5>2
        <4>3. /\ ~ReadFails(padding, "byte") /\ ~MoveAskew(padding, "byte")
              /\ MoveWhole(padding, "byte") => pos' = pos + padding /\ inStep'
          BY <1>0, <1>4, <4>1, <4>2, ReadsThem, Zenon
        <4>4. MoveWhole(padding, "byte")
          <5>1. discard(padding) /\ ~DiscardStale(padding)
            BY <1>16, <3>2 DEF DiscardPadding, DiscardStale
          <5> QED
            BY <1>4, <4>3, <5>1 DEF discard, DiscardBuffered
        <4> QED
          BY <2>8, <4>3, <4>4
      <3> QED
        BY <3>1, <3>2
    <2>10. e \in DOMAIN input /\ handled' = FramesTo(e)
      BY <1>1, <2>1, <2>3, <2>5
    <2>11. PICK j \in DOMAIN input : pos' = j + 1 /\ handled' = FramesTo(j) /\ (j + 1 \in DOMAIN input => IsHeader(j + 1))
      BY <2>5, <2>9, <2>10
    <2> QED
      BY <1>7, <2>1, <2>9, <2>11
  <1>17. CASE run
    <2>1. pc = "left" /\ pc' = "done" /\ inStep' = inStep /\ handled' = handled
      BY <1>17 DEF run, readVars
    <2>2. Ended
      BY <1>0, <1>19, <2>1 DEF InStep
    <2>3. Ended'
      BY <1>2, <1>3, <2>1, <2>2 DEF Ended
    <2> QED
      BY <1>4, <1>5, <2>1, <2>3
  <1>20. CASE Crash
    BY <1>0, <1>19, <1>20 DEF Crash, PastSlipped
  <1>18. CASE writeTask
    <2>1. UNCHANGED <<input, pos, inStep, pc, frameHeader, padding, open, handled, slipped>>
      BY <1>18 DEF writeTask, readVars
    <2>2. InStep
      BY <1>0
    <2> QED
      BY <2>1, <2>2, InStepUnchanged
  <1> QED
    BY <1>8, <1>9, <1>10, <1>11, <1>12, <1>13, <1>14, <1>15, <1>16, <1>17, <1>18, <1>20 DEF Next, Reader

-----------------------------------------------------------------------------
(* The theorems.                                                           *)

\* The reader is always where its client's stream says it is, until padding is
\* discarded behind stale indices; and only then are its indices past the data.
THEOREM Invariance == Spec => []IInv
  <1>1. IInv /\ [Next]_vars => IInv'
    <2> SUFFICES ASSUME IInv, [Next]_vars PROVE IInv'
      OBVIOUS
    <2>1. CASE Next
      BY <2>1, TypeKept, SettingsKept, InStepKept DEF IInv
    <2>2. CASE UNCHANGED vars
      <3>1. UNCHANGED <<input, pos, inStep, indices, pc, frameHeader, padding, open, writer, handled, slipped>>
        BY <2>2 DEF vars
      <3>2. InStep'
        BY <3>1, InStepUnchanged DEF IInv
      <3> QED
        BY <3>1, <3>2 DEF IInv, TypeOK, InputEnd, Counted, PastSlipped, SettingsSeen, SettingsFirst
    <2> QED
      BY <2>1, <2>2
  <1> QED
    BY InitEstablishes, <1>1, PTL DEF Spec

\* Of a client whose frames have no content, the first frames are dispatched, in
\* their order, and all of them unless one is refused, as long as no padding was
\* discarded behind stale indices.
LEMMA InStepIsFramesInStep == IInv => FramesInStep
  <1> SUFFICES ASSUME IInv, Contentless, ~slipped PROVE FramesInStep
    BY DEF FramesInStep
  <1>1. TypeOK /\ PastSlipped /\ SettingsSeen /\ InStep
    BY DEF IInv
  <1>2. /\ InputOK /\ handled \in Seq(FrameHeader) /\ pos \in 1 .. (Len(input) + 1) /\ Len(input) \in Nat
        /\ DOMAIN input = 1 .. Len(input)
        /\ pc \in {"start", "preface", "settings", "checkSettings", "loop", "dispatch", "priority", "padding", "left", "done"}
    BY <1>1, Typed DEF TypeOK, PastSlipped
  <1>3. inStep
    BY <1>1 DEF InStep
  <1>4. CASE pc \in {"left", "done"}
    BY <1>1, <1>2, <1>3, <1>4, EndedIs DEF FramesInStep, InStep
  <1>5. CASE pc \notin {"left", "done"}
    <2>1. \E i \in 0 .. Len(input) : handled = FramesTo(i)
      <3>1. CASE pc \in {"start", "preface", "settings", "checkSettings"}
        <4>1. handled = FramesTo(0)
          BY <1>1, <1>2, <3>1, FramesToIs DEF SettingsSeen
        <4> QED
          BY <1>2, <4>1
      <3>2. CASE pc = "loop"
        <4>1. handled = FramesTo(pos - 1) /\ pos - 1 \in 0 .. Len(input)
          BY <1>1, <1>2, <3>2 DEF InStep
        <4> QED
          BY <4>1
      <3>3. CASE pc = "dispatch"
        <4>1. handled = FramesTo(pos - 2) /\ pos - 1 \in 1 .. Len(input)
          BY <1>1, <1>2, <3>3 DEF InStep, FrameAt
        <4>2. pos - 2 \in 0 .. Len(input)
          BY <1>2, <4>1
        <4> QED
          BY <4>1, <4>2
      <3>4. CASE pc \in {"priority", "padding"}
        <4>1. PICK i \in DOMAIN input : InHeaders(i)
          BY <1>1, <3>4 DEF InStep
        <4>2. handled = FramesTo(i) /\ i \in 0 .. Len(input)
          BY <1>2, <4>1 DEF InHeaders
        <4> QED
          BY <4>2
      <3> QED
        BY <1>2, <1>5, <3>1, <3>2, <3>3, <3>4
    <2> QED
      BY <1>2, <1>3, <1>5, <2>1, FramesPrefix DEF FramesInStep
  <1> QED
    BY <1>4, <1>5

\* A length is the number sent, unless one of its bytes is negative as char.
LEMMA LengthsExact == TypeOK => LengthExact
  <1> SUFFICES ASSUME TypeOK PROVE LengthExact
    OBVIOUS
  <1>1. frameHeader.length \in [1 .. 3 -> Byte]
    BY DEF TypeOK, FrameHeader
  <1> QED
    BY <1>1, ThreeBytes DEF LengthExact, getFrameLength

\* Frames are handled as the client sent them, for every set of inputs and every
\* number of values of a byte: after its preface and SETTINGS, in their order,
\* none skipped until padding is discarded behind stale indices, with their
\* lengths.
THEOREM FramesRight == Spec => []FramesAsSent
  <1>1. IInv => FramesAsSent
    BY InStepIsFramesInStep, LengthsExact DEF IInv, SettingsSeen, FramesAsSent
  <1> QED
    BY Invariance, <1>1, PTL
=============================================================================
