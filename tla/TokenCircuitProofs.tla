------------------------- MODULE TokenCircuitProofs -------------------------
(***************************************************************************)
(* For every set of tokens, keys and leaves: what the circuit accepts was  *)
(* signed, and what the host builds is accepted.                           *)
(***************************************************************************)
EXTENDS TokenCircuit, Sha256Proofs

-----------------------------------------------------------------------------
(* Base64: every index has a character of its own, and none is a dot.      *)

LEMMA TableIs ==
    ASSUME NEW i \in 0..63
    PROVE  /\ Base64Table[i] \in Byte /\ Base64Table[i] # DotChar /\ Base64Table[i] # 0
           /\ Base64Table[i] # Marker
           /\ DecodeCharOk(Base64Table[i]) /\ DecodeChar(Base64Table[i]) = i
  <1>1. CASE i < 26
    BY <1>1 DEF Base64Table, Byte, DotChar, Marker, DecodeCharOk, DecodeChar
  <1>2. CASE i >= 26 /\ i < 52
    BY <1>2 DEF Base64Table, Byte, DotChar, Marker, DecodeCharOk, DecodeChar
  <1>3. CASE i >= 52 /\ i < 62
    BY <1>3 DEF Base64Table, Byte, DotChar, Marker, DecodeCharOk, DecodeChar
  <1>4. CASE i >= 62
    BY <1>4 DEF Base64Table, Byte, DotChar, Marker, DecodeCharOk, DecodeChar
  <1>. QED
    BY <1>1, <1>2, <1>3, <1>4

LEMMA Characters ==
    /\ 65 \in Byte /\ 65 # DotChar /\ Base64Table[0] = 65 /\ DotChar \in Byte
    /\ Normalized(0) = 65 /\ \A c \in Byte \ {0} : Normalized(c) = c
  BY DEF Base64Table, Byte, DotChar, Normalized


\* What is assumed of a token.
GoodToken(t) ==
    /\ IsClaims(t) /\ t.rest \in Bytes /\ t.signed \in BOOLEAN
    /\ t.header \in Nat /\ 8 * Len(Message(t)) < 256 * 256 * 256

LEMMA TokensAreGood == ASSUME NEW t \in Tokens PROVE GoodToken(t)
  BY TokensAssumption DEF GoodToken, Bytes

LEMMA ValueIsByte ==
    ASSUME NEW t, IsClaims(t), NEW j \in 1..5
    PROVE  /\ ValueIn(t, j) \in Byte /\ ValueIn(t, j) \notin WhiteSpace
           /\ ValueIn(t, j) \notin Terminators
  BY DEF IsClaims

LEMMA ClaimByteIs ==
    ASSUME NEW t, IsClaims(t), NEW j \in 1..5, NEW m
    PROVE  ClaimByte(t, j, m) \in Byte
  <1>1. ValueIn(t, j) \in Byte
    BY ValueIsByte
  <1>2. j \in Byte /\ AfterValue(j) \in Byte /\ 44 \in Byte
    BY DEF AfterValue, QuoteChar, Byte
  <1>. QED
    BY <1>1, <1>2 DEF ClaimByte

\* The issuer's five claims, and what follows.
LEMMA TextIs ==
    ASSUME NEW t, GoodToken(t)
    PROVE  /\ TextOf(t) \in Bytes /\ Len(TextOf(t)) \in Nat /\ Len(TextOf(t)) >= 20
           /\ \A g \in 0..4, m \in 1..4 : TextOf(t)[4 * g + m] = ClaimByte(t, g + 1, m)
  <1>r. PICK r : r = t.rest
    OBVIOUS
  <1>1. r \in Bytes /\ IsClaims(t)
    BY <1>r DEF GoodToken
  <1>n. PICK n \in Nat : n = Len(r)
    BY <1>1, ByteSeq
  <1>x. PICK x : x = TextOf(t)
    OBVIOUS
  <1>2. x = [k \in 1..(20 + n) |->
                IF k <= 20 THEN ClaimByte(t, ((k - 1) \div 4) + 1, ((k - 1) % 4) + 1) ELSE r[k - 20]]
    BY <1>r, <1>n, <1>x DEF TextOf
  <1>3. ASSUME NEW k \in 1..(20 + n) PROVE x[k] \in Byte
    <2>1. CASE k <= 20
      <3>1. ((k - 1) \div 4) + 1 \in 1..5
        BY <2>1
      <3>2. ClaimByte(t, ((k - 1) \div 4) + 1, ((k - 1) % 4) + 1) \in Byte
        BY ONLY <1>1, <3>1, ClaimByteIs
      <3>. QED
        BY <1>2, <2>1, <3>2
    <2>2. CASE ~(k <= 20)
      <3>1. k - 20 \in 1..n
        BY <2>2
      <3>2. r[k - 20] \in Byte
        BY <1>1, <1>n, <3>1, ByteSeq
      <3>. QED
        BY <1>2, <2>2, <3>2
    <2>. QED
      BY <2>1, <2>2
  <1>4. PICK size \in Nat : size = 20 + n
    OBVIOUS
  <1>5. x \in Bytes /\ Len(x) = size
    <2>1. x \in [1..size -> Byte]
      BY <1>2, <1>3, <1>4
    <2>. QED
      BY <2>1, Built
  <1>6. ASSUME NEW g \in 0..4, NEW m \in 1..4 PROVE x[4 * g + m] = ClaimByte(t, g + 1, m)
    <2>1. PICK k \in 1..(20 + n) : k = 4 * g + m
      <3>1. 4 * g + m \in 1..(20 + n)
        OBVIOUS
      <3>. QED
        BY <3>1
    <2>2. k <= 20 /\ (k - 1) \div 4 = g /\ (k - 1) % 4 = m - 1
      BY <2>1
    <2>3. x[k] = ClaimByte(t, ((k - 1) \div 4) + 1, ((k - 1) % 4) + 1)
      BY <1>2, <2>2
    <2>4. ((k - 1) % 4) + 1 = m
      BY <2>2
    <2>. QED
      BY <2>1, <2>2, <2>3, <2>4
  <1>. QED
    BY <1>x, <1>4, <1>5, <1>6

-----------------------------------------------------------------------------
(* Encoding: four indices of six bits for three bytes.                     *)

LEMMA ByteAtIs ==
    ASSUME NEW x \in Bytes, NEW i \in Nat, i # 0
    PROVE  ByteAt(x, i) \in 0..255
  <1>1. Len(x) \in Nat /\ \A k \in 1..Len(x) : x[k] \in Byte
    BY ByteSeq
  <1>2. i <= Len(x) => i \in 1..Len(x)
    BY <1>1
  <1>. QED
    BY <1>1, <1>2 DEF ByteAt, Byte

Group(x, g, a, b, c) ==
    a = ByteAt(x, 3 * g + 1) /\ b = ByteAt(x, 3 * g + 2) /\ c = ByteAt(x, 3 * g + 3)

LEMMA GroupBytes ==
    ASSUME NEW x \in Bytes, NEW g \in Nat
    PROVE  \E a, b, c \in 0..255 : Group(x, g, a, b, c)
  <1>1. PICK i \in Nat, j \in Nat, k \in Nat :
            i = 3 * g + 1 /\ j = 3 * g + 2 /\ k = 3 * g + 3 /\ i # 0 /\ j # 0 /\ k # 0
    OBVIOUS
  <1>2. ByteAt(x, i) \in 0..255 /\ ByteAt(x, j) \in 0..255 /\ ByteAt(x, k) \in 0..255
    BY <1>1, ByteAtIs
  <1>. QED
    BY <1>1, <1>2 DEF Group

LEMMA SixBitsCase ==
    ASSUME NEW x, NEW k \in Nat, NEW g \in Nat, (k - 1) \div 4 = g
    PROVE  /\ k % 4 = 1 => SixBits(x, k) = ByteAt(x, 3 * g + 1) \div 4
           /\ k % 4 = 2 => SixBits(x, k) = (ByteAt(x, 3 * g + 1) % 4) * 16 + ByteAt(x, 3 * g + 2) \div 16
           /\ k % 4 = 3 => SixBits(x, k) = (ByteAt(x, 3 * g + 2) % 16) * 4 + ByteAt(x, 3 * g + 3) \div 64
           /\ k % 4 = 0 => SixBits(x, k) = ByteAt(x, 3 * g + 3) % 64
  <1>r. PICK r : r = k % 4
    OBVIOUS
  <1>. QED
    BY <1>r DEF SixBits

\* The four indices of a group.
Split(a, b, c, e, f, h, l) ==
    e = a \div 4 /\ f = (a % 4) * 16 + b \div 16 /\ h = (b % 16) * 4 + c \div 64 /\ l = c % 64

LEMMA SixBitsAre ==
    ASSUME NEW x \in Bytes, NEW g \in Nat, NEW a, NEW b, NEW c, Group(x, g, a, b, c)
    PROVE  Split(a, b, c, SixBits(x, 4 * g + 1), SixBits(x, 4 * g + 2),
                 SixBits(x, 4 * g + 3), SixBits(x, 4 * g + 4))
  <1>1. PICK k1 \in Nat, k2 \in Nat, k3 \in Nat, k4 \in Nat :
            k1 = 4 * g + 1 /\ k2 = 4 * g + 2 /\ k3 = 4 * g + 3 /\ k4 = 4 * g + 4
    OBVIOUS
  <1>2. /\ (k1 - 1) \div 4 = g /\ k1 % 4 = 1 /\ (k2 - 1) \div 4 = g /\ k2 % 4 = 2
        /\ (k3 - 1) \div 4 = g /\ k3 % 4 = 3 /\ (k4 - 1) \div 4 = g /\ k4 % 4 = 0
    BY <1>1
  <1>3. /\ SixBits(x, k1) = ByteAt(x, 3 * g + 1) \div 4
        /\ SixBits(x, k2) = (ByteAt(x, 3 * g + 1) % 4) * 16 + ByteAt(x, 3 * g + 2) \div 16
        /\ SixBits(x, k3) = (ByteAt(x, 3 * g + 2) % 16) * 4 + ByteAt(x, 3 * g + 3) \div 64
        /\ SixBits(x, k4) = ByteAt(x, 3 * g + 3) % 64
    BY <1>2, SixBitsCase
  <1>. QED
    BY <1>1, <1>3 DEF Group, Split

\* A position is one of the four of a group.
LEMMA OfFour ==
    ASSUME NEW k \in Nat, k # 0
    PROVE  \E g \in Nat : k = 4 * g + 1 \/ k = 4 * g + 2 \/ k = 4 * g + 3 \/ k = 4 * g + 4
  <1>1. PICK g \in Nat, r \in 0..3 : k - 1 = 4 * g + r
    <2>1. (k - 1) \div 4 \in Nat /\ (k - 1) % 4 \in 0..3 /\ k - 1 = 4 * ((k - 1) \div 4) + ((k - 1) % 4)
      OBVIOUS
    <2>. QED
      BY <2>1
  <1>2. k = 4 * g + 1 \/ k = 4 * g + 2 \/ k = 4 * g + 3 \/ k = 4 * g + 4
    BY <1>1
  <1>. QED
    BY <1>2

LEMMA OfThree ==
    ASSUME NEW k \in Nat, k # 0
    PROVE  \E g \in Nat : k = 3 * g + 1 \/ k = 3 * g + 2 \/ k = 3 * g + 3
  <1>1. PICK g \in Nat, r \in 0..2 : k - 1 = 3 * g + r
    <2>1. (k - 1) \div 3 \in Nat /\ (k - 1) % 3 \in 0..2 /\ k - 1 = 3 * ((k - 1) \div 3) + ((k - 1) % 3)
      OBVIOUS
    <2>. QED
      BY <2>1
  <1>2. k = 3 * g + 1 \/ k = 3 * g + 2 \/ k = 3 * g + 3
    BY <1>1
  <1>. QED
    BY <1>2

LEMMA SixBitsFit ==
    ASSUME NEW a \in 0..255, NEW b \in 0..255, NEW c \in 0..255,
           NEW e, NEW f, NEW h, NEW l, Split(a, b, c, e, f, h, l)
    PROVE  e \in 0..63 /\ f \in 0..63 /\ h \in 0..63 /\ l \in 0..63
  <1>1. a % 4 \in 0..3 /\ b \div 16 \in 0..15 /\ b % 16 \in 0..15 /\ c \div 64 \in 0..3
    OBVIOUS
  <1>2. /\ a \div 4 \in 0..63 /\ (a % 4) * 16 + b \div 16 \in 0..63
        /\ (b % 16) * 4 + c \div 64 \in 0..63 /\ c % 64 \in 0..63
    BY <1>1
  <1>. QED
    BY <1>2, Zenon DEF Split

LEMMA SixBitsRange ==
    ASSUME NEW x \in Bytes, NEW k \in Nat, k # 0
    PROVE  SixBits(x, k) \in 0..63
  <1>1. PICK g \in Nat : k = 4 * g + 1 \/ k = 4 * g + 2 \/ k = 4 * g + 3 \/ k = 4 * g + 4
    BY OfFour
  <1>2. PICK a \in 0..255, b \in 0..255, c \in 0..255 : Group(x, g, a, b, c)
    BY GroupBytes
  <1>3. /\ SixBits(x, 4 * g + 1) \in 0..63 /\ SixBits(x, 4 * g + 2) \in 0..63
        /\ SixBits(x, 4 * g + 3) \in 0..63 /\ SixBits(x, 4 * g + 4) \in 0..63
    <2>1. Split(a, b, c, SixBits(x, 4 * g + 1), SixBits(x, 4 * g + 2),
                SixBits(x, 4 * g + 3), SixBits(x, 4 * g + 4))
      BY <1>2, SixBitsAre
    <2>2. PICK e, f, h, l : /\ e = SixBits(x, 4 * g + 1) /\ f = SixBits(x, 4 * g + 2)
                            /\ h = SixBits(x, 4 * g + 3) /\ l = SixBits(x, 4 * g + 4)
      OBVIOUS
    <2>3. Split(a, b, c, e, f, h, l)
      BY <2>1, <2>2, Zenon
    <2>4. e \in 0..63 /\ f \in 0..63 /\ h \in 0..63 /\ l \in 0..63
      BY <2>3, SixBitsFit
    <2>. QED
      BY <2>2, <2>4, Zenon
  <1>. QED
    BY <1>1, <1>3

\* Behind the last character come zero bits only.
LEMMA SixBitsEnd ==
    ASSUME NEW x \in Bytes, NEW n \in Nat, n = Len(x), NEW k \in Nat, k > (4 * n + 2) \div 3
    PROVE  SixBits(x, k) = 0
  <1>0. 3 * k > 4 * n + 2
    <2>1. PICK d \in Nat : d = (4 * n + 2) \div 3 /\ 3 * d + 2 >= 4 * n + 2
      <3>1. (4 * n + 2) \div 3 \in Nat /\ 3 * ((4 * n + 2) \div 3) + 2 >= 4 * n + 2
        OBVIOUS
      <3>. QED
        BY <3>1
    <2>2. k >= d + 1
      BY <2>1
    <2>. QED
      BY <2>1, <2>2
  <1>1. PICK g \in Nat : k = 4 * g + 1 \/ k = 4 * g + 2 \/ k = 4 * g + 3 \/ k = 4 * g + 4
    <2>1. k # 0
      BY <1>0
    <2>. QED
      BY <2>1, OfFour
  <1>2. PICK a \in 0..255, b \in 0..255, c \in 0..255 : Group(x, g, a, b, c)
    BY GroupBytes
  <1>b. Split(a, b, c, SixBits(x, 4 * g + 1), SixBits(x, 4 * g + 2),
              SixBits(x, 4 * g + 3), SixBits(x, 4 * g + 4))
    BY <1>2, SixBitsAre
  <1>3. /\ 3 * g + 1 > n => a = 0
        /\ 3 * g + 2 > n => b = 0
        /\ 3 * g + 3 > n => c = 0
    <2>1. ~(3 * g + 1 <= n) => a = 0
      BY <1>2 DEF Group, ByteAt
    <2>2. ~(3 * g + 2 <= n) => b = 0
      BY <1>2 DEF Group, ByteAt
    <2>3. ~(3 * g + 3 <= n) => c = 0
      BY <1>2 DEF Group, ByteAt
    <2>. QED
      BY <2>1, <2>2, <2>3
  <1>4. CASE k = 4 * g + 1
    <2>1. a = 0
      BY <1>0, <1>3, <1>4
    <2>. QED
      BY <1>b, <1>4, <2>1 DEF Split
  <1>5. CASE k = 4 * g + 2
    <2>1. a = 0 /\ b = 0
      BY <1>0, <1>3, <1>5
    <2>2. (a % 4) * 16 + b \div 16 = 0
      BY <2>1
    <2>. QED
      BY <1>b, <1>5, <2>2 DEF Split
  <1>6. CASE k = 4 * g + 3
    <2>1. b = 0 /\ c = 0
      BY <1>0, <1>3, <1>6
    <2>2. (b % 16) * 4 + c \div 64 = 0
      BY <2>1
    <2>. QED
      BY <1>b, <1>6, <2>2 DEF Split
  <1>7. CASE k = 4 * g + 4
    <2>1. c = 0
      BY <1>0, <1>3, <1>7
    <2>. QED
      BY <1>b, <1>7, <2>1 DEF Split
  <1>. QED
    BY <1>1, <1>4, <1>5, <1>6, <1>7

\* Decoding gives the bytes back, and zeros behind them.
Join(a, b, c, e, f, h, l) ==
    e * 4 + f \div 16 = a /\ (f % 16) * 16 + h \div 4 = b /\ (h % 4) * 64 + l = c

LEMMA BitsJoin ==
    ASSUME NEW a \in 0..255, NEW b \in 0..255, NEW c \in 0..255,
           NEW e, NEW f, NEW h, NEW l, Split(a, b, c, e, f, h, l)
    PROVE  Join(a, b, c, e, f, h, l)
  <1>1. PICK p \in 0..63, q \in 0..3 : p = a \div 4 /\ q = a % 4 /\ a = 4 * p + q
    OBVIOUS
  <1>2. PICK r \in 0..15, s \in 0..15 : r = b \div 16 /\ s = b % 16 /\ b = 16 * r + s
    OBVIOUS
  <1>3. PICK u \in 0..3, v \in 0..63 : u = c \div 64 /\ v = c % 64 /\ c = 64 * u + v
    OBVIOUS
  <1>4. (q * 16 + r) \div 16 = q /\ (q * 16 + r) % 16 = r
    BY <1>1, <1>2
  <1>5. (s * 4 + u) \div 4 = s /\ (s * 4 + u) % 4 = u
    BY <1>2, <1>3
  <1>6. e = p /\ f = q * 16 + r /\ h = s * 4 + u /\ l = v
    BY <1>1, <1>2, <1>3 DEF Split
  <1>. QED
    BY <1>1, <1>2, <1>3, <1>4, <1>5, <1>6 DEF Join

LEMMA JoinsBack ==
    ASSUME NEW x \in Bytes, NEW q \in Nat, NEW m \in Nat, m = 4 * q,
           NEW i, i = [k \in 1..m |-> SixBits(x, k)]
    PROVE  /\ JoinBits(i) = [k \in 1..(3 * q) |-> ByteAt(x, k)]
  <1>1. Len(i) = m /\ Len(i) \div 4 = q
    <2>1. Len(i) = m
      OBVIOUS
    <2>. QED
      BY <2>1
  <1>j. PICK j : j = JoinBits(i)
    OBVIOUS
  <1>2. j = [k \in 1..(3 * q) |->
                LET g == 4 * ((k - 1) \div 3)
                IN CASE k % 3 = 1 -> i[g + 1] * 4 + i[g + 2] \div 16
                     [] k % 3 = 2 -> (i[g + 2] % 16) * 16 + i[g + 3] \div 4
                     [] OTHER -> (i[g + 3] % 4) * 64 + i[g + 4]]
    BY <1>1, <1>j DEF JoinBits
  <1>3. ASSUME NEW k \in 1..(3 * q) PROVE j[k] = ByteAt(x, k)
    <2>1. PICK g \in Nat : k = 3 * g + 1 \/ k = 3 * g + 2 \/ k = 3 * g + 3
      <3>1. k \in Nat /\ k # 0
        OBVIOUS
      <3>. QED
        BY <3>1, OfThree
    <2>2. PICK a \in 0..255, b \in 0..255, c \in 0..255 : Group(x, g, a, b, c)
      BY GroupBytes
    <2>3. /\ 4 * g + 1 \in 1..m /\ 4 * g + 2 \in 1..m /\ 4 * g + 3 \in 1..m /\ 4 * g + 4 \in 1..m
      <3>1. g + 1 <= q
        BY <2>1
      <3>. QED
        BY <3>1
    <2>4. Join(a, b, c, i[4 * g + 1], i[4 * g + 2], i[4 * g + 3], i[4 * g + 4])
      <3>1. /\ i[4 * g + 1] = SixBits(x, 4 * g + 1) /\ i[4 * g + 2] = SixBits(x, 4 * g + 2)
            /\ i[4 * g + 3] = SixBits(x, 4 * g + 3) /\ i[4 * g + 4] = SixBits(x, 4 * g + 4)
        BY <2>3
      <3>2. Split(a, b, c, SixBits(x, 4 * g + 1), SixBits(x, 4 * g + 2),
                  SixBits(x, 4 * g + 3), SixBits(x, 4 * g + 4))
        BY <2>2, SixBitsAre
      <3>3. Split(a, b, c, i[4 * g + 1], i[4 * g + 2], i[4 * g + 3], i[4 * g + 4])
        BY <3>1, <3>2, Zenon
      <3>. QED
        BY <3>3, BitsJoin
    <2>5. ASSUME NEW h, h = 4 * ((k - 1) \div 3)
          PROVE  /\ k % 3 = 1 => j[k] = i[h + 1] * 4 + i[h + 2] \div 16
                 /\ k % 3 = 2 => j[k] = (i[h + 2] % 16) * 16 + i[h + 3] \div 4
                 /\ k % 3 = 0 => j[k] = (i[h + 3] % 4) * 64 + i[h + 4]
      <3>1. j[k] = CASE k % 3 = 1 -> i[h + 1] * 4 + i[h + 2] \div 16
                     [] k % 3 = 2 -> (i[h + 2] % 16) * 16 + i[h + 3] \div 4
                     [] OTHER -> (i[h + 3] % 4) * 64 + i[h + 4]
        BY <1>2, <2>5
      <3>r. PICK r : r = k % 3
        OBVIOUS
      <3>2. ~(1 = 2) /\ ~(0 = 1) /\ ~(0 = 2)
        OBVIOUS
      <3>. QED
        BY <3>1, <3>r, <3>2
    <2>h. PICK h \in Nat : h = 4 * g
      OBVIOUS
    <2>6. CASE k = 3 * g + 1
      <3>1. k % 3 = 1 /\ (k - 1) \div 3 = g
        BY <2>6
      <3>2. h = 4 * ((k - 1) \div 3)
        BY <2>h, <3>1
      <3>3. j[k] = i[h + 1] * 4 + i[h + 2] \div 16
        BY <2>5, <3>1, <3>2
      <3>. QED
        BY <2>2, <2>4, <2>h, <2>6, <3>3 DEF Group, Join
    <2>7. CASE k = 3 * g + 2
      <3>1. k % 3 = 2 /\ (k - 1) \div 3 = g
        BY <2>7
      <3>2. h = 4 * ((k - 1) \div 3)
        BY <2>h, <3>1
      <3>3. j[k] = (i[h + 2] % 16) * 16 + i[h + 3] \div 4
        BY <2>5, <3>1, <3>2
      <3>. QED
        BY <2>2, <2>4, <2>h, <2>7, <3>3 DEF Group, Join
    <2>8. CASE k = 3 * g + 3
      <3>1. k % 3 = 0 /\ (k - 1) \div 3 = g
        BY <2>8
      <3>2. h = 4 * ((k - 1) \div 3)
        BY <2>h, <3>1
      <3>3. j[k] = (i[h + 3] % 4) * 64 + i[h + 4]
        BY <2>5, <3>1, <3>2
      <3>. QED
        BY <2>2, <2>4, <2>h, <2>8, <3>3 DEF Group, Join
    <2>. QED
      BY <2>1, <2>6, <2>7, <2>8
  <1>4. j = [k \in 1..(3 * q) |-> j[k]]
    BY <1>2
  <1>. QED
    BY <1>j, <1>3, <1>4

-----------------------------------------------------------------------------
(* The message: header, dot, payload.                                      *)

PayloadLen(t) == (4 * Len(TextOf(t)) + 2) \div 3
PayloadIndex(t, c) == SixBits(TextOf(t), c)

LEMMA PayloadIndexIs ==
    ASSUME NEW t, GoodToken(t), NEW c \in Nat, c # 0
    PROVE  PayloadIndex(t, c) \in 0..63
  BY TextIs, SixBitsRange DEF PayloadIndex

LEMMA PayloadSize ==
    ASSUME NEW t, GoodToken(t)
    PROVE  PayloadLen(t) \in Nat /\ PayloadLen(t) >= 27
  <1>1. PICK n \in Nat : n = Len(TextOf(t)) /\ n >= 20
    BY TextIs
  <1>2. (4 * n + 2) \div 3 \in Nat /\ (4 * n + 2) \div 3 >= 27
    BY <1>1
  <1>. QED
    BY <1>1, <1>2 DEF PayloadLen

LEMMA SameLetter ==
    ASSUME NEW n \in Nat, NEW b \in Byte
    PROVE  /\ [k \in 1..n |-> b] \in Bytes /\ Len([k \in 1..n |-> b]) = n
           /\ \A k \in 1..n : [j \in 1..n |-> b][k] = b
  <1>1. [k \in 1..n |-> b] \in [1..n -> Byte]
    OBVIOUS
  <1>. QED
    BY <1>1, Built

LEMMA DotIs == <<DotChar>> \in Bytes /\ Len(<<DotChar>>) = 1 /\ <<DotChar>>[1] = DotChar
  BY DEF Bytes, Byte, DotChar

LEMMA PayloadIs ==
    ASSUME NEW t, GoodToken(t)
    PROVE  /\ Payload(t) \in Bytes /\ Len(Payload(t)) = PayloadLen(t)
           /\ \A c \in 1..PayloadLen(t) : Payload(t)[c] = Base64Table[PayloadIndex(t, c)]
  <1>n. PICK n \in Nat : n = PayloadLen(t)
    BY PayloadSize
  <1>x. PICK x : x = Payload(t)
    OBVIOUS
  <1>1. x = [c \in 1..n |-> Base64Table[PayloadIndex(t, c)]]
    BY <1>n, <1>x DEF Payload, Encoded, PayloadLen, PayloadIndex
  <1>2. ASSUME NEW c \in 1..n PROVE Base64Table[PayloadIndex(t, c)] \in Byte
    <2>1. c \in Nat /\ c # 0
      OBVIOUS
    <2>. QED
      BY <2>1, PayloadIndexIs, TableIs
  <1>3. x \in [1..n -> Byte]
    BY <1>1, <1>2
  <1>. QED
    BY <1>n, <1>x, <1>1, <1>3, Built

LEMMA MessageIs ==
    ASSUME NEW t, GoodToken(t)
    PROVE  /\ Message(t) \in Bytes /\ Len(Message(t)) = t.header + 1 + PayloadLen(t)
           /\ \A k \in 1..t.header : Message(t)[k] = 104
           /\ Message(t)[t.header + 1] = DotChar
           /\ \A c \in 1..PayloadLen(t) : Message(t)[t.header + 1 + c] = Payload(t)[c]
  <1>h. PICK h \in Nat : h = t.header
    BY DEF GoodToken
  <1>n. PICK n \in Nat : n = PayloadLen(t)
    BY PayloadSize
  <1>a. PICK a : a = [k \in 1..h |-> 104]
    OBVIOUS
  <1>d. PICK d : d = <<DotChar>>
    OBVIOUS
  <1>y. PICK y : y = Payload(t)
    OBVIOUS
  <1>1. /\ a \in Bytes /\ Len(a) = h /\ \A k \in 1..h : a[k] = 104
        /\ d \in Bytes /\ Len(d) = 1 /\ d[1] = DotChar
    <2>1. 104 \in Byte
      BY DEF Byte
    <2>2. a \in Bytes /\ Len(a) = h /\ \A k \in 1..h : a[k] = 104
      BY <1>a, <2>1, SameLetter
    <2>. QED
      BY <1>d, <2>2, DotIs
  <1>2. y \in Bytes /\ Len(y) = n
    BY <1>n, <1>y, PayloadIs
  <1>p. PICK p : p = a \o d
    OBVIOUS
  <1>q. PICK q : q = p \o y
    OBVIOUS
  <1>3. /\ p \in Bytes /\ Len(p) = h + 1
        /\ \A k \in 1..(h + 1) : p[k] = IF k <= h THEN a[k] ELSE d[k - h]
    <2>1. /\ p \in Bytes /\ Len(p) = Len(a) + Len(d)
          /\ \A k \in 1..(Len(a) + Len(d)) : p[k] = IF k <= Len(a) THEN a[k] ELSE d[k - Len(a)]
      BY <1>1, <1>p, Joined
    <2>. QED
      BY <1>1, <2>1
  <1>4. /\ q \in Bytes /\ Len(q) = (h + 1) + n
        /\ \A k \in 1..((h + 1) + n) : q[k] = IF k <= h + 1 THEN p[k] ELSE y[k - (h + 1)]
    <2>1. /\ q \in Bytes /\ Len(q) = Len(p) + Len(y)
          /\ \A k \in 1..(Len(p) + Len(y)) : q[k] = IF k <= Len(p) THEN p[k] ELSE y[k - Len(p)]
      BY <1>2, <1>3, <1>q, Joined
    <2>2. Len(p) = h + 1 /\ Len(y) = n
      BY <1>2, <1>3
    <2>. QED
      BY <2>1, <2>2
  <1>5. ASSUME NEW k \in 1..h PROVE q[k] = 104
    <2>1. k \in 1..(h + 1) /\ k \in 1..((h + 1) + n) /\ k <= h + 1 /\ k <= h
      OBVIOUS
    <2>. QED
      BY <1>1, <1>3, <1>4, <2>1
  <1>6. q[h + 1] = DotChar
    <2>1. h + 1 \in 1..(h + 1) /\ h + 1 \in 1..((h + 1) + n) /\ h + 1 <= h + 1 /\ ~(h + 1 <= h) /\ h + 1 - h = 1
      OBVIOUS
    <2>2. q[h + 1] = p[h + 1] /\ p[h + 1] = d[h + 1 - h]
      BY <1>3, <1>4, <2>1
    <2>. QED
      BY <1>1, <2>1, <2>2
  <1>7. ASSUME NEW c \in 1..n PROVE q[h + 1 + c] = y[c]
    <2>1. h + 1 + c \in 1..((h + 1) + n) /\ ~(h + 1 + c <= h + 1) /\ h + 1 + c - (h + 1) = c
      OBVIOUS
    <2>2. q[h + 1 + c] = y[h + 1 + c - (h + 1)]
      BY <1>4, <2>1
    <2>. QED
      BY <2>1, <2>2
  <1>8. q = Message(t)
    BY <1>h, <1>a, <1>d, <1>y, <1>p, <1>q DEF Message
  <1>. QED
    BY <1>h, <1>n, <1>y, <1>4, <1>5, <1>6, <1>7, <1>8

\* One dot in it, and no byte that could be taken for a padding's first.
LEMMA MessageBytes ==
    ASSUME NEW t, GoodToken(t), NEW k \in 1..Len(Message(t))
    PROVE  /\ Message(t)[k] # Marker
           /\ Message(t)[k] = DotChar <=> k = t.header + 1
  <1>h. PICK h \in Nat : h = t.header
    BY DEF GoodToken
  <1>n. PICK n \in Nat : n = PayloadLen(t)
    BY PayloadSize
  <1>1. Len(Message(t)) = h + 1 + n
    BY <1>h, <1>n, MessageIs
  <1>2. CASE k \in 1..h
    <2>1. Message(t)[k] = 104
      BY <1>h, <1>2, MessageIs
    <2>. QED
      BY <1>h, <1>2, <2>1 DEF Marker, DotChar
  <1>3. CASE k = h + 1
    <2>1. Message(t)[k] = DotChar
      BY <1>h, <1>3, MessageIs
    <2>. QED
      BY <1>h, <1>3, <2>1 DEF Marker, DotChar
  <1>4. CASE k > h + 1
    <2>1. PICK c \in 1..n : k = h + 1 + c
      <3>1. k - (h + 1) \in 1..n /\ k = h + 1 + (k - (h + 1))
        BY <1>1, <1>4
      <3>. QED
        BY <3>1
    <2>2. Message(t)[k] = Payload(t)[c]
      BY <1>h, <1>n, <2>1, MessageIs
    <2>3. Payload(t)[c] = Base64Table[PayloadIndex(t, c)]
      BY <1>n, PayloadIs
    <2>4. PayloadIndex(t, c) \in 0..63
      <3>1. c \in Nat /\ c # 0
        OBVIOUS
      <3>. QED
        BY <3>1, PayloadIndexIs
    <2>5. Message(t)[k] # Marker /\ Message(t)[k] # DotChar
      BY <2>2, <2>3, <2>4, TableIs
    <2>6. k # t.header + 1
      BY <1>h, <1>4
    <2>. QED
      BY <2>5, <2>6
  <1>5. k \in Nat /\ 1 <= k
    <2>1. Len(Message(t)) \in Nat
      BY <1>1
    <2>. QED
      BY <2>1
  <1>6. k \in 1..h \/ k = h + 1 \/ k > h + 1
    BY <1>5
  <1>. QED
    BY <1>2, <1>3, <1>4, <1>6

-----------------------------------------------------------------------------
(* The buffer the host fills, cut off or not.                              *)

LEMMA SameZeros ==
    ASSUME NEW n \in Nat
    PROVE  ZerosUntilLength(n) = ZeroPadLen(n)
  <1>1. PICK q \in Nat, r \in 0..63 : q = n \div 64 /\ n = 64 * q + r
    BY Divided
  <1>2. PICK z \in 0..63 : z = ZeroPadLen(n) /\ z = IF r < 56 THEN 55 - r ELSE 119 - r
    BY <1>1, ZerosToPad
  <1>3. ASSUME NEW y \in 0..63
        PROVE  (n + 1 + y) % 64 = 56 <=> y = z
    <2>1. PICK w \in Nat : w = n + 1 + y /\ w = 64 * q + (r + 1 + y)
      BY <1>1
    <2>2. CASE r + 1 + y < 64
      <3>1. PICK s \in 0..63 : s = r + 1 + y
        BY <2>2
      <3>2. w % 64 = s
        BY <2>1, <3>1, WholeOf
      <3>. QED
        BY <1>2, <2>1, <3>1, <3>2
    <2>3. CASE r + 1 + y >= 64
      <3>1. PICK s \in 0..63, p \in Nat : s = r + 1 + y - 64 /\ p = q + 1
        <4>1. r + 1 + y - 64 \in 0..63 /\ q + 1 \in Nat
          BY <2>3
        <4>. QED
          BY <4>1
      <3>2. w = 64 * p + s
        BY <2>1, <3>1
      <3>3. w % 64 = s
        BY <3>1, <3>2, WholeOf
      <3>. QED
        BY <1>2, <2>1, <2>3, <3>1, <3>3
    <2>. QED
      BY <2>2, <2>3
  <1>4. (CHOOSE y \in 0..63 : (n + 1 + y) % 64 = 56) = z
    <2>1. \E y \in 0..63 : (n + 1 + y) % 64 = 56
      BY <1>3
    <2>2. PICK w : w = CHOOSE y \in 0..63 : (n + 1 + y) % 64 = 56
      OBVIOUS
    <2>3. w \in 0..63 /\ (n + 1 + w) % 64 = 56
      BY <2>1, <2>2
    <2>. QED
      BY <1>3, <2>2, <2>3
  <1>. QED
    BY <1>2, <1>4 DEF ZerosUntilLength

\* What the host fills the buffer with: the padded message, then zeros,
\* cut off where the buffer ends.
LEMMA SigningInputIs ==
    ASSUME NEW m \in Bytes, NEW n \in Nat
    PROVE  /\ SigningInput(m, n).data \in Bytes /\ Len(SigningInput(m, n).data) = n
           /\ \A k \in 1..n : SigningInput(m, n).data[k] =
                 IF k <= Len(Sha256PadWithLen(m, Len(m))) THEN Sha256PadWithLen(m, Len(m))[k] ELSE 0
           /\ SigningInput(m, n).last = Sha256BlockLen(Len(m)) - 1
           /\ SigningInput(m, n).total = Len(m) /\ SigningInput(m, n).pad = Len(m)
           /\ Len(Sha256PadWithLen(m, Len(m))) <= n =>
                 SigningInput(m, n).data = Stretch(Sha256PadWithLen(m, Len(m)), n)
  <1>l. PICK len \in Nat : len = Len(m)
    BY ByteSeq
  <1>p. PICK p : p = Sha256PadWithLen(m, len)
    OBVIOUS
  <1>b. PICK b \in Nat : b = Sha256BlockLen(len) /\ p \in Bytes /\ Len(p) = 64 * b
    BY <1>l, <1>p, PaddedWhole
  <1>1. m \o <<Marker>> \o Zeros(ZerosUntilLength(len)) \o LengthBytes(8 * len) = p
    BY <1>l, <1>p, SameZeros DEF Sha256PadWithLen
  <1>2. /\ SigningInput(m, n).data = Resize(p, n)
        /\ SigningInput(m, n).last = Len(p) \div 64 - 1
        /\ SigningInput(m, n).total = len /\ SigningInput(m, n).pad = len
    BY <1>l, <1>1 DEF SigningInput
  <1>3. Len(p) \div 64 = b
    BY <1>b
  <1>s. PICK s : s = Stretch(p, n)
    OBVIOUS
  <1>4. /\ s \in Bytes /\ Len(s) >= n /\ Len(s) \in Nat
        /\ Len(p) <= n => Len(s) = n
        /\ \A k \in 1..n : s[k] = IF k <= Len(p) THEN p[k] ELSE 0
    <2>1. CASE Len(p) < n
      <3>1. PICK z \in Nat : z = n - Len(p)
        BY <1>b, <2>1
      <3>2. PICK w : w = Zeros(z) /\ w \in Bytes /\ Len(w) = z /\ \A k \in 1..z : w[k] = 0
        BY ZerosAre
      <3>3. s = p \o w
        BY <1>s, <2>1, <3>1, <3>2 DEF Stretch
      <3>4. /\ s \in Bytes /\ Len(s) = Len(p) + Len(w)
            /\ \A k \in 1..(Len(p) + Len(w)) : s[k] = IF k <= Len(p) THEN p[k] ELSE w[k - Len(p)]
        BY <1>b, <3>2, <3>3, Joined
      <3>5. Len(p) + Len(w) = n
        BY <1>b, <3>1, <3>2
      <3>6. ASSUME NEW k \in 1..n PROVE s[k] = IF k <= Len(p) THEN p[k] ELSE 0
        <4>1. CASE k <= Len(p)
          BY <3>4, <3>5, <4>1
        <4>2. CASE ~(k <= Len(p))
          <5>1. k - Len(p) \in 1..z
            BY <1>b, <3>1, <4>2
          <5>2. w[k - Len(p)] = 0
            BY <3>2, <5>1
          <5>. QED
            BY <3>4, <3>5, <4>2, <5>2
        <4>. QED
          BY <4>1, <4>2
      <3>. QED
        BY <3>4, <3>5, <3>6
    <2>2. CASE ~(Len(p) < n)
      <3>1. s = p
        BY <1>s, <2>2 DEF Stretch
      <3>2. Len(p) >= n /\ Len(p) \in Nat /\ \A k \in 1..n : k <= Len(p)
        BY <1>b, <2>2
      <3>. QED
        BY <1>b, <2>2, <3>1, <3>2
    <2>. QED
      BY <2>1, <2>2
  <1>5. /\ SubSeq(s, 1, n) \in Bytes /\ Len(SubSeq(s, 1, n)) = n
        /\ \A k \in 1..n : SubSeq(s, 1, n)[k] = s[k]
    BY <1>4, CutInTwo
  <1>6. Resize(p, n) = SubSeq(s, 1, n)
    BY <1>s DEF Resize
  <1>7. ASSUME Len(p) <= n PROVE SubSeq(s, 1, n) = s
    <2>1. Len(s) = n
      BY <1>4, <1>7
    <2>. QED
      BY <1>4, <2>1, SubSeqFull DEF Bytes
  <1>. QED
    BY <1>l, <1>p, <1>b, <1>s, <1>2, <1>3, <1>4, <1>5, <1>6, <1>7

-----------------------------------------------------------------------------
(* What the padding verifier lets through of a buffer the host has filled. *)

\* The buffer's length.
LEMMA BufferSize ==
    \E size \in Nat, blocks \in Nat :
        size = BufferLen /\ size = 64 * blocks /\ size < 65536 /\ size % 64 = 0 /\ blocks = size \div 64
  <1>1. BufferLen \in Nat /\ BufferLen < 65536 /\ BufferLen % 64 = 0
    BY TokenSizesAssumption, OfWord16
  <1>2. PICK size \in Nat : size = BufferLen /\ size < 65536 /\ size % 64 = 0
    BY <1>1
  <1>3. size \div 64 \in Nat /\ size = 64 * (size \div 64)
    BY <1>2
  <1>. QED
    BY <1>2, <1>3

\* A length of three bytes is written in one way.
LEMMA LengthFixes ==
    ASSUME NEW v \in Nat, NEW w \in Nat, v < 256 * 256 * 256, w < 256 * 256 * 256,
           \A j \in 1..8 : LengthBytes(v)[j] = LengthBytes(w)[j]
    PROVE  v = w
  <1>1. BigEndian(LengthBytes(v), v) /\ BigEndian(LengthBytes(w), w)
    BY LengthBytesAre
  <1>2. PICK a \in Byte, b \in Byte, c \in Byte :
            /\ a = (v \div 65536) % 256 /\ b = (v \div 256) % 256 /\ c = v % 256
            /\ a = (w \div 65536) % 256 /\ b = (w \div 256) % 256 /\ c = w % 256
    <2>1. (v \div 65536) % 256 \in Byte /\ (v \div 256) % 256 \in Byte /\ v % 256 \in Byte
      BY DEF Byte
    <2>2. /\ (v \div 65536) % 256 = (w \div 65536) % 256 /\ (v \div 256) % 256 = (w \div 256) % 256
          /\ v % 256 = w % 256
      BY <1>1 DEF BigEndian
    <2>. QED
      BY <2>1, <2>2
  <1>3. 256 * 256 * 256 = 16777216
    BY SMT
  <1>4. 65536 * a + 256 * b + c = v
    BY <1>2, <1>3, LengthDigits, SMT
  <1>5. 65536 * a + 256 * b + c = w
    BY <1>2, <1>3, LengthDigits, SMT
  <1>. QED
    BY <1>4, <1>5, SMT

\* The buffer, and where the padding of its message ends.
LEMMA DataIs ==
    ASSUME NEW m \in Bytes, NEW n \in Nat
    PROVE  \E len \in Nat, e \in Nat :
              /\ len = Len(m) /\ e = Sha256BlockLen(len) - 1 /\ Ends(len, e)
              /\ \A k \in 1..n : k <= len => SigningInput(m, n).data[k] = m[k]
              /\ len + 1 <= n => SigningInput(m, n).data[len + 1] = Marker
              /\ \A k \in 1..n : k > len + 1 /\ k <= 64 * e + 56 => SigningInput(m, n).data[k] = 0
              /\ \A k \in 1..n : k > 64 * (e + 1) => SigningInput(m, n).data[k] = 0
  <1>l. PICK len \in Nat : len = Len(m)
    BY ByteSeq
  <1>b. Sha256BlockLen(len) \in Nat /\ Sha256BlockLen(len) >= 1
    BY DEF Sha256BlockLen
  <1>e. PICK e \in Nat : e = Sha256BlockLen(len) - 1
    <2>1. Sha256BlockLen(len) - 1 \in Nat
      BY <1>b
    <2>. QED
      BY <2>1
  <1>1. Ends(len, e)
    BY <1>e, EndsIn
  <1>2. 64 * e <= len + 8 /\ len < 64 * e + 56
    BY <1>1 DEF Ends
  <1>p. PICK p : p = Sha256PadWithLen(m, len)
    OBVIOUS
  <1>d. PICK d : d = SigningInput(m, n).data
    OBVIOUS
  <1>3. /\ Len(p) = 64 * (e + 1) /\ \A i \in 1..len : p[i] = m[i]
        /\ Layout(p, e, len, len)
    BY <1>l, <1>p, <1>1, PaddedLayout
  <1>4. \A k \in 1..n : d[k] = IF k <= 64 * (e + 1) THEN p[k] ELSE 0
    <2>1. \A k \in 1..n : d[k] = IF k <= Len(p) THEN p[k] ELSE 0
      BY <1>l, <1>p, <1>d, SigningInputIs
    <2>. QED
      BY <1>3, <2>1
  <1>5. ASSUME NEW k \in 1..n, k <= len PROVE d[k] = m[k]
    <2>1. k <= 64 * (e + 1) /\ k \in 1..len
      BY <1>2, <1>5
    <2>. QED
      BY <1>3, <1>4, <2>1
  <1>6. ASSUME len + 1 <= n PROVE d[len + 1] = Marker
    <2>1. len + 1 <= 64 * (e + 1) /\ len + 1 \in 1..n
      BY <1>2, <1>6
    <2>2. p[len + 1] = Marker
      BY <1>3 DEF Layout
    <2>. QED
      BY <1>4, <2>1, <2>2
  <1>7. ASSUME NEW k \in 1..n, k > len + 1, k <= 64 * e + 56 PROVE d[k] = 0
    <2>1. k <= 64 * (e + 1) /\ k \in (len + 2)..(64 * e + 56)
      BY <1>7
    <2>2. p[k] = 0
      BY <1>3, <2>1 DEF Layout
    <2>. QED
      BY <1>4, <2>1, <2>2
  <1>8. ASSUME NEW k \in 1..n, k > 64 * (e + 1) PROVE d[k] = 0
    BY <1>4, <1>8
  <1>. QED
    BY <1>l, <1>e, <1>d, <1>1, <1>5, <1>6, <1>7, <1>8

\* The witnesses' ranges follow from the constraints.
LEMMA PaddingRanges ==
    ASSUME NEW data \in Bytes, NEW n \in Nat, NEW l, Len(data) = BufferLen,
           PadVerifierFullOk(data, l, n, n)
    PROVE  Buffer(data, l, n, n) /\ Filled(data, l, n, n)
  <1>1. /\ Len(data) % 64 = 0 /\ l \in 0..(MaxBlocks(data) - 1) /\ PositionOk(n, l)
        /\ PaddingOk(data, l, n, n)
    BY DEF PadVerifierFullOk, PaddingOk
  <1>2. PICK b \in Nat, m \in Nat : b = BufferLen /\ b = 64 * m /\ b < 65536 /\ m = b \div 64
    BY BufferSize
  <1>3. m = MaxBlocks(data)
    BY <1>2 DEF MaxBlocks
  <1>4. l \in Nat /\ l <= m - 1
    BY <1>1, <1>3
  <1>5. n < 64 * l + 56
    BY <1>1, <1>4 DEF PositionOk
  <1>6. n < 65536 /\ l < 65536
    <2>1. n < b /\ l <= b
      BY <1>2, <1>4, <1>5
    <2>. QED
      BY <1>2, <1>4, <2>1
  <1>7. n \in U16 /\ l \in U16 /\ b \in U16
    BY <1>2, <1>4, <1>6, Word16
  <1>8. Buffer(data, l, n, n)
    BY <1>1, <1>2, <1>7 DEF Buffer
  <1>. QED
    BY <1>1, <1>8, VerifierReads

\* A padding can begin only where the message ends. A length byte may look
\* like a padding's first, but then the length would be behind the message's
\* last block, where there are zeros.
LEMMA PaddingCuts ==
    ASSUME NEW m \in Bytes, \A k \in 1..Len(m) : m[k] # Marker,
           NEW data, data = SigningInput(m, BufferLen).data,
           NEW n \in Nat, NEW l, PadVerifierFullOk(data, l, n, n)
    PROVE  /\ n = Len(m) /\ n < BufferLen /\ l = Sha256BlockLen(n) - 1
           /\ Sha256BlockLen(n) <= BufferLen \div 64
           /\ DigestWithPad(H, data, l) = Digest(m)
  <1>2. PICK size \in Nat : size = BufferLen
    BY BufferSize
  <1>1. data \in Bytes /\ Len(data) = size
    BY <1>2, SigningInputIs
  <1>3. Buffer(data, l, n, n) /\ Filled(data, l, n, n)
    BY <1>1, <1>2, PaddingRanges
  <1>4. /\ Ends(n, l) /\ 64 * (l + 1) <= size /\ data[n + 1] = Marker
        /\ \A j \in 1..8 : data[64 * l + 56 + j] = LengthBytes(8 * n)[j]
    BY <1>1, <1>3 DEF Filled, Layout
  <1>5. l \in Nat /\ n < 65536
    BY <1>3, BufferBlocks
  <1>6. 64 * l <= n + 8 /\ n < 64 * l + 56
    BY <1>4 DEF Ends
  <1>7. PICK len \in Nat, e \in Nat :
              /\ len = Len(m) /\ e = Sha256BlockLen(len) - 1 /\ Ends(len, e)
              /\ \A k \in 1..size : k <= len => data[k] = m[k]
              /\ \A k \in 1..size : k > len + 1 /\ k <= 64 * e + 56 => data[k] = 0
              /\ \A k \in 1..size : k > 64 * (e + 1) => data[k] = 0
    BY <1>2, DataIs
  <1>8. n + 1 \in 1..size
    BY <1>4, <1>5, <1>6
  <1>9. ~(n < len)
    <2>. SUFFICES ASSUME n < len PROVE FALSE
      OBVIOUS
    <2>1. n + 1 <= len /\ n + 1 \in 1..len
      OBVIOUS
    <2>2. data[n + 1] = m[n + 1]
      BY <1>7, <1>8, <2>1
    <2>3. m[n + 1] # Marker
      BY <1>7, <2>1
    <2>. QED
      BY <1>4, <2>2, <2>3
  <1>10. ~(n > len)
    <2>. SUFFICES ASSUME n > len PROVE FALSE
      OBVIOUS
    <2>1. data[n + 1] # 0
      BY <1>4 DEF Marker
    <2>2. n + 1 > 64 * e + 56 /\ n + 1 <= 64 * (e + 1)
      <3>1. n + 1 > len + 1
        OBVIOUS
      <3>2. ~(n + 1 <= 64 * e + 56)
        BY <1>7, <1>8, <2>1, <3>1
      <3>3. ~(n + 1 > 64 * (e + 1))
        BY <1>7, <1>8, <2>1
      <3>. QED
        BY <3>2, <3>3
    <2>3. l = e + 1
      BY <1>5, <1>6, <2>2
    <2>4. ASSUME NEW j \in 1..8 PROVE LengthBytes(8 * n)[j] = 0
      <3>1. 64 * l + 56 + j \in 1..size /\ 64 * l + 56 + j > 64 * (e + 1)
        BY <1>4, <1>5, <2>3
      <3>2. data[64 * l + 56 + j] = 0
        BY <1>7, <3>1
      <3>. QED
        BY <1>4, <3>2
    <2>5. PICK w \in Nat : w = 8 * n /\ w < 256 * 256 * 256
      BY <1>5, SMT
    <2>6. \A j \in 1..8 : LengthBytes(0)[j] = 0
      <3>1. BigEndian(LengthBytes(0), 0)
        BY LengthBytesAre
      <3>2. (0 \div 65536) % 256 = 0 /\ (0 \div 256) % 256 = 0 /\ 0 % 256 = 0
        BY SMT
      <3>. QED
        BY <3>1, <3>2, SMT DEF BigEndian
    <2>7. \A j \in 1..8 : LengthBytes(w)[j] = LengthBytes(0)[j]
      BY <2>4, <2>5, <2>6
    <2>8. 0 < 256 * 256 * 256
      BY SMT
    <2>9. w = 0
      BY <2>5, <2>7, <2>8, LengthFixes, SMT
    <2>. QED
      BY <2>5, <2>9
  <1>11. n = len
    BY <1>9, <1>10
  <1>12. l = e
    BY <1>4, <1>5, <1>7, <1>11, EndsIn
  <1>13. DigestWithPad(H, data, l) = Digest(SubSeq(data, 1, n))
    BY <1>3, FullDigest
  <1>14. SubSeq(data, 1, n) = m
    <2>1. n <= Len(data) /\ n <= size
      BY <1>1, <1>8
    <2>2. /\ SubSeq(data, 1, n) \in Bytes /\ Len(SubSeq(data, 1, n)) = n
          /\ \A i \in 1..n : SubSeq(data, 1, n)[i] = data[i]
      BY <1>1, <2>1, CutInTwo
    <2>3. \A i \in 1..n : data[i] = m[i]
      <3>1. \A i \in 1..n : i \in 1..size /\ i <= len
        BY <1>11, <2>1
      <3>. QED
        BY <1>7, <3>1
    <2>4. Len(SubSeq(data, 1, n)) = Len(m)
      BY <1>7, <1>11, <2>2
    <2>5. \A i \in 1..Len(SubSeq(data, 1, n)) : SubSeq(data, 1, n)[i] = m[i]
      BY <2>2, <2>3
    <2>. QED
      BY <2>2, <2>4, <2>5, Same
  <1>15. Sha256BlockLen(n) <= BufferLen \div 64
    <2>1. PICK b \in Nat : b = Sha256BlockLen(n) /\ l = b - 1
      <3>1. Sha256BlockLen(n) \in Nat
        BY DEF Sha256BlockLen
      <3>. QED
        BY <1>7, <1>11, <1>12, <3>1
    <2>2. 64 * b <= size
      BY <1>4, <2>1
    <2>3. b <= size \div 64
      BY <2>2
    <2>. QED
      BY <1>2, <2>1, <2>3
  <1>16. n = Len(m) /\ l = Sha256BlockLen(n) - 1
    BY <1>7, <1>11, <1>12
  <1>17. n < BufferLen
    BY <1>2, <1>8
  <1>18. DigestWithPad(H, data, l) = Digest(m)
    BY <1>13, <1>14
  <1>. QED
    BY <1>15, <1>16, <1>17, <1>18

\* The host's own buffer passes, if the padded message fits into it.
LEMMA HostPads ==
    ASSUME NEW m \in Bytes, 64 * Sha256BlockLen(Len(m)) <= BufferLen,
           NEW w, w = SigningInput(m, BufferLen)
    PROVE  PadVerifierFullOk(w.data, w.last, w.total, w.pad) /\ DigestWithPadOk(w.data, w.last)
  <1>2. PICK size \in Nat : size = BufferLen /\ size < 65536 /\ size % 64 = 0
    BY BufferSize
  <1>l. PICK len \in Nat : len = Len(m)
    BY ByteSeq
  <1>b. PICK b \in Nat : b = Sha256BlockLen(len) /\ b >= 1 /\ 64 * b >= len + 9 /\ 64 * b <= size
    <2>1. Sha256BlockLen(len) \in Nat /\ Sha256BlockLen(len) >= 1 /\ 64 * Sha256BlockLen(len) >= len + 9
      BY DEF Sha256BlockLen
    <2>. QED
      BY <1>2, <1>l, <2>1
  <1>p. PICK p : p = Sha256PadWithLen(m, len)
    OBVIOUS
  <1>1. p \in Bytes /\ Len(p) = 64 * b
    BY <1>l, <1>b, <1>p, PaddedWhole
  <1>d. PICK d : d = w.data
    OBVIOUS
  <1>3. /\ d \in Bytes /\ Len(d) = size /\ w.last = b - 1 /\ w.total = len /\ w.pad = len
        /\ d = Stretch(p, size)
    <2>1. Len(p) <= size
      BY <1>1, <1>b
    <2>2. SigningInput(m, size).data = Stretch(p, size)
      BY <1>l, <1>p, <2>1, SigningInputIs
    <2>3. /\ SigningInput(m, size).data \in Bytes /\ Len(SigningInput(m, size).data) = size
          /\ SigningInput(m, size).last = b - 1
          /\ SigningInput(m, size).total = len /\ SigningInput(m, size).pad = len
      BY <1>l, <1>b, SigningInputIs
    <2>. QED
      BY <1>2, <1>d, <2>2, <2>3
  <1>4. Buffer(d, b - 1, len, len)
    <2>1. b - 1 \in Nat /\ b - 1 <= size /\ len <= size
      BY <1>b
    <2>2. b - 1 < 65536 /\ len < 65536
      BY <1>2, <2>1
    <2>3. len \in U16 /\ b - 1 \in U16 /\ size \in U16
      BY <1>2, <2>1, <2>2, Word16
    <2>. QED
      BY <1>2, <1>3, <2>3 DEF Buffer
  <1>5. SubSeq(d, 1, len) = m
    <2>1. len <= Len(d) /\ len <= 64 * b
      BY <1>3, <1>b
    <2>2. /\ SubSeq(d, 1, len) \in Bytes /\ Len(SubSeq(d, 1, len)) = len
          /\ \A i \in 1..len : SubSeq(d, 1, len)[i] = d[i]
      BY <1>3, <2>1, CutInTwo
    <2>3. \A k \in 1..size : k <= len => d[k] = m[k]
      <3>1. d = SigningInput(m, size).data
        BY <1>2, <1>d
      <3>. QED
        BY <1>l, <3>1, DataIs
    <2>4. \A i \in 1..len : d[i] = m[i]
      <3>1. \A i \in 1..len : i \in 1..size /\ i <= len
        BY <1>3, <2>1
      <3>. QED
        BY <2>3, <3>1
    <2>5. Len(SubSeq(d, 1, len)) = Len(m)
      BY <1>l, <2>2
    <2>6. \A i \in 1..Len(SubSeq(d, 1, len)) : SubSeq(d, 1, len)[i] = m[i]
      BY <2>2, <2>4
    <2>. QED
      BY <2>2, <2>5, <2>6, Same
  <1>6. HostFills(d, b - 1, len, len)
    <2>1. len <= Len(d) /\ b - 1 = Sha256BlockLen(len) - 1
      BY <1>3, <1>b
    <2>2. d = Stretch(Sha256PadWithLen(SubSeq(d, 1, len), len), Len(d))
      BY <1>3, <1>5, <1>p
    <2>. QED
      BY <2>1, <2>2 DEF HostFills
  <1>7. PaddingOk(d, b - 1, len, len)
    BY <1>4, <1>6, FilledByHost, VerifierReads
  <1>8. PadVerifierFullOk(d, b - 1, len, len) /\ DigestWithPadOk(d, b - 1)
    BY <1>7 DEF PadVerifierFullOk, DigestWithPadOk, PaddingOk
  <1>. QED
    BY <1>3, <1>8, <1>d

\* Messages of the same digest are the same.
LEMMA DigestFixes ==
    ASSUME NEW x \in Bytes, NEW y \in Bytes, Digest(x) = Digest(y),
           8 * Len(x) < 256 * 256 * 256, 8 * Len(y) < 256 * 256 * 256
    PROVE  x = y
  <1>m. PICK m \in Nat, n \in Nat : m = Len(x) /\ n = Len(y)
    BY ByteSeq
  <1>p. PICK p, q : p = Sha256PadWithLen(x, m) /\ q = Sha256PadWithLen(y, n)
    OBVIOUS
  <1>1. PICK e \in Nat : Ends(m, e)
    <2>1. Sha256BlockLen(m) - 1 \in Nat
      BY DEF Sha256BlockLen
    <2>. QED
      BY <2>1, EndsIn
  <1>2. PICK f \in Nat : Ends(n, f)
    <2>1. Sha256BlockLen(n) - 1 \in Nat
      BY DEF Sha256BlockLen
    <2>. QED
      BY <2>1, EndsIn
  <1>3. /\ p \in Bytes /\ Len(p) = 64 * (e + 1) /\ \A i \in 1..m : p[i] = x[i]
        /\ Layout(p, e, m, m)
    BY <1>m, <1>p, <1>1, PaddedLayout
  <1>4. /\ q \in Bytes /\ Len(q) = 64 * (f + 1) /\ \A i \in 1..n : q[i] = y[i]
        /\ Layout(q, f, n, n)
    BY <1>m, <1>p, <1>2, PaddedLayout
  <1>3a. p \in Bytes
    BY <1>3
  <1>4a. q \in Bytes
    BY <1>4
  <1>5. Blocks(p) = Blocks(q)
    BY <1>m, <1>p DEF Digest
  <1>6. Len(p) \div 64 = e + 1 /\ Len(q) \div 64 = f + 1
    BY <1>3, <1>4
  <1>7. Blocks(p) \in Seq(Bytes) /\ Len(Blocks(p)) = e + 1 /\ Len(Blocks(q)) = f + 1
    BY <1>3, <1>4, <1>6, BlocksAre
  <1>8. e = f
    BY <1>5, <1>7
  <1>9. ASSUME NEW i \in 1..(64 * (e + 1)) PROVE p[i] = q[i]
    <2>1. PICK b \in 1..(e + 1), j \in 1..64 : i = 64 * (b - 1) + j
      <3>1. (i - 1) \div 64 + 1 \in 1..(e + 1) /\ ((i - 1) % 64) + 1 \in 1..64
            /\ i = 64 * (((i - 1) \div 64 + 1) - 1) + (((i - 1) % 64) + 1)
        OBVIOUS
      <3>. QED
        BY <3>1
    <2>0. b \in 1..(Len(p) \div 64) /\ b \in 1..(Len(q) \div 64)
      BY <1>6, <1>8
    <2>2. Blocks(p)[b][j] = p[64 * (b - 1) + j]
      <3>1. \A k \in 1..64 : Blocks(p)[b][k] = p[64 * (b - 1) + k]
        BY <1>3a, <2>0, BlockAt
      <3>. QED
        BY <3>1
    <2>3. Blocks(q)[b][j] = q[64 * (b - 1) + j]
      <3>1. \A k \in 1..64 : Blocks(q)[b][k] = q[64 * (b - 1) + k]
        BY <1>4a, <2>0, BlockAt
      <3>. QED
        BY <3>1
    <2>. QED
      BY <1>5, <2>1, <2>2, <2>3
  <1>10. PICK v \in Nat, w \in Nat : v = 8 * m /\ w = 8 * n /\ v < 256 * 256 * 256 /\ w < 256 * 256 * 256
    BY <1>m, SMT
  <1>11. ASSUME NEW j \in 1..8 PROVE LengthBytes(v)[j] = LengthBytes(w)[j]
    <2>1. 64 * e + 56 + j \in 1..(64 * (e + 1))
      OBVIOUS
    <2>2. p[64 * e + 56 + j] = LengthBytes(v)[j] /\ q[64 * e + 56 + j] = LengthBytes(w)[j]
      BY <1>3, <1>4, <1>8, <1>10 DEF Layout
    <2>. QED
      BY <1>9, <2>1, <2>2
  <1>12. v = w
    BY <1>10, <1>11, LengthFixes, SMT
  <1>13. m = n
    BY <1>10, <1>12, SMT
  <1>14. ASSUME NEW i \in 1..m PROVE x[i] = y[i]
    <2>1. i \in 1..(64 * (e + 1))
      BY <1>1 DEF Ends
    <2>2. p[i] = x[i] /\ q[i] = y[i]
      BY <1>3, <1>4, <1>13
    <2>. QED
      BY <1>9, <2>1, <2>2
  <1>. QED
    BY <1>m, <1>13, <1>14, Same

-----------------------------------------------------------------------------
(* A signature opens to one digest.                                        *)

\* A byte of an encoded message: its number, and the digest it is of, if any.
Tagged(d) == Nat \X {<<>>, d}
TaggedSeq(d) == Seq(Tagged(d))

LEMMA PutTogether ==
    ASSUME NEW d, NEW x \in TaggedSeq(d), NEW y \in TaggedSeq(d)
    PROVE  /\ x \o y \in TaggedSeq(d) /\ Len(x \o y) = Len(x) + Len(y)
           /\ \A i \in 1..(Len(x) + Len(y)) : (x \o y)[i] = IF i <= Len(x) THEN x[i] ELSE y[i - Len(x)]
  BY ConcatProperties DEF TaggedSeq

\* The first part of it, and the second.
LEMMA InFront ==
    ASSUME NEW d, NEW x \in TaggedSeq(d), NEW y \in TaggedSeq(d),
           NEW n \in Nat, Len(x) = n
    PROVE  \A i \in 1..n : (x \o y)[i] = x[i]
  <1>1. Len(y) \in Nat
    BY LenProperties DEF TaggedSeq
  <1>2. \A i \in 1..(n + Len(y)) : (x \o y)[i] = IF i <= n THEN x[i] ELSE y[i - n]
    BY PutTogether
  <1>3. \A i \in 1..n : i \in 1..(n + Len(y)) /\ i <= n
    BY <1>1
  <1>. QED
    BY <1>2, <1>3

LEMMA Behind ==
    ASSUME NEW d, NEW x \in TaggedSeq(d), NEW y \in TaggedSeq(d),
           NEW n \in Nat, Len(x) = n, NEW k \in Nat, Len(y) = k
    PROVE  \A i \in 1..k : (x \o y)[n + i] = y[i]
  <1>2. \A i \in 1..(n + k) : (x \o y)[i] = IF i <= n THEN x[i] ELSE y[i - n]
    BY PutTogether
  <1>3. ASSUME NEW i \in 1..k PROVE (x \o y)[n + i] = y[i]
    <2>1. n + i \in 1..(n + k) /\ ~(n + i <= n) /\ n + i - n = i
      OBVIOUS
    <2>2. (x \o y)[n + i] = y[n + i - n]
      BY <1>2, <2>1
    <2>. QED
      BY <2>1, <2>2
  <1>. QED
    BY <1>3

AllSame(s, b, n, d) == s \in TaggedSeq(d) /\ Len(s) = n /\ \A k \in 1..n : s[k] = <<b, <<>> >>

LEMMA RepeatedIs == ASSUME NEW d, NEW b \in Nat, NEW n \in Nat PROVE AllSame(Repeated(b, n), b, n, d)
  <1>1. [k \in 1..n |-> <<b, <<>> >>] \in [1..n -> Tagged(d)]
    BY DEF Tagged
  <1>. QED
    BY <1>1 DEF Repeated, TaggedSeq, AllSame

LEMMA ConstantsAre ==
    ASSUME NEW d, NEW s \in Seq(Nat)
    PROVE  /\ Constants(s) \in TaggedSeq(d) /\ Len(Constants(s)) = Len(s)
           /\ \A k \in 1..Len(s) : Constants(s)[k] = <<s[k], <<>> >>
  <1>n. PICK n \in Nat : n = Len(s)
    BY LenProperties
  <1>1. \A k \in 1..n : s[k] \in Nat
    BY <1>n, LenProperties
  <1>c. PICK c : c = [k \in 1..n |-> <<s[k], <<>> >>]
    OBVIOUS
  <1>2. c \in [1..n -> Tagged(d)]
    BY <1>1, <1>c DEF Tagged
  <1>3. c \in TaggedSeq(d) /\ Len(c) = n
    BY <1>2 DEF TaggedSeq
  <1>4. c = Constants(s)
    BY <1>n, <1>c DEF Constants
  <1>5. \A k \in 1..n : c[k] = <<s[k], <<>> >>
    BY <1>c
  <1>. QED
    BY <1>n, <1>3, <1>4, <1>5

LEMMA DigestBytesAre ==
    ASSUME NEW d
    PROVE  /\ DigestBytes(d) \in TaggedSeq(d) /\ Len(DigestBytes(d)) = 32
           /\ \A k \in 1..32 : DigestBytes(d)[k] = <<k, d>>
  <1>n. PICK n \in Nat : n = 32
    OBVIOUS
  <1>f. PICK f : f = [k \in 1..n |-> <<k, d>>]
    OBVIOUS
  <1>1. f \in [1..n -> Tagged(d)]
    BY <1>f DEF Tagged
  <1>2. f \in TaggedSeq(d) /\ Len(f) = n
    BY <1>1 DEF TaggedSeq
  <1>3. f = DigestBytes(d)
    BY <1>n, <1>f DEF DigestBytes
  <1>4. \A k \in 1..n : f[k] = <<k, d>>
    BY <1>f
  <1>. QED
    BY <1>n, <1>2, <1>3, <1>4

LEMMA ReversedIs ==
    ASSUME NEW d, NEW x \in TaggedSeq(d), NEW n \in Nat, Len(x) = n
    PROVE  /\ Reverse256(x) \in TaggedSeq(d) /\ Len(Reverse256(x)) = n
           /\ \A k \in 1..n : Reverse256(x)[k] = x[n + 1 - k]
  <1>1. \A k \in 1..n : n + 1 - k \in 1..n
    OBVIOUS
  <1>2. \A k \in 1..n : x[k] \in Tagged(d)
    BY LenProperties DEF TaggedSeq
  <1>3. [k \in 1..n |-> x[n + 1 - k]] \in [1..n -> Tagged(d)]
    BY <1>1, <1>2
  <1>4. Reverse256(x) = [k \in 1..n |-> x[n + 1 - k]]
    BY DEF Reverse256
  <1>. QED
    BY <1>3, <1>4 DEF TaggedSeq

\* What signs and what is compared, byte by byte from the least significant:
\* the digest, the DigestInfo and its zero, 202 times 255, one, zero.
Info == <<32, 4, 0, 5, 1, 2, 4, 3, 101, 1, 72, 134, 96, 9, 6, 13, 48, 49, 48, 0>>
SignedByte(d, k) ==
    IF k <= 32 THEN <<33 - k, d>>
    ELSE IF k <= 52 THEN <<Info[k - 32], <<>> >>
    ELSE IF k <= 254 THEN <<255, <<>> >>
    ELSE IF k = 255 THEN <<1, <<>> >> ELSE <<0, <<>> >>

LEMMA FixedBytes ==
    ASSUME NEW d
    PROVE  /\ Constants(<<0, 1>>) \in TaggedSeq(d) /\ Len(Constants(<<0, 1>>)) = 2
           /\ Constants(<<0, 1>>)[1] = <<0, <<>> >> /\ Constants(<<0, 1>>)[2] = <<1, <<>> >>
           /\ Constants(<<0>>) \in TaggedSeq(d) /\ Len(Constants(<<0>>)) = 1
           /\ Constants(<<0>>)[1] = <<0, <<>> >>
  <1>1. <<0, 1>> \in Seq(Nat) /\ Len(<<0, 1>>) = 2 /\ <<0>> \in Seq(Nat) /\ Len(<<0>>) = 1
    OBVIOUS
  <1>2. <<0, 1>>[1] = 0 /\ <<0, 1>>[2] = 1 /\ <<0>>[1] = 0
    OBVIOUS
  <1>3. 1 \in 1..2 /\ 2 \in 1..2 /\ 1 \in 1..1
    OBVIOUS
  <1>. QED
    BY <1>1, <1>2, <1>3, ConstantsAre

\* DigestInfo is Info without its zero, reversed.
LEMMA InfoBytes ==
    ASSUME NEW d
    PROVE  LET c == Constants(<<48, 49, 48, 13, 6, 9, 96, 134, 72, 1, 101, 3, 4, 2, 1, 5, 0, 4, 32>>)
           IN /\ c \in TaggedSeq(d) /\ Len(c) = 19
              /\ \A k \in 1..19 : c[k] = <<Info[20 - k], <<>> >>
  <1>s. PICK s : s = <<48, 49, 48, 13, 6, 9, 96, 134, 72, 1, 101, 3, 4, 2, 1, 5, 0, 4, 32>>
    OBVIOUS
  <1>1. s \in Seq(Nat) /\ Len(s) = 19
    BY <1>s
  <1>2. \A k \in 1..19 : s[k] = Info[20 - k]
    BY <1>s DEF Info
  <1>3. /\ Constants(s) \in TaggedSeq(d) /\ Len(Constants(s)) = 19
        /\ \A k \in 1..19 : Constants(s)[k] = <<s[k], <<>> >>
    BY <1>1, ConstantsAre
  <1>. QED
    BY <1>s, <1>2, <1>3

\* How long each piece is, and all of it.
Sizes(na, nb, nc, ni, ng) == na = 2 /\ nb = 202 /\ nc = 1 /\ ni = 19 /\ ng = 32
KeyBytes == 256

Pieces(s, d, na, nb, nc, ni, ng) ==
    /\ s \in TaggedSeq(d) /\ Len(s) = na + nb + nc + ni + ng
    /\ s[1] = <<0, <<>> >> /\ s[2] = <<1, <<>> >> /\ s[na + nb + 1] = <<0, <<>> >>
    /\ \A k \in 1..nb : s[na + k] = <<255, <<>> >>
    /\ \A k \in 1..ni : s[na + nb + nc + k] = <<Info[20 - k], <<>> >>
    /\ \A k \in 1..ng : s[na + nb + nc + ni + k] = <<k, d>>

\* The host's encoded message, read backwards.
LEMMA EncodedPieces ==
    ASSUME NEW d, NEW na \in Nat, NEW nb \in Nat, NEW nc \in Nat, NEW ni \in Nat, NEW ng \in Nat,
           Sizes(na, nb, nc, ni, ng), NEW s, s = EncodedMessage(d)
    PROVE  Pieces(s, d, na, nb, nc, ni, ng)
  <1>a. PICK a : a = Constants(<<0, 1>>)
    OBVIOUS
  <1>b. PICK b : b = Repeated(255, 202)
    OBVIOUS
  <1>c. PICK c : c = Constants(<<0>>)
    OBVIOUS
  <1>i. PICK i : i = Constants(<<48, 49, 48, 13, 6, 9, 96, 134, 72, 1, 101, 3, 4, 2, 1, 5, 0, 4, 32>>)
    OBVIOUS
  <1>g. PICK g : g = DigestBytes(d)
    OBVIOUS
  <1>1. a \in TaggedSeq(d) /\ Len(a) = na
    BY <1>a, FixedBytes DEF Sizes
  <1>1a. a[1] = <<0, <<>> >> /\ a[2] = <<1, <<>> >>
    BY <1>a, FixedBytes
  <1>2b. b = Repeated(255, nb)
    BY <1>b DEF Sizes
  <1>2c. AllSame(Repeated(255, nb), 255, nb, d)
    BY RepeatedIs
  <1>2. b \in TaggedSeq(d) /\ Len(b) = nb
    BY <1>2b, <1>2c DEF AllSame
  <1>2a. \A k \in 1..nb : b[k] = <<255, <<>> >>
    BY <1>2b, <1>2c DEF AllSame
  <1>3. c \in TaggedSeq(d) /\ Len(c) = nc
    BY <1>c, FixedBytes DEF Sizes
  <1>3a. c[1] = <<0, <<>> >>
    BY <1>c, FixedBytes
  <1>4. i \in TaggedSeq(d) /\ Len(i) = ni
    BY <1>i, InfoBytes DEF Sizes
  <1>4a. \A k \in 1..ni : i[k] = <<Info[20 - k], <<>> >>
    BY <1>i, InfoBytes DEF Sizes
  <1>5. g \in TaggedSeq(d) /\ Len(g) = ng
    BY <1>g, DigestBytesAre DEF Sizes
  <1>5a. \A k \in 1..ng : g[k] = <<k, d>>
    BY <1>g, DigestBytesAre DEF Sizes
  <1>p. PICK p : p = a \o b
    OBVIOUS
  <1>q. PICK q : q = p \o c
    OBVIOUS
  <1>r. PICK r : r = q \o i
    OBVIOUS
  <1>m. PICK mp \in Nat, mq \in Nat, mr \in Nat : mp = na + nb /\ mq = mp + nc /\ mr = mq + ni
    OBVIOUS
  <1>s. s = r \o g
    BY <1>a, <1>b, <1>c, <1>i, <1>g, <1>p, <1>q, <1>r DEF EncodedMessage
  <1>6. p \in TaggedSeq(d) /\ Len(p) = Len(a) + Len(b)
    BY <1>1, <1>2, <1>p, PutTogether
  <1>6a. \A k \in 1..na : p[k] = a[k]
    BY <1>1, <1>2, <1>p, InFront
  <1>6b. \A k \in 1..nb : p[na + k] = b[k]
    BY <1>1, <1>2, <1>p, Behind
  <1>6c. p \in TaggedSeq(d) /\ Len(p) = mp
    BY <1>1, <1>2, <1>6, <1>m
  <1>7. q \in TaggedSeq(d) /\ Len(q) = Len(p) + Len(c)
    BY <1>6c, <1>3, <1>q, PutTogether
  <1>7a. \A k \in 1..mp : q[k] = p[k]
    BY <1>6c, <1>3, <1>q, InFront
  <1>7b. \A k \in 1..nc : q[mp + k] = c[k]
    <2>1. p \in TaggedSeq(d) /\ c \in TaggedSeq(d) /\ Len(p) = mp /\ Len(c) = nc /\ mp \in Nat /\ nc \in Nat
      BY <1>6c, <1>3, <1>m DEF Sizes
    <2>2. \A k \in 1..(mp + nc) : (p \o c)[k] = IF k <= mp THEN p[k] ELSE c[k - mp]
      BY <2>1, PutTogether
    <2>3. ASSUME NEW k \in 1..nc PROVE q[mp + k] = c[k]
      <3>1. PICK j \in 1..(mp + nc) : j = mp + k /\ ~(j <= mp) /\ j - mp = k
        BY <2>1
      <3>2. (p \o c)[j] = c[j - mp]
        BY <2>2, <3>1
      <3>. QED
        BY <1>q, <3>1, <3>2
    <2>. QED
      BY <2>3
  <1>7c. q \in TaggedSeq(d) /\ Len(q) = mq
    <2>1. Len(q) = mp + nc
      BY <1>3, <1>6c, <1>7, Zenon
    <2>. QED
      BY <1>7, <1>m, <2>1, Zenon
  <1>8. r \in TaggedSeq(d) /\ Len(r) = Len(q) + Len(i)
    BY <1>7c, <1>4, <1>r, PutTogether
  <1>8a. \A k \in 1..mq : r[k] = q[k]
    BY <1>7c, <1>4, <1>r, InFront
  <1>8b. \A k \in 1..ni : r[mq + k] = i[k]
    BY <1>7c, <1>4, <1>r, Behind
  <1>8c. r \in TaggedSeq(d) /\ Len(r) = mr
    BY <1>4, <1>7c, <1>8, <1>m
  <1>9. s \in TaggedSeq(d) /\ Len(s) = Len(r) + Len(g)
    BY <1>8c, <1>5, <1>s, PutTogether
  <1>9a. \A k \in 1..mr : s[k] = r[k]
    BY <1>8c, <1>5, <1>s, InFront
  <1>9b. \A k \in 1..ng : s[mr + k] = g[k]
    BY <1>8c, <1>5, <1>s, Behind
  <1>9c. s \in TaggedSeq(d) /\ Len(s) = mr + ng
    BY <1>5, <1>8c, <1>9
  <1>10. ASSUME NEW k \in 1..mp PROVE s[k] = p[k]
    <2>1. k \in 1..mq /\ k \in 1..mr
      BY <1>m
    <2>. QED
      BY <1>7a, <1>8a, <1>9a, <2>1
  <1>11. ASSUME NEW k \in 1..na PROVE s[k] = a[k]
    <2>1. k \in 1..mp
      BY <1>m
    <2>. QED
      BY <1>6a, <1>10, <2>1
  <1>12. ASSUME NEW k \in 1..nb PROVE s[na + k] = <<255, <<>> >>
    <2>1. na + k \in 1..mp
      BY <1>m
    <2>. QED
      BY <1>2a, <1>6b, <1>10, <2>1
  <1>13. ASSUME NEW k \in 1..ni PROVE s[mq + k] = <<Info[20 - k], <<>> >>
    <2>1. mq + k \in 1..mr
      BY <1>m
    <2>. QED
      BY <1>4a, <1>8b, <1>9a, <2>1
  <1>14. ASSUME NEW k \in 1..ng PROVE s[mr + k] = <<k, d>>
    BY <1>5a, <1>9b
  <1>15. s[mp + 1] = <<0, <<>> >>
    <2>1. 1 \in 1..nc /\ mp + 1 \in 1..mq /\ mp + 1 \in 1..mr
      BY <1>m DEF Sizes
    <2>. QED
      BY <1>3a, <1>7b, <1>8a, <1>9a, <2>1
  <1>16. s[1] = <<0, <<>> >> /\ s[2] = <<1, <<>> >>
    <2>1. 1 \in 1..na /\ 2 \in 1..na
      BY DEF Sizes
    <2>. QED
      BY <1>1a, <1>11, <2>1
  <1>17. Len(s) = na + nb + nc + ni + ng
    BY <1>9c, <1>m
  <1>18. mp + 1 = na + nb + 1 /\ mq = na + nb + nc /\ mr = na + nb + nc + ni
    BY <1>m
  <1>19. s[na + nb + 1] = <<0, <<>> >>
    BY <1>15, <1>18
  <1>20. \A k \in 1..ni : s[na + nb + nc + k] = <<Info[20 - k], <<>> >>
    BY <1>13, <1>18
  <1>21. \A k \in 1..ng : s[na + nb + nc + ni + k] = <<k, d>>
    BY <1>14, <1>18
  <1>. QED
    BY <1>9c, <1>12, <1>16, <1>17, <1>19, <1>20, <1>21 DEF Pieces

LEMMA EncodedIs ==
    ASSUME NEW d
    PROVE  /\ EncodedMessage(d) \in TaggedSeq(d) /\ Len(EncodedMessage(d)) = KeyBytes
           /\ \A k \in 1..KeyBytes : Reverse256(EncodedMessage(d))[k] = SignedByte(d, k)
  <1>n. PICK na \in Nat, nb \in Nat, nc \in Nat, ni \in Nat, ng \in Nat : Sizes(na, nb, nc, ni, ng)
    BY DEF Sizes
  <1>s. PICK s : s = EncodedMessage(d)
    OBVIOUS
  <1>t. PICK top \in Nat : top = KeyBytes
    BY DEF KeyBytes
  <1>1. Pieces(s, d, na, nb, nc, ni, ng)
    BY <1>n, <1>s, EncodedPieces
  <1>1p. /\ s[1] = <<0, <<>> >> /\ s[2] = <<1, <<>> >> /\ s[na + nb + 1] = <<0, <<>> >>
         /\ \A k \in 1..nb : s[na + k] = <<255, <<>> >>
         /\ \A k \in 1..ni : s[na + nb + nc + k] = <<Info[20 - k], <<>> >>
         /\ \A k \in 1..ng : s[na + nb + nc + ni + k] = <<k, d>>
    BY <1>1 DEF Pieces
  <1>1t. s \in TaggedSeq(d) /\ Len(s) = na + nb + nc + ni + ng
    BY <1>1 DEF Pieces
  <1>2a. top = 256 /\ na + nb + nc + ni + ng = 256
    BY <1>n, <1>t DEF Sizes, KeyBytes
  <1>2. Len(s) = top /\ top = 256
    BY <1>1t, <1>2a
  <1>3. ASSUME NEW k \in 1..top PROVE s[257 - k] = SignedByte(d, k)
    <2>0. k \in Nat /\ 1 <= k /\ k <= 256
      BY <1>2
    <2>1. CASE k <= 32
      <3>1. 33 - k \in 1..ng /\ 257 - k = na + nb + nc + ni + (33 - k)
        BY <1>n, <2>0, <2>1 DEF Sizes
      <3>2. s[na + nb + nc + ni + (33 - k)] = <<33 - k, d>>
        BY <1>1p, <3>1
      <3>. QED
        BY <2>1, <3>1, <3>2 DEF SignedByte
    <2>2. CASE k > 32 /\ k <= 51
      <3>1. 52 - k \in 1..ni /\ 257 - k = na + nb + nc + (52 - k) /\ 20 - (52 - k) = k - 32
        BY <1>n, <2>0, <2>2 DEF Sizes
      <3>2. s[na + nb + nc + (52 - k)] = <<Info[20 - (52 - k)], <<>> >>
        BY <1>1p, <3>1
      <3>3. ~(k <= 32) /\ k <= 52
        BY <2>0, <2>2
      <3>. QED
        BY <3>1, <3>2, <3>3 DEF SignedByte
    <2>3. CASE k = 52
      <3>1. 257 - k = na + nb + 1
        BY <1>n, <2>3 DEF Sizes
      <3>2. Info[52 - 32] = 0
        BY DEF Info
      <3>3. SignedByte(d, 52) = <<Info[52 - 32], <<>> >>
        BY DEF SignedByte
      <3>. QED
        BY <1>1p, <2>3, <3>1, <3>2, <3>3
    <2>4. CASE k > 52 /\ k <= 254
      <3>1. 255 - k \in 1..nb /\ 257 - k = na + (255 - k)
        BY <1>n, <2>0, <2>4 DEF Sizes
      <3>2. s[na + (255 - k)] = <<255, <<>> >>
        BY <1>1p, <3>1
      <3>3. ~(k <= 32) /\ ~(k <= 52) /\ k <= 254
        BY <2>0, <2>4
      <3>4. SignedByte(d, k) = <<255, <<>> >>
        BY <3>3 DEF SignedByte
      <3>. QED
        BY <3>1, <3>2, <3>4
    <2>5. CASE k = 255
      <3>1. SignedByte(d, 255) = <<1, <<>> >> /\ 257 - 255 = 2
        BY DEF SignedByte
      <3>. QED
        BY <1>1p, <2>5, <3>1
    <2>6. CASE k = 256
      <3>1. SignedByte(d, 256) = <<0, <<>> >> /\ 257 - 256 = 1
        BY DEF SignedByte
      <3>. QED
        BY <1>1p, <2>6, <3>1
    <2>7. k <= 32 \/ (k > 32 /\ k <= 51) \/ k = 52 \/ (k > 52 /\ k <= 254) \/ k = 255 \/ k = 256
      BY <2>0
    <2>. QED
      BY <2>1, <2>2, <2>3, <2>4, <2>5, <2>6, <2>7
  <1>4. \A k \in 1..top : Reverse256(s)[k] = s[257 - k]
    <2>0. s \in TaggedSeq(d) /\ Len(s) = top
      BY <1>1t, <1>2
    <2>1. \A k \in 1..top : Reverse256(s)[k] = s[top + 1 - k]
      BY <2>0, ReversedIs
    <2>2. top + 1 = 257
      BY <1>2
    <2>. QED
      BY <2>1, <2>2
  <1>5. \A k \in 1..top : Reverse256(s)[k] = SignedByte(d, k)
    BY <1>3, <1>4
  <1>. QED
    BY <1>s, <1>t, <1>1t, <1>2, <1>5

Widths(ng, ne, nf) == ng = 32 /\ ne = 8 /\ nf = 192

\* What the circuit puts together, from the least significant.
Parts(s, d, ng, ne, nf) ==
    /\ s \in TaggedSeq(d) /\ Len(s) = ng + ne + ne + ne + nf + ne
    /\ \A k \in 1..ng : s[k] = <<ng + 1 - k, d>>
    /\ \A k \in 1..ne : s[ng + k] = <<Info[k], <<>> >>
    /\ \A k \in 1..ne : s[ng + ne + k] = <<Info[8 + k], <<>> >>
    /\ \A k \in 1..ne : s[ng + ne + ne + k] = IF k <= 4 THEN <<Info[16 + k], <<>> >> ELSE <<255, <<>> >>
    /\ \A k \in 1..nf : s[ng + ne + ne + ne + k] = <<255, <<>> >>
    /\ \A k \in 1..ne : s[ng + ne + ne + ne + nf + k] =
           IF k <= 6 THEN <<255, <<>> >> ELSE IF k = 7 THEN <<1, <<>> >> ELSE <<0, <<>> >>

FirstEight == <<32, 4, 0, 5, 1, 2, 4, 3>>
SecondEight == <<101, 1, 72, 134, 96, 9, 6, 13>>
ThirdEight == <<48, 49, 48, 0, 255, 255, 255, 255>>
LastEight == <<255, 255, 255, 255, 255, 255, 1, 0>>

LEMMA EightAre ==
    ASSUME NEW s, s \in {FirstEight, SecondEight, ThirdEight, LastEight}
    PROVE  s \in Seq(Nat) /\ Len(s) = 8
  <1>1. FirstEight \in Seq(Nat) /\ Len(FirstEight) = 8
    BY DEF FirstEight
  <1>2. SecondEight \in Seq(Nat) /\ Len(SecondEight) = 8
    BY DEF SecondEight
  <1>3. ThirdEight \in Seq(Nat) /\ Len(ThirdEight) = 8
    BY DEF ThirdEight
  <1>4. LastEight \in Seq(Nat) /\ Len(LastEight) = 8
    BY DEF LastEight
  <1>. QED
    BY <1>1, <1>2, <1>3, <1>4

LEMMA EightTagged ==
    ASSUME NEW d, NEW ng, NEW ne \in Nat, NEW nf, Widths(ng, ne, nf),
           NEW s, s \in {FirstEight, SecondEight, ThirdEight, LastEight}
    PROVE  /\ Constants(s) \in TaggedSeq(d) /\ Len(Constants(s)) = ne
           /\ \A k \in 1..ne : Constants(s)[k] = <<s[k], <<>> >>
  <1>1. s \in Seq(Nat) /\ Len(s) = ne
    BY EightAre DEF Widths
  <1>. QED
    BY <1>1, ConstantsAre

LEMMA FirstBytes ==
    ASSUME NEW ng, NEW ne \in Nat, NEW nf, Widths(ng, ne, nf), NEW k \in 1..ne
    PROVE  <<FirstEight[k], <<>> >> = <<Info[k], <<>> >>
  <1>1. k \in 1..8
    BY DEF Widths
  <1>2. FirstEight[k] = Info[k]
    BY <1>1 DEF FirstEight, Info
  <1>. QED
    BY <1>2

LEMMA SecondBytes ==
    ASSUME NEW ng, NEW ne \in Nat, NEW nf, Widths(ng, ne, nf), NEW k \in 1..ne
    PROVE  <<SecondEight[k], <<>> >> = <<Info[8 + k], <<>> >>
  <1>1. k \in 1..8
    BY DEF Widths
  <1>2. SecondEight[k] = Info[8 + k]
    BY <1>1 DEF SecondEight, Info
  <1>. QED
    BY <1>2

LEMMA ThirdBytes ==
    ASSUME NEW ng, NEW ne \in Nat, NEW nf, Widths(ng, ne, nf), NEW k \in 1..ne
    PROVE  <<ThirdEight[k], <<>> >> = IF k <= 4 THEN <<Info[16 + k], <<>> >> ELSE <<255, <<>> >>
  <1>1. k \in 1..8
    BY DEF Widths
  <1>2. ThirdEight[k] = IF k <= 4 THEN Info[16 + k] ELSE 255
    BY <1>1 DEF ThirdEight, Info
  <1>. QED
    BY <1>2

LEMMA LastBytes ==
    ASSUME NEW ng, NEW ne \in Nat, NEW nf, Widths(ng, ne, nf), NEW k \in 1..ne
    PROVE  <<LastEight[k], <<>> >> = IF k <= 6 THEN <<255, <<>> >> ELSE IF k = 7 THEN <<1, <<>> >> ELSE <<0, <<>> >>
  <1>1. k \in 1..8
    BY DEF Widths
  <1>2. LastEight[k] = IF k <= 6 THEN 255 ELSE IF k = 7 THEN 1 ELSE 0
    BY <1>1 DEF LastEight, Info
  <1>. QED
    BY <1>2

LEMMA OutputParts ==
    ASSUME NEW d, NEW ng \in Nat, NEW ne \in Nat, NEW nf \in Nat, Widths(ng, ne, nf),
           NEW s, s = OutputWithPrefix(Reverse256(DigestBytes(d)))
    PROVE  Parts(s, d, ng, ne, nf)
  <1>h. PICK h : h = Reverse256(DigestBytes(d))
    OBVIOUS
  <1>x. PICK x : x = Constants(FirstEight)
    OBVIOUS
  <1>y. PICK y : y = Constants(SecondEight)
    OBVIOUS
  <1>z. PICK z : z = Constants(ThirdEight)
    OBVIOUS
  <1>w. PICK w : w = Repeated(255, 24 * 8)
    OBVIOUS
  <1>v. PICK v : v = Constants(LastEight)
    OBVIOUS
  <1>0. DigestBytes(d) \in TaggedSeq(d) /\ Len(DigestBytes(d)) = ng
    BY DigestBytesAre DEF Widths
  <1>1. h \in TaggedSeq(d) /\ Len(h) = ng
    BY <1>0, <1>h, ReversedIs
  <1>1a. \A k \in 1..ng : h[k] = <<ng + 1 - k, d>>
    <2>1. \A k \in 1..ng : h[k] = DigestBytes(d)[ng + 1 - k]
      BY <1>0, <1>h, ReversedIs
    <2>2. \A k \in 1..ng : DigestBytes(d)[k] = <<k, d>>
      BY DigestBytesAre DEF Widths
    <2>3. \A k \in 1..ng : ng + 1 - k \in 1..ng
      OBVIOUS
    <2>. QED
      BY <2>1, <2>2, <2>3
  <1>2. x \in TaggedSeq(d) /\ Len(x) = ne
    BY <1>x, EightTagged
  <1>2a. \A k \in 1..ne : x[k] = <<Info[k], <<>> >>
    <2>1. \A k \in 1..ne : x[k] = <<FirstEight[k], <<>> >>
      BY <1>x, EightTagged
    <2>. QED
      BY <2>1, FirstBytes
  <1>3. y \in TaggedSeq(d) /\ Len(y) = ne
    BY <1>y, EightTagged
  <1>3a. \A k \in 1..ne : y[k] = <<Info[8 + k], <<>> >>
    <2>1. \A k \in 1..ne : y[k] = <<SecondEight[k], <<>> >>
      BY <1>y, EightTagged
    <2>. QED
      BY <2>1, SecondBytes
  <1>4. z \in TaggedSeq(d) /\ Len(z) = ne
    BY <1>z, EightTagged
  <1>4a. \A k \in 1..ne : z[k] = IF k <= 4 THEN <<Info[16 + k], <<>> >> ELSE <<255, <<>> >>
    <2>1. \A k \in 1..ne : z[k] = <<ThirdEight[k], <<>> >>
      BY <1>z, EightTagged
    <2>. QED
      BY <2>1, ThirdBytes
  <1>5b. w = Repeated(255, nf)
    <2>1. 24 * 8 = nf
      BY DEF Widths
    <2>. QED
      BY <1>w, <2>1
  <1>5c. AllSame(Repeated(255, nf), 255, nf, d)
    BY RepeatedIs
  <1>5. w \in TaggedSeq(d) /\ Len(w) = nf
    BY <1>5b, <1>5c DEF AllSame
  <1>5a. \A k \in 1..nf : w[k] = <<255, <<>> >>
    BY <1>5b, <1>5c DEF AllSame
  <1>6. v \in TaggedSeq(d) /\ Len(v) = ne
    BY <1>v, EightTagged
  <1>6a. \A k \in 1..ne : v[k] = IF k <= 6 THEN <<255, <<>> >>
                                 ELSE IF k = 7 THEN <<1, <<>> >> ELSE <<0, <<>> >>
    <2>1. \A k \in 1..ne : v[k] = <<LastEight[k], <<>> >>
      BY <1>v, EightTagged
    <2>. QED
      BY <2>1, LastBytes
  <1>m. PICK ma \in Nat, mb \in Nat, mc \in Nat, me \in Nat :
            ma = ng + ne /\ mb = ma + ne /\ mc = mb + ne /\ me = mc + nf
    OBVIOUS
  <1>a. PICK a : a = h \o x
    OBVIOUS
  <1>b. PICK b : b = a \o y
    OBVIOUS
  <1>c. PICK c : c = b \o z
    OBVIOUS
  <1>e. PICK e : e = c \o w
    OBVIOUS
  <1>s. s = e \o v
    BY <1>h, <1>x, <1>y, <1>z, <1>w, <1>v, <1>a, <1>b, <1>c, <1>e
    DEF OutputWithPrefix, FirstEight, SecondEight, ThirdEight, LastEight
  <1>11. a \in TaggedSeq(d) /\ Len(a) = Len(h) + Len(x)
    BY <1>1, <1>2, <1>a, PutTogether
  <1>11a. \A k \in 1..ng : a[k] = h[k]
    BY <1>1, <1>2, <1>a, InFront
  <1>11b. \A k \in 1..ne : a[ng + k] = x[k]
    BY <1>1, <1>2, <1>a, Behind, SMTT(60)
  <1>11c. a \in TaggedSeq(d) /\ Len(a) = ma
    BY <1>1, <1>2, <1>11, <1>m
  <1>12. b \in TaggedSeq(d) /\ Len(b) = Len(a) + Len(y)
    BY <1>11c, <1>3, <1>b, PutTogether
  <1>12a. \A k \in 1..ma : b[k] = a[k]
    BY <1>11c, <1>3, <1>b, InFront
  <1>12b. \A k \in 1..ne : b[ma + k] = y[k]
    BY <1>11c, <1>3, <1>b, Behind, SMTT(60)
  <1>12c. b \in TaggedSeq(d) /\ Len(b) = mb
    BY <1>11c, <1>3, <1>12, <1>m
  <1>13. c \in TaggedSeq(d) /\ Len(c) = Len(b) + Len(z)
    BY <1>12c, <1>4, <1>c, PutTogether
  <1>13a. \A k \in 1..mb : c[k] = b[k]
    BY <1>12c, <1>4, <1>c, InFront
  <1>13b. \A k \in 1..ne : c[mb + k] = z[k]
    BY <1>12c, <1>4, <1>c, Behind, SMTT(60)
  <1>13c. c \in TaggedSeq(d) /\ Len(c) = mc
    BY <1>12c, <1>4, <1>13, <1>m
  <1>14. e \in TaggedSeq(d) /\ Len(e) = Len(c) + Len(w)
    BY <1>13c, <1>5, <1>e, PutTogether
  <1>14a. \A k \in 1..mc : e[k] = c[k]
    BY <1>13c, <1>5, <1>e, InFront
  <1>14b. \A k \in 1..nf : e[mc + k] = w[k]
    BY <1>13c, <1>5, <1>e, Behind, SMTT(60)
  <1>14c. e \in TaggedSeq(d) /\ Len(e) = me
    BY <1>13c, <1>5, <1>14, <1>m
  <1>15. s \in TaggedSeq(d) /\ Len(s) = Len(e) + Len(v)
    BY <1>14c, <1>6, <1>s, PutTogether
  <1>15a. \A k \in 1..me : s[k] = e[k]
    BY <1>14c, <1>6, <1>s, InFront
  <1>15b. \A k \in 1..ne : s[me + k] = v[k]
    BY <1>14c, <1>6, <1>s, Behind, SMTT(60)
  <1>15c. s \in TaggedSeq(d) /\ Len(s) = me + ne
    BY <1>14c, <1>6, <1>15, <1>m
  <1>20. ASSUME NEW k \in 1..mc PROVE s[k] = c[k]
    <2>1. k \in 1..me
      BY <1>m
    <2>. QED
      BY <1>14a, <1>15a, <2>1
  <1>21. ASSUME NEW k \in 1..ma PROVE s[k] = a[k]
    <2>1. k \in 1..mc /\ k \in 1..mb
      BY <1>m
    <2>. QED
      BY <1>12a, <1>13a, <1>20, <2>1
  <1>22. ASSUME NEW k \in 1..ng PROVE s[k] = <<ng + 1 - k, d>>
    <2>1. k \in 1..ma
      BY <1>m
    <2>. QED
      BY <1>1a, <1>11a, <1>21, <2>1
  <1>23. ASSUME NEW k \in 1..ne PROVE s[ng + k] = <<Info[k], <<>> >>
    <2>1. ng + k \in 1..ma
      BY <1>m
    <2>. QED
      BY <1>2a, <1>11b, <1>21, <2>1
  <1>24. ASSUME NEW k \in 1..ne PROVE s[ma + k] = <<Info[8 + k], <<>> >>
    <2>1. ma + k \in 1..mb /\ ma + k \in 1..mc
      BY <1>m
    <2>. QED
      BY <1>3a, <1>12b, <1>13a, <1>20, <2>1
  <1>25. ASSUME NEW k \in 1..ne
         PROVE  s[mb + k] = IF k <= 4 THEN <<Info[16 + k], <<>> >> ELSE <<255, <<>> >>
    <2>1. mb + k \in 1..mc
      BY <1>m
    <2>2. s[mb + k] = z[k]
      BY <1>13b, <1>20, <2>1
    <2>. QED
      BY <1>4a, <2>2
  <1>26. ASSUME NEW k \in 1..nf PROVE s[mc + k] = <<255, <<>> >>
    <2>1. mc + k \in 1..me
      BY <1>m
    <2>. QED
      BY <1>5a, <1>14b, <1>15a, <2>1
  <1>27. ASSUME NEW k \in 1..ne
         PROVE  s[me + k] = IF k <= 6 THEN <<255, <<>> >> ELSE IF k = 7 THEN <<1, <<>> >> ELSE <<0, <<>> >>
    <2>1. s[me + k] = v[k]
      BY <1>15b
    <2>. QED
      BY <1>6a, <2>1
  <1>28. /\ ma = ng + ne /\ mb = ng + ne + ne /\ mc = ng + ne + ne + ne /\ me = ng + ne + ne + ne + nf
    BY <1>m
  <1>29. \A k \in 1..ne : s[ng + ne + k] = <<Info[8 + k], <<>> >>
    BY <1>24, <1>28
  <1>30. \A k \in 1..ne : s[ng + ne + ne + k] = IF k <= 4 THEN <<Info[16 + k], <<>> >> ELSE <<255, <<>> >>
    BY <1>25, <1>28
  <1>31. \A k \in 1..nf : s[ng + ne + ne + ne + k] = <<255, <<>> >>
    BY <1>26, <1>28
  <1>32. \A k \in 1..ne : s[ng + ne + ne + ne + nf + k] =
             IF k <= 6 THEN <<255, <<>> >> ELSE IF k = 7 THEN <<1, <<>> >> ELSE <<0, <<>> >>
    BY <1>27, <1>28
  <1>33. s \in TaggedSeq(d) /\ Len(s) = ng + ne + ne + ne + nf + ne
    BY <1>15c, <1>28
  <1>. QED
    BY <1>22, <1>23, <1>29, <1>30, <1>31, <1>32, <1>33 DEF Parts

LEMMA OutputIs ==
    ASSUME NEW d
    PROVE  LET o == OutputWithPrefix(Reverse256(DigestBytes(d)))
           IN /\ o \in TaggedSeq(d) /\ Len(o) = KeyBytes
              /\ \A k \in 1..KeyBytes : o[k] = SignedByte(d, k)
  <1>n. PICK ng \in Nat, ne \in Nat, nf \in Nat : Widths(ng, ne, nf)
    BY DEF Widths
  <1>t. PICK top \in Nat : top = KeyBytes /\ top = 256
    BY DEF KeyBytes
  <1>s. PICK s : s = OutputWithPrefix(Reverse256(DigestBytes(d)))
    OBVIOUS
  <1>1. Parts(s, d, ng, ne, nf)
    BY <1>n, <1>s, OutputParts
  <1>2. s \in TaggedSeq(d) /\ Len(s) = ng + ne + ne + ne + nf + ne
    BY <1>1 DEF Parts
  <1>3. Len(s) = top
    <2>1. ng + ne + ne + ne + nf + ne = top
      BY <1>n, <1>t DEF Widths
    <2>. QED
      BY <1>2, <2>1
  <1>4. ASSUME NEW k \in 1..top PROVE s[k] = SignedByte(d, k)
    <2>0. k \in Nat /\ 1 <= k /\ k <= 256
      BY <1>t
    <2>1. CASE k <= 32
      <3>1. k \in 1..ng /\ ng + 1 - k = 33 - k
        BY <1>n, <2>0, <2>1 DEF Widths
      <3>2. s[k] = <<ng + 1 - k, d>>
        <4>1. k \in 1..ng
          BY <3>1
        <4>. QED
          BY <1>1, <4>1 DEF Parts
      <3>. QED
        BY <2>1, <3>1, <3>2 DEF SignedByte
    <2>2. CASE k > 32 /\ k <= 40
      <3>1. PICK m \in 1..ne : m = k - 32 /\ k = ng + m
        <4>1. k - 32 \in 1..ne /\ k = ng + (k - 32)
          BY <1>n, <2>0, <2>2 DEF Widths
        <4>. QED
          BY <4>1
      <3>2. s[ng + m] = <<Info[m], <<>> >>
        BY <1>1 DEF Parts
      <3>3. ~(k <= 32) /\ k <= 52
        BY <2>0, <2>2
      <3>. QED
        BY <3>1, <3>2, <3>3 DEF SignedByte
    <2>3. CASE k > 40 /\ k <= 48
      <3>1. PICK m \in 1..ne : m = k - 40 /\ k = ng + ne + m
        <4>1. k - 40 \in 1..ne /\ k = ng + ne + (k - 40)
          BY <1>n, <2>0, <2>3 DEF Widths
        <4>. QED
          BY <4>1
      <3>2. s[ng + ne + m] = <<Info[8 + m], <<>> >>
        BY <1>1 DEF Parts
      <3>3. ~(k <= 32) /\ k <= 52 /\ 8 + m = k - 32
        BY <2>0, <2>3, <3>1
      <3>. QED
        BY <3>1, <3>2, <3>3 DEF SignedByte
    <2>4. CASE k > 48 /\ k <= 56
      <3>1. PICK m \in 1..ne : m = k - 48 /\ k = ng + ne + ne + m
        <4>1. k - 48 \in 1..ne /\ k = ng + ne + ne + (k - 48)
          BY <1>n, <2>0, <2>4 DEF Widths
        <4>. QED
          BY <4>1
      <3>2. s[ng + ne + ne + m] = IF m <= 4 THEN <<Info[16 + m], <<>> >> ELSE <<255, <<>> >>
        BY <1>1 DEF Parts
      <3>3. ~(k <= 32) /\ (m <= 4 <=> k <= 52) /\ 16 + m = k - 32 /\ k <= 254
        BY <2>0, <2>4, <3>1
      <3>4. CASE m <= 4
        <4>1. s[k] = <<Info[k - 32], <<>> >>
          BY <3>1, <3>2, <3>3, <3>4, Zenon
        <4>2. ~(k <= 32) /\ k <= 52
          BY <3>3, <3>4, Zenon
        <4>. QED
          BY <4>1, <4>2, Zenon DEF SignedByte
      <3>5. CASE ~(m <= 4)
        <4>1. s[k] = <<255, <<>> >>
          BY <3>1, <3>2, <3>5, Zenon
        <4>2. ~(k <= 32) /\ ~(k <= 52) /\ k <= 254
          BY <3>3, <3>5, Zenon
        <4>. QED
          BY <4>1, <4>2 DEF SignedByte
      <3>. QED
        BY <3>4, <3>5
    <2>5. CASE k > 56 /\ k <= 248
      <3>1. PICK m \in 1..nf : m = k - 56 /\ k = ng + ne + ne + ne + m
        <4>1. k - 56 \in 1..nf /\ k = ng + ne + ne + ne + (k - 56)
          BY <1>n, <2>0, <2>5 DEF Widths
        <4>. QED
          BY <4>1
      <3>2. s[ng + ne + ne + ne + m] = <<255, <<>> >>
        BY <1>1 DEF Parts
      <3>3. ~(k <= 32) /\ ~(k <= 52) /\ k <= 254
        BY <2>0, <2>5, <3>1
      <3>. QED
        BY <3>1, <3>2, <3>3 DEF SignedByte
    <2>6. CASE k > 248
      <3>1. PICK m \in 1..ne : m = k - 248 /\ k = ng + ne + ne + ne + nf + m
        <4>1. k - 248 \in 1..ne /\ k = ng + ne + ne + ne + nf + (k - 248)
          BY <1>n, <2>0, <2>6 DEF Widths
        <4>. QED
          BY <4>1
      <3>2. s[ng + ne + ne + ne + nf + m] = IF m <= 6 THEN <<255, <<>> >> ELSE IF m = 7 THEN <<1, <<>> >> ELSE <<0, <<>> >>
        BY <1>1 DEF Parts
      <3>3. ~(k <= 32) /\ ~(k <= 52) /\ (m <= 6 <=> k <= 254) /\ (m = 7 <=> k = 255)
        BY <2>0, <2>6, <3>1
      <3>. QED
        BY <3>1, <3>2, <3>3 DEF SignedByte
    <2>7. k <= 32 \/ (k > 32 /\ k <= 40) \/ (k > 40 /\ k <= 48) \/ (k > 48 /\ k <= 56)
          \/ (k > 56 /\ k <= 248) \/ k > 248
      BY <2>0
    <2>. QED
      BY <2>1, <2>2, <2>3, <2>4, <2>5, <2>6, <2>7
  <1>. QED
    BY <1>t, <1>s, <1>2, <1>3, <1>4

-----------------------------------------------------------------------------

\* What the circuit expects is what the host signs, digest by digest.
LEMMA SignedFor ==
    ASSUME NEW d
    PROVE  Reverse256(EncodedMessage(d)) = OutputWithPrefix(Reverse256(DigestBytes(d)))
  <1>t. PICK top \in Nat : top = KeyBytes
    BY DEF KeyBytes
  <1>a. PICK a : a = Reverse256(EncodedMessage(d))
    OBVIOUS
  <1>b. PICK b : b = OutputWithPrefix(Reverse256(DigestBytes(d)))
    OBVIOUS
  <1>1. EncodedMessage(d) \in TaggedSeq(d) /\ Len(EncodedMessage(d)) = top
    BY <1>t, EncodedIs
  <1>2. a \in TaggedSeq(d) /\ Len(a) = top
    BY <1>1, <1>a, ReversedIs
  <1>3. b \in TaggedSeq(d) /\ Len(b) = top
    BY <1>t, <1>b, OutputIs
  <1>4. ASSUME NEW k \in 1..top PROVE a[k] = b[k]
    <2>1. a[k] = SignedByte(d, k)
      BY <1>t, <1>a, EncodedIs
    <2>2. b[k] = SignedByte(d, k)
      BY <1>t, <1>b, OutputIs
    <2>. QED
      BY <2>1, <2>2
  <1>5. a = b
    BY <1>2, <1>3, <1>4, SeqEqual DEF TaggedSeq
  <1>. QED
    BY <1>a, <1>b, <1>5

\* An accepted signature is one that its key has made of the same digest.
LEMMA Opens ==
    ASSUME NEW key, NEW x, NEW d, NEW s, s = Sign(key, x), NEW pk,
           OpenedBytes(s, pk) = OutputWithPrefix(Reverse256(DigestBytes(d)))
    PROVE  key = pk.key /\ x = d
  <1>t. PICK top \in Nat : top = KeyBytes /\ 1 \in 1..top
    BY DEF KeyBytes
  <1>0. s.key = key /\ s.opens = EncodedMessage(x)
    BY DEF Sign
  <1>1. OpenedBytes(s, pk)[1] = SignedByte(d, 1)
    BY <1>t, OutputIs
  <1>2. SignedByte(d, 1) = <<32, d>> /\ SignedByte(x, 1) = <<32, x>>
    BY DEF SignedByte
  <1>3. CASE key # pk.key
    <2>1. OpenedBytes(s, pk) = Repeated(0, 256)
      BY <1>0, <1>3 DEF OpenedBytes
    <2>2. Repeated(0, 256)[1] = <<0, <<>> >>
      <3>1. PICK n \in Nat : n = 256 /\ 1 \in 1..n /\ 0 \in Nat
        OBVIOUS
      <3>2. Repeated(0, n)[1] = <<0, <<>> >>
        <4>1. AllSame(Repeated(0, n), 0, n, d)
          BY <3>1, RepeatedIs
        <4>. QED
          BY <3>1, <4>1 DEF AllSame
      <3>. QED
        BY <3>1, <3>2
    <2>3. <<32, d>> = <<0, <<>> >>
      BY <1>1, <1>2, <2>1, <2>2
    <2>. QED
      BY <2>3
  <1>4. CASE key = pk.key
    <2>1. OpenedBytes(s, pk) = Reverse256(EncodedMessage(x))
      BY <1>0, <1>4 DEF OpenedBytes
    <2>2. Reverse256(EncodedMessage(x))[1] = SignedByte(x, 1)
      BY <1>t, EncodedIs
    <2>3. <<32, d>> = <<32, x>>
      BY <1>1, <1>2, <2>1, <2>2
    <2>4. d = x
      BY <2>3
    <2>. QED
      BY <1>4, <2>4
  <1>. QED
    BY <1>3, <1>4

-----------------------------------------------------------------------------
(* From the buffer to the claims.                                          *)

\* The circuit holds the token's message, and its digest.
TokenHeld(t) ==
    /\ tokWit.digest.data = SigningInput(Message(t), BufferLen).data
    /\ tokWit.digest.pad = Len(Message(t)) /\ Len(Message(t)) < BufferLen
    /\ tokSeen.digest = Digest(Message(t))

\* Its payload's indices and bytes.
IndicesOf(t) == [k \in 1..MaxPayload |-> PayloadIndex(t, k)]
PayloadOf(t) == JoinBits(IndicesOf(t))

DataHolds(t, h, n) ==
    /\ Len(Data) = BufferLen /\ tokWit.digest.pad = h + 1 + n /\ h + 1 + n < BufferLen
    /\ \A k \in 1..(h + 1 + n) : Data[k] = Message(t)[k]
    /\ \A k \in 1..(h + 1 + n) : Data[k] = DotChar => k = h + 1
    /\ Data[h + 1] = DotChar
    /\ \A c \in 1..n : Data[h + 1 + c] = Base64Table[PayloadIndex(t, c)]

LEMMA HeldData ==
    ASSUME NEW t, GoodToken(t), TokenHeld(t), NEW h \in Nat, h = t.header, NEW n \in Nat, n = PayloadLen(t)
    PROVE  DataHolds(t, h, n)
  <1>b. PICK size \in Nat : size = BufferLen
    BY BufferSize
  <1>m. PICK m : m = Message(t)
    OBVIOUS
  <1>d. PICK d : d = Data
    OBVIOUS
  <1>1. /\ m \in Bytes /\ Len(m) = h + 1 + n /\ m[h + 1] = DotChar
        /\ \A c \in 1..n : m[h + 1 + c] = Payload(t)[c]
    BY <1>m, MessageIs
  <1>2. d = SigningInput(m, size).data /\ tokWit.digest.pad = Len(m) /\ Len(m) < size
    BY <1>b, <1>m, <1>d DEF TokenHeld, Data
  <1>3. Len(d) = size
    BY <1>1, <1>2, SigningInputIs
  <1>4. \A k \in 1..size : k <= h + 1 + n => d[k] = m[k]
    <2>1. m \in Bytes /\ d = SigningInput(m, size).data
      BY <1>1, <1>2
    <2>2. \E len \in Nat : len = Len(m) /\ \A k \in 1..size : k <= len => d[k] = m[k]
      BY <2>1, DataIs
    <2>. QED
      BY <1>1, <2>2
  <1>5. ASSUME NEW k \in 1..(h + 1 + n) PROVE d[k] = m[k]
    <2>1. k \in 1..size /\ k <= h + 1 + n
      BY <1>1, <1>2
    <2>. QED
      BY <1>4, <2>1
  <1>6. ASSUME NEW k \in 1..(h + 1 + n), d[k] = DotChar PROVE k = h + 1
    <2>1. k \in 1..Len(Message(t)) /\ Message(t)[k] = DotChar
      BY <1>1, <1>5, <1>6, <1>m
    <2>. QED
      BY <2>1, MessageBytes
  <1>7. ASSUME NEW c \in 1..n PROVE d[h + 1 + c] = Base64Table[PayloadIndex(t, c)]
    <2>1. h + 1 + c \in 1..(h + 1 + n)
      OBVIOUS
    <2>2. d[h + 1 + c] = m[h + 1 + c] /\ m[h + 1 + c] = Payload(t)[c]
      BY <1>1, <1>5, <2>1
    <2>3. Payload(t)[c] = Base64Table[PayloadIndex(t, c)]
      BY PayloadIs
    <2>. QED
      BY <2>2, <2>3
  <1>8. d[h + 1] = DotChar
    <2>1. h + 1 \in 1..(h + 1 + n)
      OBVIOUS
    <2>. QED
      BY <1>1, <1>5, <2>1
  <1>9. h + 1 + n < size /\ tokWit.digest.pad = h + 1 + n
    BY <1>1, <1>2
  <1>. QED
    BY <1>b, <1>m, <1>d, <1>3, <1>5, <1>6, <1>7, <1>8, <1>9 DEF DataHolds

\* What is cut out there is the payload, and zeros that read as 'A'.
LEMMA SliceIs ==
    ASSUME NEW t, GoodToken(t), TokenHeld(t), NEW w, w.offset = t.header + 1, w.len = PayloadLen(t)
    PROVE  /\ SlicePayload(w) \in [1..MaxPayload -> Byte]
           /\ \A k \in 1..MaxPayload :
                 /\ Normalized(SlicePayload(w)[k]) = Base64Table[PayloadIndex(t, k)]
                 /\ IndicesFor(SlicePayload(w))[k] = PayloadIndex(t, k)
           /\ IndicesFor(SlicePayload(w)) = IndicesOf(t)
  <1>h. PICK h \in Nat : h = t.header
    BY DEF GoodToken
  <1>n. PICK n \in Nat : n = PayloadLen(t) /\ n >= 27
    BY PayloadSize
  <1>l. PICK size \in Nat : size = Len(TextOf(t)) /\ n = (4 * size + 2) \div 3
    BY <1>n, TextIs DEF PayloadLen
  <1>m. PICK m \in Nat : m = MaxPayload
    BY TokenSizesAssumption
  <1>s. PICK s : s = SlicePayload(w)
    OBVIOUS
  <1>0. DataHolds(t, h, n)
    BY <1>h, <1>n, HeldData
  <1>1. \A c \in 1..n : Data[h + 1 + c] = Base64Table[PayloadIndex(t, c)]
    BY <1>0 DEF DataHolds
  <1>2. s = [k \in 1..m |-> IF k <= n THEN Data[h + 1 + k] ELSE 0]
    BY <1>h, <1>n, <1>m, <1>s DEF SlicePayload
  <1>3. ASSUME NEW k \in 1..m
        PROVE  /\ s[k] \in Byte /\ PayloadIndex(t, k) \in 0..63
               /\ Normalized(s[k]) = Base64Table[PayloadIndex(t, k)]
    <2>1. PayloadIndex(t, k) \in 0..63
      <3>1. k \in Nat /\ k # 0
        OBVIOUS
      <3>. QED
        BY <3>1, PayloadIndexIs
    <2>2. CASE k <= n
      <3>1. s[k] = Base64Table[PayloadIndex(t, k)]
        BY <1>1, <1>2, <2>2
      <3>2. s[k] \in Byte \ {0}
        BY <2>1, <3>1, TableIs
      <3>. QED
        BY <2>1, <3>1, <3>2, Characters
    <2>3. CASE ~(k <= n)
      <3>1. s[k] = 0
        BY <1>2, <2>3
      <3>2. k \in Nat /\ k > (4 * size + 2) \div 3
        BY <1>l, <2>3
      <3>3. PayloadIndex(t, k) = 0
        BY <1>l, <3>2, TextIs, SixBitsEnd DEF PayloadIndex
      <3>4. 0 \in Byte
        BY DEF Byte
      <3>. QED
        BY <2>1, <3>1, <3>3, <3>4, Characters
    <2>. QED
      BY <2>2, <2>3
  <1>4. s \in [1..m -> Byte] /\ DOMAIN s = 1..m
    BY <1>2, <1>3
  <1>i. PICK i : i = IndicesFor(s)
    OBVIOUS
  <1>5. i = [k \in 1..m |-> IF DecodeCharOk(Normalized(s[k])) THEN DecodeChar(Normalized(s[k])) ELSE 64]
    BY <1>4, <1>i DEF IndicesFor
  <1>6. ASSUME NEW k \in 1..m PROVE i[k] = PayloadIndex(t, k)
    <2>1. i[k] = IF DecodeCharOk(Normalized(s[k])) THEN DecodeChar(Normalized(s[k])) ELSE 64
      BY <1>5
    <2>. QED
      BY <1>3, <2>1, TableIs
  <1>7. i = IndicesOf(t)
    BY <1>m, <1>5, <1>6 DEF IndicesOf
  <1>. QED
    BY <1>m, <1>s, <1>i, <1>3, <1>4, <1>6, <1>7

\* A payload begins after the only dot and ends with the message.
LEMMA BoundariesFix ==
    ASSUME NEW t, GoodToken(t), TokenHeld(t), NEW w, w.offset \in Nat,
           BoundariesOk(w), SlicePayloadOk(w)
    PROVE  IndicesFor(SlicePayload(w)) = IndicesOf(t)
  <1>h. PICK h \in Nat : h = t.header
    BY DEF GoodToken
  <1>n. PICK n \in Nat : n = PayloadLen(t)
    BY PayloadSize
  <1>o. PICK o \in Nat : o = w.offset
    OBVIOUS
  <1>m. PICK m \in Nat : m = MaxPayload
    BY TokenSizesAssumption
  <1>l. PICK l \in 1..m : l = w.len
    BY <1>m DEF SlicePayloadOk
  <1>1. o > 0 /\ Data[o] = DotChar /\ o + l = tokWit.digest.pad
    BY <1>o, <1>l DEF BoundariesOk
  <1>2. /\ tokWit.digest.pad = h + 1 + n
        /\ \A k \in 1..(h + 1 + n) : Data[k] = DotChar => k = h + 1
    <2>1. DataHolds(t, h, n)
      BY <1>h, <1>n, HeldData
    <2>. QED
      BY <2>1 DEF DataHolds
  <1>3. o \in 1..(h + 1 + n)
    BY <1>1, <1>2
  <1>4. o = h + 1 /\ l = n
    BY <1>1, <1>2, <1>3
  <1>. QED
    BY <1>h, <1>n, <1>o, <1>l, <1>4, SliceIs

\* The host's boundaries satisfy the constraints, if the payload fits.
LEMMA HostBounds ==
    ASSUME NEW t, GoodToken(t), TokenHeld(t), Len(Payload(t)) <= MaxPayload,
           NEW w, w = [offset |-> t.header + 1, len |-> Len(Payload(t))]
    PROVE  BoundariesOk(w) /\ SlicePayloadOk(w) /\ DecodesOk(w)
  <1>h. PICK h \in Nat : h = t.header
    BY DEF GoodToken
  <1>n. PICK n \in Nat : n = PayloadLen(t) /\ n >= 27
    BY PayloadSize
  <1>m. PICK m \in Nat : m = MaxPayload /\ m % 4 = 0
    BY TokenSizesAssumption
  <1>b. PICK size \in Nat : size = BufferLen
    BY BufferSize
  <1>1. Len(Payload(t)) = n
    BY <1>n, PayloadIs
  <1>2. w.offset = h + 1 /\ w.len = n
    BY <1>h, <1>1
  <1>3. /\ Len(Data) = size /\ tokWit.digest.pad = h + 1 + n /\ h + 1 + n < size
        /\ Data[h + 1] = DotChar
    <2>1. DataHolds(t, h, n)
      BY <1>h, <1>n, HeldData
    <2>2. /\ Len(Data) = BufferLen /\ tokWit.digest.pad = h + 1 + n /\ h + 1 + n < BufferLen
          /\ Data[h + 1] = DotChar
      BY <2>1 DEF DataHolds
    <2>. QED
      BY <1>b, <2>2
  <1>4. BoundariesOk(w)
    <2>1. h + 1 > 0 /\ h + 1 + n < Len(Data) /\ h + 1 + n = tokWit.digest.pad
      BY <1>3
    <2>. QED
      BY <1>2, <1>3, <2>1 DEF BoundariesOk
  <1>5. SlicePayloadOk(w)
    <2>1. n <= m /\ n \in 1..m
      BY <1>1, <1>m, <1>n
    <2>2. h + 1 <= Len(Data) - 1 /\ h + 1 + n <= Len(Data)
      BY <1>3, <1>n
    <2>. QED
      BY <1>2, <1>m, <2>1, <2>2 DEF SlicePayloadOk
  <1>6. DecodesOk(w)
    <2>s. PICK s, i : s = SlicePayload(w) /\ i = IndicesFor(s)
      OBVIOUS
    <2>1. /\ s \in [1..m -> Byte] /\ i = IndicesOf(t)
          /\ \A k \in 1..m : Normalized(s[k]) = Base64Table[PayloadIndex(t, k)]
      BY <1>h, <1>n, <1>m, <1>2, <2>s, SliceIs
    <2>2. Len(s) = m /\ DOMAIN s = 1..m
      BY <2>1
    <2>3. \A k \in 1..m : PayloadIndex(t, k) \in 0..63
      <3>1. \A k \in 1..m : k \in Nat /\ k # 0
        OBVIOUS
      <3>. QED
        BY <3>1, PayloadIndexIs
    <2>4. i \in [1..m -> 0..63] /\ \A k \in 1..m : i[k] = PayloadIndex(t, k)
      BY <1>m, <2>1, <2>3 DEF IndicesOf
    <2>5. Len(i) = m
      BY <2>4
    <2>6. \A k \in DOMAIN s : i[k] \in 0..63 /\ Base64Table[i[k]] = Normalized(s[k])
      BY <2>1, <2>2, <2>3, <2>4
    <2>. QED
      BY <1>m, <2>s, <2>2, <2>5, <2>6 DEF DecodesOk, DecodeOk
  <1>. QED
    BY <1>4, <1>5, <1>6

\* What it decodes to: the text, and zeros behind it.
Decodes(t, m) == m \in Nat /\ PayloadOf(t) = [k \in 1..m |-> ByteAt(TextOf(t), k)]

LEMMA DecodedIs ==
    ASSUME NEW t, GoodToken(t)
    PROVE  \E q \in Nat : MaxPayload = 4 * q /\ Decodes(t, 3 * q)
  <1>1. PICK q \in Nat : MaxPayload = 4 * q
    <2>1. MaxPayload \in Nat /\ MaxPayload % 4 = 0
      BY TokenSizesAssumption
    <2>2. MaxPayload \div 4 \in Nat /\ MaxPayload = 4 * (MaxPayload \div 4)
      BY <2>1
    <2>. QED
      BY <2>2
  <1>m. PICK m \in Nat : m = 4 * q /\ m = MaxPayload
    BY <1>1
  <1>x. PICK x \in Bytes : x = TextOf(t)
    BY TextIs
  <1>i. PICK i : i = [k \in 1..m |-> SixBits(x, k)]
    OBVIOUS
  <1>2. JoinBits(i) = [k \in 1..(3 * q) |-> ByteAt(x, k)]
    BY <1>m, <1>i, JoinsBack
  <1>3. i = IndicesOf(t)
    BY <1>m, <1>x, <1>i DEF IndicesOf, PayloadIndex
  <1>4. 3 * q \in Nat
    OBVIOUS
  <1>. QED
    BY <1>1, <1>2, <1>3, <1>4, <1>x DEF Decodes, PayloadOf

\* A byte of the payload that is not zero is one of the text.
LEMMA NotBehind ==
    ASSUME NEW t, GoodToken(t), NEW m, Decodes(t, m), NEW k \in 1..m, PayloadOf(t)[k] # 0
    PROVE  k \in DOMAIN TextOf(t) /\ PayloadOf(t)[k] = TextOf(t)[k]
  <1>x. PICK x \in Bytes, n \in Nat : x = TextOf(t) /\ n = Len(x) /\ DOMAIN x = 1..n
    BY TextIs, ByteSeq
  <1>1. m \in Nat /\ PayloadOf(t)[k] = ByteAt(x, k)
    BY <1>x DEF Decodes
  <1>2. k <= n
    BY <1>1, <1>x DEF ByteAt
  <1>. QED
    BY <1>1, <1>2, <1>x DEF ByteAt

\* The issuer's claim j in the text.
StandsIn(text, t, j, o) ==
    /\ o + 1 \in DOMAIN text /\ o + 2 \in DOMAIN text
    /\ o + 3 \in DOMAIN text /\ o + 4 \in DOMAIN text
    /\ text[o + 1] = j /\ text[o + 2] = ValueIn(t, j)
    /\ text[o + 3] = AfterValue(j) /\ text[o + 4] = 44

LEMMA ClaimStands ==
    ASSUME NEW t, GoodToken(t), NEW j \in 1..5, NEW o \in Nat, o = 4 * (j - 1)
    PROVE  StandsIn(TextOf(t), t, j, o)
  <1>x. PICK x \in Bytes, n \in Nat : x = TextOf(t) /\ n = Len(x) /\ DOMAIN x = 1..n /\ n >= 20
    BY TextIs, ByteSeq
  <1>g. PICK g \in 0..4 : g = j - 1 /\ g + 1 = j /\ o = 4 * g
    OBVIOUS
  <1>1. /\ x[4 * g + 1] = ClaimByte(t, g + 1, 1) /\ x[4 * g + 2] = ClaimByte(t, g + 1, 2)
        /\ x[4 * g + 3] = ClaimByte(t, g + 1, 3) /\ x[4 * g + 4] = ClaimByte(t, g + 1, 4)
    <2>1. 1 \in 1..4 /\ 2 \in 1..4 /\ 3 \in 1..4 /\ 4 \in 1..4
      OBVIOUS
    <2>. QED
      BY <1>x, <2>1, TextIs
  <1>2. /\ ClaimByte(t, j, 1) = j /\ ClaimByte(t, j, 2) = ValueIn(t, j)
        /\ ClaimByte(t, j, 3) = AfterValue(j) /\ ClaimByte(t, j, 4) = 44
    <2>1. 2 # 1 /\ 3 # 1 /\ 3 # 2 /\ 4 # 1 /\ 4 # 2 /\ 4 # 3
      OBVIOUS
    <2>. QED
      BY <2>1, Zenon DEF ClaimByte
  <1>3. o + 1 \in 1..n /\ o + 2 \in 1..n /\ o + 3 \in 1..n /\ o + 4 \in 1..n
    BY <1>x, <1>g
  <1>4. /\ x[o + 1] = j /\ x[o + 2] = ValueIn(t, j)
        /\ x[o + 3] = AfterValue(j) /\ x[o + 4] = 44
    BY <1>g, <1>1, <1>2
  <1>. QED
    BY <1>x, <1>3, <1>4 DEF StandsIn

LEMMA MaxClaimIs == MaxClaim \in Nat /\ MaxClaim >= 4
  BY TokenSizesAssumption

\* What is sliced by a witness that the extractor lets through.
LEMMA Sliced ==
    ASSUME NEW name, NEW w, ExtractOk(name, w), NEW t, GoodToken(t), tokSeen.payload = PayloadOf(t),
           NEW m, Decodes(t, m)
    PROVE  /\ w.claimLen \in 1..MaxClaim /\ w.value \in 1..MaxClaim /\ w.len \in 1..MaxClaim
           /\ w.offset + w.claimLen <= m /\ w.offset + w.value + w.len <= m
           /\ PayloadOf(t)[w.offset + 1] = IdOf(name)
           /\ PayloadOf(t)[w.offset + w.claimLen] \in Terminators
  <1>1. Len(PayloadOf(t)) = m
    BY DEF Decodes
  <1>2. /\ w.claimLen \in 1..MaxClaim /\ w.value \in 1..MaxClaim /\ w.len \in 1..MaxClaim
        /\ w.offset + w.claimLen <= Len(tokSeen.payload)
        /\ w.offset + w.value + w.len <= Len(tokSeen.payload)
        /\ tokSeen.payload[w.offset + 1] = IdOf(name)
        /\ tokSeen.payload[w.offset + w.claimLen] \in Terminators
    BY DEF ExtractOk
  <1>. QED
    BY <1>1, <1>2

\* And what is white in it.
LEMMA WhiteBefore ==
    ASSUME NEW name, NEW w, ExtractOk(name, w), NEW bytes, tokSeen.payload = bytes
    PROVE  AreWhite(bytes, w.offset + 2, w.offset + w.value + 1)
  BY DEF ExtractOk

LEMMA WhiteBehind ==
    ASSUME NEW name, NEW w, ExtractOk(name, w), NEW bytes, tokSeen.payload = bytes
    PROVE  AreWhite(bytes, w.offset + w.value + w.len + 2, w.offset + w.claimLen)
  BY DEF ExtractOk

\* A reader is given what stands in the text behind the claim's name, and the
\* issuer's value if the name is nowhere else.
LEMMA PlaceRead ==
    ASSUME NEW t, GoodToken(t), tokSeen.payload = PayloadOf(t),
           NEW name, NEW j \in 1..5, IdOf(name) = j, NEW w, w.offset \in Nat, ExtractOk(name, w)
    PROVE  /\ ReadIn(TextOf(t), j, Extracted(w))
           /\ OnlyClaim(t, j) => Extracted(w)[1] = ValueIn(t, j)
  <1>c. PICK max \in Nat : max = MaxClaim /\ max >= 4
    BY MaxClaimIs
  <1>m. PICK m \in Nat : Decodes(t, m)
    <2>1. PICK r \in Nat : Decodes(t, 3 * r)
      BY DecodedIs
    <2>. QED
      BY <2>1 DEF Decodes
  <1>x. PICK x \in Bytes, len \in Nat : x = TextOf(t) /\ len = Len(x) /\ DOMAIN x = 1..len
    BY TextIs, ByteSeq
  <1>y. PICK y : y = PayloadOf(t)
    OBVIOUS
  <1>o. PICK o \in Nat, v \in 1..max, n \in 1..max, c \in 1..max :
            o = w.offset /\ v = w.value /\ n = w.len /\ c = w.claimLen
    BY <1>c, <1>m, Sliced
  <1>1. /\ o + c <= m /\ o + v + n <= m /\ y[o + 1] = j
        /\ y[o + c] \in Terminators
    BY <1>m, <1>o, <1>y, Sliced
  <1>1a. AreWhite(y, o + 2, o + v + 1)
    BY <1>o, <1>y, WhiteBefore
  <1>1b. AreWhite(y, o + v + n + 2, o + c)
    BY <1>o, <1>y, WhiteBehind
  <1>p. PICK p \in Nat, e \in Nat, q \in Nat : p = o + 1 /\ e = o + c /\ q = o + v + 1
    OBVIOUS
  <1>2. p \in 1..m /\ e \in 1..m
    BY <1>1, <1>p
  <1>3. p \in 1..len /\ e \in 1..len /\ x[p] = j /\ x[e] \in Terminators /\ y[e] = x[e]
    <2>1. y[p] # 0 /\ y[e] # 0 /\ y[p] = j /\ y[e] \in Terminators
      BY <1>1, <1>p DEF Terminators
    <2>2. p \in DOMAIN x /\ y[p] = x[p]
      BY <1>2, <1>m, <1>x, <1>y, <2>1, NotBehind
    <2>3. e \in DOMAIN x /\ y[e] = x[e]
      BY <1>2, <1>m, <1>x, <1>y, <2>1, NotBehind
    <2>. QED
      BY <1>x, <2>1, <2>2, <2>3
  <1>4. p < e /\ e < p + max
    <2>1. p # e
      BY <1>3 DEF Terminators
    <2>. QED
      BY <1>p, <2>1
  <1>5. q <= e /\ q >= p + 1
    <2>1. ASSUME q > e PROVE FALSE
      <3>1. e \in (o + 2)..(o + v + 1 - 1)
        BY <1>4, <1>p, <2>1
      <3>2. y[e] \in WhiteSpace
        BY <1>1a, <3>1 DEF AreWhite
      <3>. QED
        BY <1>3, <3>2 DEF WhiteSpace, Terminators
    <2>. QED
      BY <1>p, <2>1
  <1>6. ASSUME NEW k \in 1..e PROVE x[k] = y[k]
    <2>1. k \in 1..m /\ k <= len /\ k \in Nat
      BY <1>2, <1>3
    <2>2. y[k] = ByteAt(x, k)
      BY <1>m, <1>x, <1>y, <2>1 DEF Decodes
    <2>. QED
      BY <1>x, <2>1, <2>2 DEF ByteAt
  <1>7. AreWhite(x, p + 1, q)
    <2>1. ASSUME NEW k \in (p + 1)..(q - 1) PROVE x[k] \in WhiteSpace
      <3>1. k \in (o + 2)..(o + v + 1 - 1) /\ k \in 1..e
        BY <1>5, <1>p
      <3>. QED
        BY <1>1a, <1>6, <3>1 DEF AreWhite
    <2>. QED
      BY <2>1 DEF AreWhite
  <1>8. AreWhite(x, q + n + 1, e)
    <2>1. ASSUME NEW k \in (q + n + 1)..(e - 1) PROVE x[k] \in WhiteSpace
      <3>1. k \in (o + v + n + 2)..(o + c - 1) /\ k \in 1..e
        BY <1>p
      <3>. QED
        BY <1>1b, <1>6, <3>1 DEF AreWhite
    <2>. QED
      BY <2>1 DEF AreWhite
  <1>r. PICK read : read = Extracted(w)
    OBVIOUS
  <1>9. read = [k \in 1..max |-> IF k <= n THEN ByteAt(x, q + k - 1) ELSE 0]
    <2>1. read = [k \in 1..max |-> IF k <= n THEN y[o + v + k] ELSE 0]
      BY <1>c, <1>o, <1>r, <1>y DEF Extracted
    <2>2. ASSUME NEW k \in 1..max, k <= n PROVE y[o + v + k] = ByteAt(x, q + k - 1)
      <3>1. PICK i \in 1..m : i = o + v + k /\ i = q + k - 1
        <4>1. o + v + k \in 1..m /\ o + v + k = q + k - 1
          BY <1>1, <1>p, <2>2
        <4>. QED
          BY <4>1
      <3>2. y[i] = ByteAt(x, i)
        BY <1>m, <1>x, <1>y DEF Decodes
      <3>. QED
        BY <3>1, <3>2
    <2>. QED
      BY <2>1, <2>2
  <1>10. ReadIn(x, j, read)
    <2>1. p \in DOMAIN x /\ e \in DOMAIN x /\ q \in (p + 1)..e /\ n \in 1..MaxClaim /\ e < p + MaxClaim
      BY <1>3, <1>4, <1>5, <1>c, <1>x
    <2>2. read = [k \in 1..MaxClaim |-> IF k <= n THEN ByteAt(x, q + k - 1) ELSE 0]
      BY <1>9, <1>c
    <2>. QED
      BY <1>3, <1>4, <1>7, <1>8, <2>1, <2>2 DEF ReadIn
  <1>11. ASSUME OnlyClaim(t, j) PROVE read[1] = ValueIn(t, j)
    <2>1. p = 4 * j - 3
      <3>1. p \in DOMAIN TextOf(t) /\ TextOf(t)[p] = j
        BY <1>3, <1>x
      <3>. QED
        BY <1>11, <3>1 DEF OnlyClaim
    <2>2. o \in Nat /\ o = 4 * (j - 1)
      BY <1>p, <2>1
    <2>3. o + 2 \in 1..len /\ x[o + 2] = ValueIn(t, j)
      <3>1. StandsIn(x, t, j, o)
        BY <1>x, <2>2, ClaimStands
      <3>. QED
        BY <1>x, <3>1 DEF StandsIn
    <2>4. x[o + 2] \notin WhiteSpace
      BY <2>3, ValueIsByte DEF GoodToken
    <2>5. q = p + 1
      <3>1. ASSUME q > p + 1 PROVE FALSE
        <4>1. o + 2 \in (p + 1)..(q - 1)
          BY <1>p, <3>1
        <4>. QED
          BY <1>7, <2>4, <4>1 DEF AreWhite
      <3>. QED
        BY <1>5, <3>1
    <2>6. read[1] = ByteAt(x, q + 1 - 1)
      <3>1. 1 \in 1..max /\ 1 <= n
        BY <1>c
      <3>. QED
        BY <1>9, <3>1
    <2>7. q + 1 - 1 = o + 2 /\ o + 2 <= Len(x)
      BY <1>p, <1>x, <2>3, <2>5
    <2>. QED
      BY <2>3, <2>6, <2>7 DEF ByteAt
  <1>. QED
    BY <1>x, <1>r, <1>10, <1>11

\* The host's place of a claim is the issuer's, and what is read there its value.
LEMMA HostPlace ==
    ASSUME NEW t, GoodToken(t), tokSeen.payload = PayloadOf(t), Len(Payload(t)) <= MaxPayload,
           NEW name, NEW j \in 1..5, IdOf(name) = j, NEW w, w = PlaceOf(j)
    PROVE  ExtractOk(name, w) /\ ReaderOk(j, w) /\ Extracted(w) = OwnValue(t, j)
  <1>c. PICK max \in Nat : max = MaxClaim /\ max >= 4
    BY MaxClaimIs
  <1>q. PICK r \in Nat : MaxPayload = 4 * r /\ Decodes(t, 3 * r)
    BY DecodedIs
  <1>x. PICK x \in Bytes, size \in Nat : x = TextOf(t) /\ size = Len(x) /\ DOMAIN x = 1..size /\ size >= 20
    BY TextIs, ByteSeq
  <1>y. PICK y : y = tokSeen.payload
    OBVIOUS
  <1>m. PICK m \in Nat : m = 3 * r
    OBVIOUS
  <1>1. size <= m
    <2>1. (4 * size + 2) \div 3 <= 4 * r
      BY <1>q, <1>x, PayloadIs DEF PayloadLen
    <2>. QED
      BY <1>m, <2>1
  <1>2. y = [k \in 1..m |-> ByteAt(x, k)]
    BY <1>m, <1>q, <1>x, <1>y DEF Decodes
  <1>l. Len(y) = m
    BY <1>2
  <1>3. ASSUME NEW k \in 1..size PROVE y[k] = x[k]
    <2>1. k \in 1..m /\ k <= Len(x)
      BY <1>1, <1>x
    <2>. QED
      BY <1>2, <2>1 DEF ByteAt
  <1>o. PICK o \in Nat, n \in 1..2 : o = 4 * (j - 1) /\ n = ValueLen(j) /\ (j # 2 => n = 2) /\ (j = 2 => n = 1)
    BY DEF ValueLen
  <1>w. w.offset = o /\ w.value = 1 /\ w.len = n /\ w.claimLen = 4
    BY <1>o DEF PlaceOf
  <1>4. /\ o + 1 \in 1..size /\ o + 2 \in 1..size /\ o + 3 \in 1..size /\ o + 4 \in 1..size
        /\ y[o + 1] = j /\ y[o + 2] = ValueIn(t, j) /\ y[o + 3] = AfterValue(j) /\ y[o + 4] = 44
    <2>1. /\ o + 1 \in 1..size /\ o + 2 \in 1..size /\ o + 3 \in 1..size /\ o + 4 \in 1..size
      BY <1>o, <1>x
    <2>2. /\ x[o + 1] = j /\ x[o + 2] = ValueIn(t, j) /\ x[o + 3] = AfterValue(j) /\ x[o + 4] = 44
      <3>1. o \in Nat /\ o = 4 * (j - 1)
        BY <1>o
      <3>2. StandsIn(x, t, j, o)
        BY <1>x, <3>1, ClaimStands
      <3>. QED
        BY <3>2 DEF StandsIn
    <2>. QED
      BY <1>3, <2>1, <2>2
  <1>5. ExtractOk(name, w)
    <2>1. AreWhite(y, o + 2, o + 1 + 1) /\ AreWhite(y, o + 1 + n + 2, o + 4)
      BY DEF AreWhite
    <2>2. 4 \in 1..max /\ 1 \in 1..max /\ n \in 1..max
      BY <1>c
    <2>3. o + 4 <= m /\ o + 1 + n <= m
      BY <1>1, <1>4
    <2>4. y[o + 4] \in Terminators
      BY <1>4 DEF Terminators
    <2>. QED
      BY <1>c, <1>w, <1>y, <1>l, <1>4, <2>1, <2>2, <2>3, <2>4 DEF ExtractOk
  <1>r. PICK read : read = Extracted(w)
    OBVIOUS
  <1>6. read = [k \in 1..max |-> IF k <= n THEN y[o + 1 + k] ELSE 0]
    BY <1>c, <1>r, <1>w, <1>y DEF Extracted
  <1>7. ASSUME NEW k \in 1..max
        PROVE  read[k] = IF k = 1 THEN ValueIn(t, j) ELSE IF k = 2 /\ j # 2 THEN QuoteChar ELSE 0
    <2>1. CASE k = 1
      <3>1. k <= n /\ o + 1 + k = o + 2
        BY <2>1
      <3>. QED
        BY <1>4, <1>6, <2>1, <3>1
    <2>2. CASE k = 2 /\ j # 2
      <3>1. k <= n /\ o + 1 + k = o + 3 /\ k # 1
        BY <1>o, <2>2
      <3>2. AfterValue(j) = QuoteChar
        BY <2>2 DEF AfterValue
      <3>. QED
        BY <1>4, <1>6, <2>2, <3>1, <3>2
    <2>3. CASE k # 1 /\ ~(k = 2 /\ j # 2)
      <3>1. ~(k <= n)
        BY <1>o, <2>3
      <3>2. read[k] = 0
        BY <1>6, <3>1
      <3>. QED
        BY <2>3, <3>2
    <2>. QED
      BY <2>1, <2>2, <2>3
  <1>8. read = OwnValue(t, j)
    BY <1>6, <1>7, <1>c DEF OwnValue
  <1>9. ReaderOk(j, w)
    <2>1. ASSUME j = 2, NEW k \in 2..MaxClaim PROVE Extracted(w)[k] = 0
      <3>1. k \in 1..max /\ k # 1
        BY <1>c
      <3>. QED
        BY <1>7, <1>r, <2>1, <3>1
    <2>2. ASSUME j = 4 PROVE w.len = 2 /\ Extracted(w)[2] = QuoteChar
      <3>1. 2 \in 1..max /\ n = 2
        BY <1>c, <1>o, <2>2
      <3>. QED
        BY <1>7, <1>r, <1>w, <2>2, <3>1
    <2>. QED
      BY <2>1, <2>2 DEF ReaderOk
  <1>. QED
    BY <1>5, <1>8, <1>9, <1>r

-----------------------------------------------------------------------------
(* The issuers' tree.                                                      *)

\* Its leaves fill it.
LEMMA HeightIs ==
    /\ Height \in Nat /\ DOMAIN Leaves = 0..(NatPower(2, Height) - 1)
    /\ Height <= 16
  <1>1. PICK h \in 0..16 : DOMAIN Leaves = 0..(NatPower(2, h) - 1)
    BY LeavesAssumption
  <1>n. PICK n : n = NatPower(2, h)
    OBVIOUS
  <1>2. n \in Nat \ {0}
    BY <1>n, PowerType
  <1>3. Cardinality(0..(n - 1)) = n
    BY <1>2, FS_Interval
  <1>4. \E k \in 0..16 : NatPower(2, k) = Cardinality(DOMAIN Leaves)
    BY <1>1, <1>n, <1>3
  <1>5. Height \in 0..16 /\ NatPower(2, Height) = Cardinality(DOMAIN Leaves)
    BY <1>4 DEF Height
  <1>. QED
    BY <1>1, <1>n, <1>3, <1>5

\* One level from the level below.
LevelAbove(l, h) ==
    [i \in 0..(NatPower(2, Height - h) - 1) |-> Poseidon(<<l[2 * i], l[2 * i + 1]>>)]
LeafLevel == [i \in DOMAIN Leaves |-> Poseidon(<<LeafOf(Leaves[i][1], Leaves[i][2])>>)]
AreLevels(f, n) == f = [h \in 0..n |-> IF h = 0 THEN LeafLevel ELSE LevelAbove(f[h - 1], h)]

LEMMA LevelsExist == ASSUME NEW e \in Nat PROVE \E f : AreLevels(f, e)
  <1>. DEFINE T == {k \in Nat : \E f : AreLevels(f, k)}
  <1>1. 0 \in T
    <2>. DEFINE f == [k \in 0..0 |-> LeafLevel]
    <2>1. AreLevels(f, 0)
      BY DEF AreLevels
    <2>. QED
      BY <2>1
  <1>2. ASSUME NEW k \in Nat, k \in T PROVE k + 1 \in T
    <2>1. PICK f : AreLevels(f, k)
      BY <1>2
    <2>. DEFINE g == [j \in 0..(k + 1) |-> IF j <= k THEN f[j] ELSE LevelAbove(f[k], k + 1)]
    <2>2. ASSUME NEW j \in 0..(k + 1)
          PROVE g[j] = IF j = 0 THEN LeafLevel ELSE LevelAbove(g[j - 1], j)
      <3>1. CASE j <= k
        BY <2>1, <3>1 DEF AreLevels
      <3>2. CASE j = k + 1
        <4>1. g[j] = LevelAbove(f[k], j) /\ j # 0 /\ j - 1 = k
          BY <3>2
        <4>2. g[k] = f[k]
          OBVIOUS
        <4>. QED
          BY <4>1, <4>2
      <3>. QED
        BY <3>1, <3>2
    <2>3. AreLevels(g, k + 1)
      BY <2>2 DEF AreLevels
    <2>. QED
      BY <2>3
  <1>. HIDE DEF T
  <1>3. Nat \subseteq T
    BY <1>1, <1>2, Induct
  <1>. QED
    BY <1>3 DEF T

\* What Levels means.
LEMMA LevelsAre ==
    /\ Levels[0] = LeafLevel
    /\ \A h \in 0..Height : h # 0 => Levels[h] = LevelAbove(Levels[h - 1], h)
  <1>. DEFINE S(g) == g = [h \in 0..Height |->
                          IF h = 0 THEN [i \in DOMAIN Leaves |-> Poseidon(<<LeafOf(Leaves[i][1], Leaves[i][2])>>)]
                          ELSE [i \in 0..(NatPower(2, Height - h) - 1) |->
                                   Poseidon(<<g[h - 1][2 * i], g[h - 1][2 * i + 1]>>)]]
              level == CHOOSE g : S(g)
  <1>1. Levels = level
    BY DEF Levels
  <1>2. PICK f : AreLevels(f, Height)
    BY LevelsExist, HeightIs
  <1>3. S(f)
    BY <1>2 DEF AreLevels, LevelAbove, LeafLevel
  <1>4. S(level)
    <2>. HIDE DEF S
    <2>. QED
      BY <1>3
  <1>5. AreLevels(level, Height)
    <2>. HIDE DEF level
    <2>. QED
      BY <1>4 DEF AreLevels, LevelAbove, LeafLevel
  <1>. HIDE DEF S, level
  <1>. QED
    BY <1>1, <1>5, HeightIs DEF AreLevels

\* One node of the way up.
NodeAbove(x, h, idx, path) ==
    IF (idx \div NatPower(2, h - 1)) % 2 = 0 THEN Poseidon(<<x, path[h]>>)
    ELSE Poseidon(<<path[h], x>>)
IsWay(f, n, leaf, idx, path) ==
    f = [h \in 0..n |-> IF h = 0 THEN Poseidon(<<leaf>>) ELSE NodeAbove(f[h - 1], h, idx, path)]

LEMMA WayExists ==
    ASSUME NEW e \in Nat, NEW leaf, NEW idx, NEW path PROVE \E f : IsWay(f, e, leaf, idx, path)
  <1>. DEFINE T == {k \in Nat : \E f : IsWay(f, k, leaf, idx, path)}
  <1>1. 0 \in T
    <2>. DEFINE f == [k \in 0..0 |-> Poseidon(<<leaf>>)]
    <2>1. IsWay(f, 0, leaf, idx, path)
      BY DEF IsWay
    <2>. QED
      BY <2>1
  <1>2. ASSUME NEW k \in Nat, k \in T PROVE k + 1 \in T
    <2>1. PICK f : IsWay(f, k, leaf, idx, path)
      BY <1>2
    <2>. DEFINE g == [j \in 0..(k + 1) |-> IF j <= k THEN f[j] ELSE NodeAbove(f[k], k + 1, idx, path)]
    <2>2. ASSUME NEW j \in 0..(k + 1)
          PROVE g[j] = IF j = 0 THEN Poseidon(<<leaf>>) ELSE NodeAbove(g[j - 1], j, idx, path)
      <3>1. CASE j <= k
        BY <2>1, <3>1 DEF IsWay
      <3>2. CASE j = k + 1
        <4>1. g[j] = NodeAbove(f[k], j, idx, path) /\ j # 0 /\ j - 1 = k
          BY <3>2
        <4>2. g[k] = f[k]
          OBVIOUS
        <4>. QED
          BY <4>1, <4>2
      <3>. QED
        BY <3>1, <3>2
    <2>3. IsWay(g, k + 1, leaf, idx, path)
      BY <2>2 DEF IsWay
    <2>. QED
      BY <2>3
  <1>. HIDE DEF T
  <1>3. Nat \subseteq T
    BY <1>1, <1>2, Induct
  <1>. QED
    BY <1>3 DEF T

\* What RootOf means.
LEMMA RootIs ==
    ASSUME NEW leaf, NEW idx, NEW path
    PROVE  \E at : IsWay(at, Height, leaf, idx, path) /\ RootOf(leaf, idx, path) = at[Height]
  <1>. DEFINE S(g) == g = [h \in 0..Height |->
                          IF h = 0 THEN Poseidon(<<leaf>>)
                          ELSE IF (idx \div NatPower(2, h - 1)) % 2 = 0 THEN Poseidon(<<g[h - 1], path[h]>>)
                               ELSE Poseidon(<<path[h], g[h - 1]>>)]
              at == CHOOSE g : S(g)
  <1>1. RootOf(leaf, idx, path) = at[Height]
    BY DEF RootOf
  <1>2. PICK f : IsWay(f, Height, leaf, idx, path)
    BY WayExists, HeightIs
  <1>3. S(f)
    BY <1>2 DEF IsWay, NodeAbove
  <1>4. S(at)
    <2>. HIDE DEF S
    <2>. QED
      BY <1>3
  <1>5. IsWay(at, Height, leaf, idx, path)
    <2>. HIDE DEF at
    <2>. QED
      BY <1>4 DEF IsWay, NodeAbove
  <1>. QED
    BY <1>1, <1>5

\* Whatever the index and the path, what leads to the root is a leaf of the tree.
LEMMA RootFixes ==
    ASSUME NEW leaf, NEW idx, NEW path, RootOf(leaf, idx, path) = Root
    PROVE  \E i \in DOMAIN Leaves : leaf = LeafOf(Leaves[i][1], Leaves[i][2])
  <1>h. PICK n \in Nat : n = Height
    BY HeightIs
  <1>l. PICK l : l = Levels
    OBVIOUS
  <1>0. /\ l[0] = LeafLevel
        /\ \A h \in 0..n : h # 0 => l[h] = LevelAbove(l[h - 1], h)
    BY <1>h, <1>l, LevelsAre
  <1>1. PICK at : IsWay(at, n, leaf, idx, path) /\ at[n] = l[n][0]
    BY <1>h, <1>l, RootIs DEF Root
  <1>2. /\ at[0] = Poseidon(<<leaf>>)
        /\ \A h \in 0..n : h # 0 => at[h] = NodeAbove(at[h - 1], h, idx, path)
    BY <1>1 DEF IsWay
  <1>. DEFINE T == {k \in Nat : k <= n => \E i \in 0..(NatPower(2, k) - 1) : at[n - k] = l[n - k][i]}
  <1>3. 0 \in T
    BY <1>1, PowerStep
  <1>4. ASSUME NEW k \in Nat, k \in T PROVE k + 1 \in T
    <2>. SUFFICES ASSUME k + 1 <= n
                  PROVE \E i \in 0..(NatPower(2, k + 1) - 1) : at[n - (k + 1)] = l[n - (k + 1)][i]
      OBVIOUS
    <2>1. PICK i \in 0..(NatPower(2, k) - 1) : at[n - k] = l[n - k][i]
      BY <1>4
    <2>h. PICK h \in 0..n : h = n - k /\ h # 0 /\ h - 1 = n - (k + 1)
      OBVIOUS
    <2>p. PICK p \in Nat : p = NatPower(2, k) /\ NatPower(2, k + 1) = 2 * p
      BY PowerStep, PowerType
    <2>2. at[h] = NodeAbove(at[h - 1], h, idx, path)
      BY <1>2, <2>h
    <2>3. l[h][i] = Poseidon(<<l[h - 1][2 * i], l[h - 1][2 * i + 1]>>)
      <3>1. l[h] = LevelAbove(l[h - 1], h)
        BY <1>0, <2>h
      <3>2. Height - h = k
        BY <1>h, <2>h
      <3>3. i \in 0..(NatPower(2, Height - h) - 1)
        BY <3>2
      <3>. QED
        BY <3>1, <3>3 DEF LevelAbove
    <2>4. PICK x, y : x = l[h - 1][2 * i] /\ y = l[h - 1][2 * i + 1]
      OBVIOUS
    <2>5. at[h - 1] = x \/ at[h - 1] = y
      <3>1. NodeAbove(at[h - 1], h, idx, path) = Poseidon(<<x, y>>)
        BY <2>1, <2>2, <2>3, <2>4, <2>h
      <3>. QED
        BY <3>1 DEF NodeAbove, Poseidon
    <2>6. 2 * i \in 0..(2 * p - 1) /\ 2 * i + 1 \in 0..(2 * p - 1)
      BY <2>p
    <2>. QED
      BY <2>4, <2>5, <2>6, <2>h, <2>p
  <1>. HIDE DEF T
  <1>5. Nat \subseteq T
    BY <1>3, <1>4, Induct
  <1>6. PICK i \in 0..(NatPower(2, n) - 1) : at[0] = l[0][i]
    BY <1>5 DEF T
  <1>7. i \in DOMAIN Leaves
    BY <1>6, <1>h, HeightIs
  <1>8. Poseidon(<<leaf>>) = Poseidon(<<LeafOf(Leaves[i][1], Leaves[i][2])>>)
    BY <1>0, <1>2, <1>6, <1>7 DEF LeafLevel
  <1>9. leaf = LeafOf(Leaves[i][1], Leaves[i][2])
    <2>x. PICK x : x = LeafOf(Leaves[i][1], Leaves[i][2])
      OBVIOUS
    <2>. QED
      BY <1>8, <2>x DEF Poseidon
  <1>. QED
    BY <1>7, <1>9

\* A leaf that leads to the root is registered.
LEMMA LeafFixes ==
    ASSUME NEW iss, NEW key, NEW idx, NEW path, RootOf(LeafOf(iss, key), idx, path) = Root
    PROVE  \E i \in DOMAIN Leaves : Leaves[i] = <<iss, key>>
  <1>1. PICK i \in DOMAIN Leaves : LeafOf(iss, key) = LeafOf(Leaves[i][1], Leaves[i][2])
    BY RootFixes
  <1>2. PICK a, b : a = Leaves[i][1] /\ b = Leaves[i][2]
    OBVIOUS
  <1>3. Leaves[i] = <<a, b>>
    BY <1>2, LeavesAssumption
  <1>4. LeafOf(iss, key) = LeafOf(a, b)
    BY <1>1, <1>2
  <1>5. <<Packed(iss), <<"modulus", key>> >> = <<Packed(a), <<"modulus", b>> >>
    <2>x. PICK x, y : x = <<Packed(iss), <<"modulus", key>> >> /\ y = <<Packed(a), <<"modulus", b>> >>
      OBVIOUS
    <2>. QED
      BY <1>4, <2>x DEF LeafOf, Poseidon
  <1>6. Packed(iss) = Packed(a) /\ <<"modulus", key>> = <<"modulus", b>>
    <2>x. PICK x, y, u, v : x = Packed(iss) /\ y = Packed(a) /\ u = <<"modulus", key>> /\ v = <<"modulus", b>>
      OBVIOUS
    <2>. QED
      BY <1>5, <2>x
  <1>7. iss = a /\ key = b
    BY <1>6 DEF Packed
  <1>. QED
    BY <1>3, <1>7


\* The path of a leaf leads it to the root.
LEMMA PathLeads ==
    ASSUME NEW idx \in DOMAIN Leaves
    PROVE  RootOf(LeafOf(Leaves[idx][1], Leaves[idx][2]), idx, PathOf(idx)) = Root
  <1>h. PICK n \in Nat : n = Height
    BY HeightIs
  <1>l. PICK l : l = Levels
    OBVIOUS
  <1>0. /\ l[0] = LeafLevel
        /\ \A h \in 0..n : h # 0 => l[h] = LevelAbove(l[h - 1], h)
    BY <1>h, <1>l, LevelsAre
  <1>x. PICK leaf, path : leaf = LeafOf(Leaves[idx][1], Leaves[idx][2]) /\ path = PathOf(idx)
    OBVIOUS
  <1>1. PICK at : IsWay(at, n, leaf, idx, path) /\ RootOf(leaf, idx, path) = at[n]
    BY <1>h, RootIs
  <1>2. /\ at[0] = Poseidon(<<leaf>>)
        /\ \A h \in 0..n : h # 0 => at[h] = NodeAbove(at[h - 1], h, idx, path)
    BY <1>1 DEF IsWay
  <1>i. idx \in Nat /\ idx \in 0..(NatPower(2, n) - 1)
    BY <1>h, HeightIs
  <1>. DEFINE T == {k \in Nat : k <= n =>
                       /\ idx \div NatPower(2, k) \in 0..(NatPower(2, n - k) - 1)
                       /\ at[k] = l[k][idx \div NatPower(2, k)]}
  <1>3. 0 \in T
    <2>1. NatPower(2, 0) = 1 /\ idx \div 1 = idx /\ n - 0 = n
      BY <1>i, PowerStep
    <2>2. PICK q : q = idx \div NatPower(2, 0) /\ q = idx
      BY <2>1
    <2>3. at[0] = l[0][idx]
      BY <1>0, <1>2, <1>x DEF LeafLevel
    <2>4. q \in 0..(NatPower(2, n - 0) - 1) /\ at[0] = l[0][q]
      BY <1>i, <2>1, <2>2, <2>3
    <2>. QED
      BY <2>2, <2>4
  <1>4. ASSUME NEW k \in Nat, k \in T PROVE k + 1 \in T
    <2>. SUFFICES ASSUME k + 1 <= n
                  PROVE  /\ idx \div NatPower(2, k + 1) \in 0..(NatPower(2, n - (k + 1)) - 1)
                         /\ at[k + 1] = l[k + 1][idx \div NatPower(2, k + 1)]
      OBVIOUS
    <2>a. PICK a \in Nat \ {0} : a = NatPower(2, k) /\ NatPower(2, k + 1) = a * 2
      <3>1. NatPower(2, k) \in Nat \ {0}
        BY PowerType
      <3>2. NatPower(2, k + 1) = NatPower(2, k) * 2
        BY PowerStep
      <3>. QED
        BY <3>1, <3>2
    <2>m. PICK m \in Nat : m = n - (k + 1) /\ n - k = m + 1
      OBVIOUS
    <2>p. PICK p \in Nat : p = NatPower(2, m) /\ NatPower(2, m + 1) = p * 2
      <3>1. NatPower(2, m) \in Nat
        BY PowerType
      <3>2. NatPower(2, m + 1) = NatPower(2, m) * 2
        BY PowerStep
      <3>. QED
        BY <3>1, <3>2
    <2>q. PICK q \in Nat : q = idx \div a
      BY <1>i, DivMod
    <2>u. PICK u \in Nat, b \in 0..1 : u = q \div 2 /\ q = 2 * u + b /\ b = q % 2
      <3>1. q \div 2 \in Nat /\ q % 2 \in 0..1 /\ q = 2 * (q \div 2) + (q % 2)
        OBVIOUS
      <3>. QED
        BY <3>1
    <2>1. idx \div NatPower(2, k + 1) = u
      BY <1>i, <2>a, <2>q, <2>u, HalveAgain
    <2>2. q \in 0..(p * 2 - 1) /\ at[k] = l[k][q]
      BY <1>4, <2>a, <2>m, <2>p, <2>q
    <2>3. u \in 0..(p - 1)
      BY <2>2, <2>u
    <2>k. PICK h \in 0..n : h = k + 1 /\ h # 0 /\ h - 1 = k /\ h \in 1..n
      OBVIOUS
    <2>4. path[h] = l[k][SiblingOf(q)]
      <3>1. path[h] = Levels[h - 1][SiblingOf(idx \div NatPower(2, h - 1))]
        BY <1>x, <1>h, <2>k DEF PathOf
      <3>. QED
        BY <3>1, <1>l, <2>k, <2>a, <2>q
    <2>5. l[h][u] = Poseidon(<<l[k][2 * u], l[k][2 * u + 1]>>)
      <3>1. l[h] = LevelAbove(l[k], h)
        BY <1>0, <2>k
      <3>2. Height - h = m
        BY <1>h, <2>k, <2>m
      <3>3. u \in 0..(NatPower(2, Height - h) - 1)
        BY <2>3, <2>p, <3>2
      <3>. QED
        BY <3>1, <3>3 DEF LevelAbove
    <2>6. at[h] = IF b = 0 THEN Poseidon(<<at[k], path[h]>>) ELSE Poseidon(<<path[h], at[k]>>)
      <3>1. at[h] = NodeAbove(at[k], h, idx, path)
        BY <1>2, <2>k
      <3>2. (idx \div NatPower(2, h - 1)) % 2 = b
        BY <2>k, <2>a, <2>q, <2>u
      <3>. QED
        BY <3>1, <3>2 DEF NodeAbove
    <2>7. CASE b = 0
      <3>1. q = 2 * u /\ SiblingOf(q) = 2 * u + 1
        BY <2>7, <2>u DEF SiblingOf
      <3>2. at[h] = l[h][u]
        BY <2>7, <2>2, <2>4, <2>5, <2>6, <3>1
      <3>. QED
        BY <2>1, <2>3, <2>k, <2>m, <2>p, <3>2
    <2>8. CASE b = 1
      <3>1. q = 2 * u + 1 /\ SiblingOf(q) = 2 * u
        BY <2>8, <2>u DEF SiblingOf
      <3>2. at[h] = l[h][u]
        BY <2>8, <2>2, <2>4, <2>5, <2>6, <3>1
      <3>. QED
        BY <2>1, <2>3, <2>k, <2>m, <2>p, <3>2
    <2>. QED
      BY <2>7, <2>8
  <1>. HIDE DEF T
  <1>5. Nat \subseteq T
    BY <1>3, <1>4, Induct
  <1>6. at[n] = l[n][0]
    <2>1. n - n = 0 /\ NatPower(2, 0) = 1
      BY PowerStep
    <2>2. idx \div NatPower(2, n) \in 0..(NatPower(2, n - n) - 1) /\ at[n] = l[n][idx \div NatPower(2, n)]
      BY <1>5 DEF T
    <2>. QED
      BY <2>1, <2>2
  <1>. QED
    BY <1>1, <1>6, <1>h, <1>l, <1>x DEF Root

\* An index of the tree has sixteen bits at most, so u16 holds it.
LEMMA IndexFits == ASSUME NEW idx \in DOMAIN Leaves PROVE idx % 65536 = idx
  <1>1. \A e \in Nat : NatPower(2, e + 1) = NatPower(2, e) * 2
    BY PowerStep
  <1>2. NatPower(2, 0) = 1
    BY PowerStep
  <1>3. /\ NatPower(2, 1) = 2 /\ NatPower(2, 2) = 4
        /\ NatPower(2, 3) = 8 /\ NatPower(2, 4) = 16
    <2>1. NatPower(2, 1) = 2
      <3>1. NatPower(2, 0 + 1) = NatPower(2, 0) * 2
        BY <1>1
      <3>. QED
        BY <1>2, <3>1, SMT
    <2>2. NatPower(2, 2) = 4
      <3>1. NatPower(2, 1 + 1) = NatPower(2, 1) * 2
        BY <1>1
      <3>. QED
        BY <2>1, <3>1, SMT
    <2>3. NatPower(2, 3) = 8
      <3>1. NatPower(2, 2 + 1) = NatPower(2, 2) * 2
        BY <1>1
      <3>. QED
        BY <2>2, <3>1, SMT
    <2>4. NatPower(2, 4) = 16
      <3>1. NatPower(2, 3 + 1) = NatPower(2, 3) * 2
        BY <1>1
      <3>. QED
        BY <2>3, <3>1, SMT
    <2>. QED
      BY <2>1, <2>2, <2>3, <2>4, SMT
  <1>4. /\ NatPower(2, 5) = 32 /\ NatPower(2, 6) = 64
        /\ NatPower(2, 7) = 128 /\ NatPower(2, 8) = 256
    <2>1. NatPower(2, 5) = 32
      <3>1. NatPower(2, 4 + 1) = NatPower(2, 4) * 2
        BY <1>1
      <3>. QED
        BY <1>3, <3>1, SMT
    <2>2. NatPower(2, 6) = 64
      <3>1. NatPower(2, 5 + 1) = NatPower(2, 5) * 2
        BY <1>1
      <3>. QED
        BY <2>1, <3>1, SMT
    <2>3. NatPower(2, 7) = 128
      <3>1. NatPower(2, 6 + 1) = NatPower(2, 6) * 2
        BY <1>1
      <3>. QED
        BY <2>2, <3>1, SMT
    <2>4. NatPower(2, 8) = 256
      <3>1. NatPower(2, 7 + 1) = NatPower(2, 7) * 2
        BY <1>1
      <3>. QED
        BY <2>3, <3>1, SMT
    <2>. QED
      BY <2>1, <2>2, <2>3, <2>4, SMT
  <1>5. /\ NatPower(2, 9) = 512 /\ NatPower(2, 10) = 1024
        /\ NatPower(2, 11) = 2048 /\ NatPower(2, 12) = 4096
    <2>1. NatPower(2, 9) = 512
      <3>1. NatPower(2, 8 + 1) = NatPower(2, 8) * 2
        BY <1>1
      <3>. QED
        BY <1>4, <3>1, SMT
    <2>2. NatPower(2, 10) = 1024
      <3>1. NatPower(2, 9 + 1) = NatPower(2, 9) * 2
        BY <1>1
      <3>. QED
        BY <2>1, <3>1, SMT
    <2>3. NatPower(2, 11) = 2048
      <3>1. NatPower(2, 10 + 1) = NatPower(2, 10) * 2
        BY <1>1
      <3>. QED
        BY <2>2, <3>1, SMT
    <2>4. NatPower(2, 12) = 4096
      <3>1. NatPower(2, 11 + 1) = NatPower(2, 11) * 2
        BY <1>1
      <3>. QED
        BY <2>3, <3>1, SMT
    <2>. QED
      BY <2>1, <2>2, <2>3, <2>4, SMT
  <1>6. /\ NatPower(2, 13) = 8192 /\ NatPower(2, 14) = 16384
        /\ NatPower(2, 15) = 32768 /\ NatPower(2, 16) = 65536
    <2>1. NatPower(2, 13) = 8192
      <3>1. NatPower(2, 12 + 1) = NatPower(2, 12) * 2
        BY <1>1
      <3>. QED
        BY <1>5, <3>1, SMT
    <2>2. NatPower(2, 14) = 16384
      <3>1. NatPower(2, 13 + 1) = NatPower(2, 13) * 2
        BY <1>1
      <3>. QED
        BY <2>1, <3>1, SMT
    <2>3. NatPower(2, 15) = 32768
      <3>1. NatPower(2, 14 + 1) = NatPower(2, 14) * 2
        BY <1>1
      <3>. QED
        BY <2>2, <3>1, SMT
    <2>4. NatPower(2, 16) = 65536
      <3>1. NatPower(2, 15 + 1) = NatPower(2, 15) * 2
        BY <1>1
      <3>. QED
        BY <2>3, <3>1, SMT
    <2>. QED
      BY <2>1, <2>2, <2>3, <2>4, SMT
  <1>h. PICK h \in 0..16 : DOMAIN Leaves = 0..(NatPower(2, h) - 1)
    BY LeavesAssumption
  <1>7. NatPower(2, h) <= 65536
    BY <1>2, <1>3, <1>4, <1>5, <1>6, SMT
  <1>8. NatPower(2, h) \in Nat
    BY PowerType
  <1>. QED
    BY <1>h, <1>7, <1>8, SMT

-----------------------------------------------------------------------------
(* What each phase lets through.                                           *)

LEMMA NamesAre ==
    /\ \A j \in 1..5 : IdOf(ClaimNames[j]) = j
    /\ IdOf("aud") = 1 /\ IdOf("exp") = 2 /\ IdOf("iss") = 3 /\ IdOf("nonce") = 4 /\ IdOf("sub") = 5
  <1>1. ASSUME NEW j \in 1..5 PROVE IdOf(ClaimNames[j]) = j
    <2>1. \A i \in 1..5 : ClaimNames[i] = ClaimNames[j] <=> i = j
      BY DEF ClaimNames
    <2>. QED
      BY <2>1 DEF IdOf
  <1>2. /\ ClaimNames[1] = "aud" /\ ClaimNames[2] = "exp" /\ ClaimNames[3] = "iss"
        /\ ClaimNames[4] = "nonce" /\ ClaimNames[5] = "sub"
    BY DEF ClaimNames
  <1>3. 1 \in 1..5 /\ 2 \in 1..5 /\ 3 \in 1..5 /\ 4 \in 1..5 /\ 5 \in 1..5
    OBVIOUS
  <1>. QED
    BY <1>1, <1>2, <1>3

LEMMA NonceIs ==
    ASSUME NEW t, IsClaims(t)
    PROVE  NonceField(ValueIn(t, 4)) = Poseidon(<<Number(t.run), Number(t.random)>>)
  <1>1. PICK run \in 0..15, random \in 0..15 : run = t.run /\ random = t.random
    BY DEF IsClaims
  <1>2. ValueIn(t, 4) = 16 * run + random
    BY <1>1 DEF ValueIn, NonceValue
  <1>3. (16 * run + random) \div 16 = run /\ (16 * run + random) % 16 = random
    OBVIOUS
  <1>. QED
    BY <1>1, <1>2, <1>3 DEF NonceField

\* Digest: the whole message, and its own padding.
LEMMA DigestReads ==
    ASSUME NEW t, GoodToken(t), NEW w, w.data = SigningInput(Message(t), BufferLen).data,
           w.total = w.pad, w.pad \in Nat, PadVerifierFullOk(w.data, w.last, w.total, w.pad)
    PROVE  /\ w.pad = Len(Message(t)) /\ Len(Message(t)) < BufferLen
           /\ Sha256BlockLen(Len(Message(t))) <= BufferLen \div 64
           /\ DigestWithPad(H, w.data, w.last) = Digest(Message(t))
  <1>x. PICK m, data, n, l : m = Message(t) /\ data = w.data /\ n = w.pad /\ l = w.last
    OBVIOUS
  <1>1. m \in Bytes
    BY <1>x, MessageIs
  <1>2. \A k \in 1..Len(m) : m[k] # Marker
    BY <1>x, MessageBytes
  <1>3. n \in Nat /\ PadVerifierFullOk(data, l, n, n) /\ data = SigningInput(m, BufferLen).data
    BY <1>x
  <1>4. /\ n = Len(m) /\ n < BufferLen /\ Sha256BlockLen(n) <= BufferLen \div 64
        /\ DigestWithPad(H, data, l) = Digest(m)
    BY <1>1, <1>2, <1>3, PaddingCuts
  <1>. QED
    BY <1>x, <1>4

\* Signature: whoever brings it, its key has signed this very message.
LEMMA SignatureReads ==
    ASSUME NEW t \in Tokens, NEW u \in Tokens, NEW sig, NEW pk,
           sig = SignatureOf(u) \/ sig = Unreduced(SignatureOf(u)),
           VerifyOk(Digest(Message(t)), sig, pk)
    PROVE  u.signed /\ Message(u) = Message(t) /\ pk.key = u.key
  <1>t. GoodToken(t) /\ GoodToken(u)
    BY TokensAreGood
  <1>m. PICK m, n : m = Message(t) /\ n = IF u.signed THEN Message(u) ELSE <<>>
    OBVIOUS
  <1>d. PICK d, x : d = Digest(m) /\ x = Digest(n)
    OBVIOUS
  <1>s. PICK s : s = Sign(u.key, x)
    OBVIOUS
  <1>1. SignatureOf(u) = s
    BY <1>m, <1>d, <1>s DEF SignatureOf
  <1>2. sig = s
    <2>1. Unreduced(s).reduced = FALSE
      BY <1>s DEF Unreduced, Sign
    <2>2. sig.reduced
      BY DEF VerifyOk
    <2>. QED
      BY <1>1, <2>1, <2>2
  <1>3. OpenedBytes(s, pk) = OutputWithPrefix(Reverse256(DigestBytes(d)))
    BY <1>2, <1>m, <1>d DEF VerifyOk
  <1>4. u.key = pk.key /\ x = d
    BY <1>3, <1>s, Opens
  <1>5. m \in Bytes /\ Len(m) # 0 /\ 8 * Len(m) < 256 * 256 * 256
    <2>1. m \in Bytes /\ Len(m) = t.header + 1 + PayloadLen(t) /\ t.header \in Nat /\ PayloadLen(t) \in Nat
      BY <1>t, <1>m, MessageIs, PayloadSize DEF GoodToken
    <2>2. 8 * Len(m) < 256 * 256 * 256
      BY <1>t, <1>m DEF GoodToken
    <2>. QED
      BY <2>1, <2>2
  <1>6. n \in Bytes /\ 8 * Len(n) < 256 * 256 * 256
    <2>1. CASE u.signed
      BY <1>t, <1>m, <2>1, MessageIs DEF GoodToken
    <2>2. CASE ~u.signed
      <3>1. n = <<>> /\ <<>> \in Bytes /\ Len(<<>>) = 0
        BY <1>m, <2>2 DEF Bytes
      <3>. QED
        BY <3>1
    <2>. QED
      BY <2>1, <2>2
  <1>7. n = m
    BY <1>4, <1>5, <1>6, <1>d, DigestFixes
  <1>8. u.signed
    <2>. SUFFICES ASSUME ~u.signed PROVE FALSE
      OBVIOUS
    <2>1. Len(m) = 0
      BY <1>7, <1>m
    <2>. QED
      BY <1>5, <2>1
  <1>. QED
    BY <1>4, <1>7, <1>8, <1>m

\* The signature the host has from the issuer is accepted.
LEMMA SignatureServes ==
    ASSUME NEW t, t.signed
    PROVE  VerifyOk(Digest(Message(t)), SignatureOf(t), [key |-> t.key, e |-> DefaultExponent])
  <1>d. PICK d, s, k : d = Digest(Message(t)) /\ s = SignatureOf(t) /\ k = t.key
    OBVIOUS
  <1>1. s = Sign(k, d)
    <2>1. (IF t.signed THEN Message(t) ELSE <<>>) = Message(t)
      OBVIOUS
    <2>. QED
      BY <1>d, <2>1 DEF SignatureOf
  <1>2. s.reduced /\ s.opens = EncodedMessage(d) /\ s.key = k
    BY <1>1 DEF Sign
  <1>p. PICK pk : pk = [key |-> k, e |-> DefaultExponent]
    OBVIOUS
  <1>k. pk.key = k
    BY <1>p
  <1>3. OpenedBytes(s, pk) = Reverse256(EncodedMessage(d))
    BY <1>2, <1>k DEF OpenedBytes
  <1>4. VerifyOk(d, s, pk)
    BY <1>2, <1>3, SignedFor DEF VerifyOk
  <1>. QED
    BY <1>d, <1>p, <1>4

\* Every character of a payload has an index.
LEMMA PayloadDecodes ==
    ASSUME NEW t, GoodToken(t)
    PROVE  /\ Len(Payload(t)) = PayloadLen(t)
           /\ \A c \in DOMAIN Payload(t) : DecodeCharOk(Payload(t)[c])
  <1>y. PICK y : y = Payload(t)
    OBVIOUS
  <1>1. /\ y \in Bytes /\ Len(y) = PayloadLen(t)
        /\ \A c \in 1..PayloadLen(t) : y[c] = Base64Table[PayloadIndex(t, c)]
    BY <1>y, PayloadIs
  <1>2. DOMAIN y = 1..PayloadLen(t)
    BY <1>1 DEF Bytes
  <1>3. ASSUME NEW c \in 1..PayloadLen(t) PROVE DecodeCharOk(y[c])
    <2>1. PayloadIndex(t, c) \in 0..63
      <3>1. c \in Nat /\ c # 0
        OBVIOUS
      <3>. QED
        BY <3>1, PayloadIndexIs
    <2>2. y[c] = Base64Table[PayloadIndex(t, c)]
      BY <1>1
    <2>. QED
      BY <2>1, <2>2, TableIs
  <1>. QED
    BY <1>y, <1>1, <1>2, <1>3

\* Claims and public inputs.
LEMMA ClaimIs ==
    /\ Claim("aud") = tokSeen.claim[1] /\ Claim("exp") = tokSeen.claim[2]
    /\ Claim("iss") = tokSeen.claim[3] /\ Claim("nonce") = tokSeen.claim[4]
    /\ Claim("sub") = tokSeen.claim[5]
  BY NamesAre DEF Claim

LEMMA BindingReads ==
    ASSUME NEW read, read = tokSeen.claim, NEW run, NEW w, BindingOk(run, w)
    PROVE  /\ CircuitPublic(run, w).jwt_exp = Number(read[2][1])
           /\ CircuitPublic(run, w).h_sign_user_op = Number(read[4][1] \div 16)
           /\ CircuitPublic(run, w).partial_rhs =
                  Poseidon(<<Number(w.current_idx), Number(read[4][1] % 16),
                             Identity(read[1], read[3], read[5])>>)
           /\ \E j \in DOMAIN w.audList : w.audList[j] = Poseidon(<<Packed(read[1])>>)
  <1>1. /\ Claim("aud") = read[1] /\ Claim("exp") = read[2] /\ Claim("iss") = read[3]
        /\ Claim("nonce") = read[4] /\ Claim("sub") = read[5]
    BY ClaimIs
  <1>2. Poseidon(<<run, w.random>>) = NonceField(read[4][1])
    BY <1>1 DEF BindingOk
  <1>3. run = Number(read[4][1] \div 16) /\ w.random = Number(read[4][1] % 16)
    <2>x. PICK x, y, r, z : /\ x = Number(read[4][1] \div 16) /\ y = Number(read[4][1] % 16)
                            /\ r = run /\ z = w.random
      OBVIOUS
    <2>1. <<"poseidon", <<r, z>> >> = <<"poseidon", <<x, y>> >>
      BY <1>2, <2>x DEF Poseidon, NonceField
    <2>. QED
      BY <2>1, <2>x
  <1>4. \E j \in DOMAIN w.audList : w.audList[j] = Poseidon(<<Packed(read[1])>>)
    BY <1>1 DEF BindingOk
  <1>. QED
    BY <1>1, <1>3, <1>4 DEF CircuitPublic

-----------------------------------------------------------------------------
(* The invariants.                                                         *)

PastDigest == {"rsa", "boundaries", "claims", "issuer", "binding", "accepted"}
PastSignature == PastDigest \ {"rsa"}
PastPayload == PastSignature \ {"boundaries"}
PastClaims == PastPayload \ {"claims"}
PastIssuer == PastClaims \ {"issuer"}

\* What each reader was given stands in t's text.
ReadFrom(t, claim) ==
    \A j \in 1..5 : /\ ReadIn(TextOf(t), j, claim[j])
                    /\ OnlyClaim(t, j) => claim[j][1] = ValueIn(t, j)
OwnValues(t) == [j \in 1..5 |-> OwnValue(t, j)]

\* What the circuit has read at a stage is read from token t.
Reads(t) ==
    /\ tokStage \in PastDigest => /\ "digest" \in DOMAIN tokWit /\ TokenHeld(t)
                                  /\ Sha256BlockLen(Len(Message(t))) <= BufferLen \div 64
    /\ tokStage \in PastPayload => tokSeen.payload = PayloadOf(t)
    /\ tokStage \in PastClaims => ReadFrom(t, tokSeen.claim)

\* Its key has signed it, and is registered for the issuer read.
Signs(t) ==
    /\ tokStage \in PastSignature =>
           "rsa" \in DOMAIN tokWit /\ t.signed /\ tokWit.rsa.pk.key = t.key
    /\ tokStage \in PastIssuer => \E i \in DOMAIN Leaves : Leaves[i] = <<tokSeen.claim[3], t.key>>

\* What the circuit reads, it reads from one token.
OneToken == tokStage \in PastDigest => \E t \in Tokens : Reads(t) /\ Signs(t)

\* The host's witness stays as it was made, and the circuit reads it.
HostsWitness ==
    tokBy = "host" =>
        /\ tokReq \in TokenRequests
        /\ tokStage \notin {"build", "error"} => tokWit = HostWitness(tokReq) /\ tokPub = HostPublic(tokReq)
        /\ Reads(tokReq.token)
        /\ Meant(tokReq) => tokStage \notin {"refused", "error"}

\* And reads the issuer's claims of a token that may be proved.
OwnClaims ==
    tokBy = "host" /\ Meant(tokReq) /\ tokStage \in PastClaims =>
        tokSeen.claim = OwnValues(tokReq.token)

TokInv ==
    /\ tokBy \in {"host", "anybody"}
    /\ HostsWitness /\ OwnClaims /\ OneToken /\ AcceptedMeansSigned

\* A piece is taken up.
LEMMA KeepsPieces ==
    ASSUME NEW wit, NEW piece, NEW w, NEW out,
           out = [p \in DOMAIN wit \cup {piece} |-> IF p = piece THEN w ELSE wit[p]]
    PROVE  /\ piece \in DOMAIN out /\ out[piece] = w
           /\ \A p \in DOMAIN wit : p \in DOMAIN out /\ (p # piece => out[p] = wit[p])
  OBVIOUS

LEMMA HostKeeps ==
    ASSUME NEW r, NEW wit, wit = HostWitness(r), NEW piece, piece \in DOMAIN wit, NEW w, w = wit[piece],
           NEW out, out = [p \in DOMAIN wit \cup {piece} |-> IF p = piece THEN w ELSE wit[p]]
    PROVE  out = wit
  <1>1. wit = [p \in DOMAIN wit |-> wit[p]]
    BY DEF HostWitness
  <1>2. DOMAIN wit \cup {piece} = DOMAIN wit
    OBVIOUS
  <1>3. \A p \in DOMAIN wit : (IF p = piece THEN w ELSE wit[p]) = wit[p]
    OBVIOUS
  <1>. QED
    BY <1>1, <1>2, <1>3

LEMMA HostPieces ==
    ASSUME NEW r
    PROVE  DOMAIN HostWitness(r) = {"digest", "rsa", "boundaries", "claims", "issuer", "binding"}
  BY SMT DEF HostWitness

LEMMA HostDigest ==
    ASSUME NEW r
    PROVE  HostWitness(r)["digest"] = SigningInput(Message(r.token), BufferLen)
  BY SMT DEF HostWitness

LEMMA HostRsa ==
    ASSUME NEW r
    PROVE  /\ HostWitness(r)["rsa"].sig = SignatureOf(r.token)
           /\ HostWitness(r)["rsa"].pk = [key |-> r.key, e |-> DefaultExponent]
  BY SMT DEF HostWitness

LEMMA HostBoundaries ==
    ASSUME NEW r
    PROVE  HostWitness(r)["boundaries"] = [offset |-> r.token.header + 1, len |-> Len(Payload(r.token))]
  BY SMT DEF HostWitness

LEMMA HostClaims ==
    ASSUME NEW r
    PROVE  \A j \in 1..5 : HostWitness(r)["claims"][j] = PlaceOf(IdOf(r.order[j]))
  BY SMT DEF HostWitness

LEMMA HostIssuer ==
    ASSUME NEW r
    PROVE  HostWitness(r)["issuer"].leaf_idx = r.leafIdx % 65536 /\ HostWitness(r)["issuer"].path = r.path
  BY SMT DEF HostWitness

LEMMA HostBound ==
    ASSUME NEW r
    PROVE  /\ HostWitness(r)["binding"].random = Number(r.random)
           /\ HostWitness(r)["binding"].audList = r.audList
           /\ HostWitness(r)["binding"].current_idx = r.slot
  BY SMT DEF HostWitness

\* A refusal is of a request that nobody meant.
LEMMA Refuses ==
    ASSUME TokInv, tokBy = "host", tokStage \notin {"build", "error"}, ~Meant(tokReq),
           tokStage' = "refused", UNCHANGED <<tokBy, tokReq, tokWit, tokSeen, tokPub>>
    PROVE  TokInv'
  <1>1. tokStage' \notin PastDigest
    BY DEF PastDigest
  <1>2. HostsWitness'
    BY <1>1 DEF TokInv, HostsWitness, Reads, PastPayload, PastClaims, PastSignature, PastDigest
  <1>3. OneToken'
    BY <1>1 DEF OneToken
  <1>4. AcceptedMeansSigned'
    BY DEF AcceptedMeansSigned
  <1>5. OwnClaims'
    BY <1>1 DEF OwnClaims, PastClaims, PastPayload, PastSignature, PastDigest
  <1>. QED
    BY <1>2, <1>3, <1>4, <1>5 DEF TokInv

\* A phase is passed.
LEMMA Advances ==
    ASSUME TokInv, tokStage \notin {"build", "error"}, NEW t \in Tokens,
           tokBy = "host" => tokWit' = tokWit /\ Reads(tokReq.token)',
           Reads(t)', Signs(t)', OwnClaims', tokStage' \in PastDigest \ {"accepted"},
           UNCHANGED <<tokBy, tokReq, tokPub>>
    PROVE  TokInv'
  <1>1. tokStage' \notin {"build", "error", "refused", "accepted"}
    BY DEF PastDigest
  <1>2. HostsWitness'
    BY <1>1 DEF TokInv, HostsWitness
  <1>3. OneToken'
    BY DEF OneToken
  <1>4. AcceptedMeansSigned'
    BY <1>1 DEF AcceptedMeansSigned
  <1>. QED
    BY <1>2, <1>3, <1>4 DEF TokInv

\* A token of a request, or of the invariant, is one of Tokens.
LEMMA HostToken ==
    ASSUME TokInv, tokBy = "host"
    PROVE  tokReq \in TokenRequests /\ tokReq.token \in Tokens
  BY RequestsAssumption DEF TokInv, HostsWitness

LEMMA HostMakes ==
    ASSUME TokInv, tokBy = "host", tokStage \notin {"build", "error"}
    PROVE  tokWit = HostWitness(tokReq) /\ tokPub = HostPublic(tokReq) /\ Reads(tokReq.token)
  BY DEF TokInv, HostsWitness

LEMMA DigestPreserves == ASSUME TokInv, DigestPhase PROVE TokInv'
  <1>s. tokStage = "digest" /\ UNCHANGED <<tokBy, tokReq, tokPub>>
    BY DEF DigestPhase, Phase
  <1>1. PICK w \in IF tokBy = "host" THEN {tokWit["digest"]} ELSE AnyPadding :
          IF PadVerifierFullOk(w.data, w.last, w.total, w.pad) /\ DigestWithPadOk(w.data, w.last)
          THEN /\ tokStage' = "rsa"
               /\ tokWit' = [p \in DOMAIN tokWit \cup {"digest"} |-> IF p = "digest" THEN w ELSE tokWit[p]]
               /\ tokSeen' = [digest |-> DigestWithPad(H, w.data, w.last)]
          ELSE tokBy = "host" /\ tokStage' = "refused" /\ UNCHANGED <<tokWit, tokSeen>>
    BY DEF DigestPhase, Phase
  <1>h. ASSUME tokBy = "host"
        PROVE  /\ w = tokWit["digest"] /\ tokWit = HostWitness(tokReq)
               /\ w = SigningInput(Message(tokReq.token), BufferLen) /\ "digest" \in DOMAIN tokWit
    <2>1. w = tokWit["digest"]
      BY <1>h, <1>1
    <2>2. tokWit = HostWitness(tokReq)
      BY <1>h, <1>s, HostMakes
    <2>3. HostWitness(tokReq)["digest"] = SigningInput(Message(tokReq.token), BufferLen)
      BY HostDigest
    <2>4. "digest" \in DOMAIN HostWitness(tokReq)
      BY HostPieces
    <2>. QED
      BY <2>1, <2>2, <2>3, <2>4
  <1>2. PICK t \in Tokens : /\ tokBy = "host" => t = tokReq.token
                            /\ w.data = SigningInput(Message(t), BufferLen).data
                            /\ w.total = w.pad /\ w.pad \in Nat
    <2>1. CASE tokBy = "host"
      <3>t. PICK t \in Tokens : t = tokReq.token
        BY <2>1, HostToken
      <3>m. PICK m \in Bytes : m = Message(t)
        BY MessageIs, TokensAreGood
      <3>1. w.total = Len(m) /\ w.pad = Len(m)
        BY <1>h, <2>1, <3>t, <3>m DEF SigningInput
      <3>2. Len(m) \in Nat
        BY ByteSeq
      <3>. QED
        BY <1>h, <2>1, <3>t, <3>1, <3>2
    <2>2. CASE tokBy # "host"
      <3>1. w \in AnyPadding
        BY <1>1, <2>2
      <3>2. PICK t \in Tokens, l \in 0..(BufferLen \div 64 - 1), n \in 0..(BufferLen - 1) :
               w = [data |-> SigningInput(Message(t), BufferLen).data, last |-> l, total |-> n, pad |-> n]
        BY <3>1 DEF AnyPadding
      <3>3. n \in Nat
        BY BufferSize
      <3>. QED
        BY <2>2, <3>2, <3>3
    <2>. QED
      BY <2>1, <2>2
  <1>g. GoodToken(t)
    BY TokensAreGood
  <1>3. CASE PadVerifierFullOk(w.data, w.last, w.total, w.pad) /\ DigestWithPadOk(w.data, w.last)
    <2>1. /\ tokStage' = "rsa"
          /\ tokWit' = [p \in DOMAIN tokWit \cup {"digest"} |-> IF p = "digest" THEN w ELSE tokWit[p]]
          /\ tokSeen' = [digest |-> DigestWithPad(H, w.data, w.last)]
      BY <1>1, <1>3
    <2>2. tokWit'["digest"] = w /\ "digest" \in DOMAIN tokWit'
      BY <2>1, KeepsPieces
    <2>3. /\ w.pad = Len(Message(t)) /\ Len(Message(t)) < BufferLen
          /\ Sha256BlockLen(Len(Message(t))) <= BufferLen \div 64
          /\ DigestWithPad(H, w.data, w.last) = Digest(Message(t))
      BY <1>2, <1>3, <1>g, DigestReads
    <2>4. Reads(t)'
      <3>1. TokenHeld(t)'
        <4>1. tokSeen'.digest = Digest(Message(t))
          BY <2>1, <2>3
        <4>. QED
          BY <1>2, <2>2, <2>3, <4>1 DEF TokenHeld
      <3>2. tokStage' \notin PastPayload /\ tokStage' \notin PastClaims
        BY <2>1 DEF PastDigest, PastSignature, PastPayload, PastClaims
      <3>. QED
        BY <2>2, <2>3, <3>1, <3>2 DEF Reads
    <2>5. Signs(t)' /\ OwnClaims'
      BY <2>1 DEF Signs, OwnClaims, PastDigest, PastSignature, PastPayload, PastClaims, PastIssuer
    <2>6. tokBy = "host" => tokWit' = tokWit
      <3>. SUFFICES ASSUME tokBy = "host" PROVE tokWit' = tokWit
        OBVIOUS
      <3>1. tokWit = HostWitness(tokReq) /\ "digest" \in DOMAIN tokWit /\ w = tokWit["digest"]
        BY <1>h
      <3>. QED
        BY <2>1, <3>1, HostKeeps
    <2>7. tokStage' \in PastDigest \ {"accepted"}
      BY <2>1 DEF PastDigest
    <2>8. tokBy = "host" => Reads(tokReq.token)'
      <3>1. tokBy = "host" => tokReq'.token = t
        BY <1>2, <1>s
      <3>. QED
        BY <2>4, <3>1
    <2>. QED
      BY <1>s, <2>4, <2>5, <2>6, <2>7, <2>8, Advances
  <1>4. CASE ~(PadVerifierFullOk(w.data, w.last, w.total, w.pad) /\ DigestWithPadOk(w.data, w.last))
    <2>1. tokBy = "host" /\ tokStage' = "refused" /\ UNCHANGED <<tokWit, tokSeen>>
      BY <1>1, <1>4
    <2>2. ~Meant(tokReq)
      <3>. SUFFICES ASSUME Meant(tokReq) PROVE FALSE
        OBVIOUS
      <3>m. PICK m : m = Message(t)
        OBVIOUS
      <3>1. m \in Bytes
        BY <3>m, <1>g, MessageIs
      <3>2. 64 * Sha256BlockLen(Len(m)) <= BufferLen
        BY <3>m, <1>2, <2>1 DEF Meant
      <3>3. w = SigningInput(m, BufferLen)
        BY <1>h, <1>2, <2>1, <3>m
      <3>. QED
        BY <3>1, <3>2, <3>3, <1>4, HostPads
    <2>. QED
      BY <1>s, <2>1, <2>2, Refuses
  <1>. QED
    BY <1>3, <1>4

\* What is held of a token is held of any other with its message.
LEMMA StillHeld ==
    ASSUME NEW t, NEW u, Reads(t), tokStage \in PastDigest, Message(u) = Message(t),
           "digest" \in DOMAIN tokWit', tokWit'["digest"] = tokWit["digest"],
           tokSeen'.digest = tokSeen.digest
    PROVE  TokenHeld(u)' /\ Sha256BlockLen(Len(Message(u))) <= BufferLen \div 64
  BY DEF Reads, TokenHeld

\* The host's piece, whose phase has come.
LEMMA HostHands ==
    ASSUME TokInv, tokBy = "host", tokStage \notin {"build", "error"}
    PROVE  /\ tokWit = HostWitness(tokReq) /\ tokReq.token \in Tokens /\ Reads(tokReq.token)
           /\ DOMAIN tokWit = {"digest", "rsa", "boundaries", "claims", "issuer", "binding"}
  BY HostToken, HostMakes, HostPieces

LEMMA RsaPreserves == ASSUME TokInv, RsaPhase PROVE TokInv'
  <1>s. tokStage = "rsa" /\ UNCHANGED <<tokBy, tokReq, tokPub>> /\ tokStage \in PastDigest
    BY DEF RsaPhase, Phase, PastDigest
  <1>1. PICK w \in IF tokBy = "host" THEN {tokWit["rsa"]} ELSE AnySignature :
          IF ExponentOk(w.pk) /\ VerifyOk(tokSeen.digest, w.sig, w.pk)
          THEN /\ tokStage' = "boundaries"
               /\ tokWit' = [p \in DOMAIN tokWit \cup {"rsa"} |-> IF p = "rsa" THEN w ELSE tokWit[p]]
               /\ tokSeen' = tokSeen
          ELSE tokBy = "host" /\ tokStage' = "refused" /\ UNCHANGED <<tokWit, tokSeen>>
    BY DEF RsaPhase, Phase
  <1>h. ASSUME tokBy = "host"
        PROVE  /\ w = tokWit["rsa"] /\ tokWit = HostWitness(tokReq) /\ "rsa" \in DOMAIN tokWit
               /\ w.sig = SignatureOf(tokReq.token)
               /\ w.pk = [key |-> tokReq.key, e |-> DefaultExponent]
    <2>1. w = tokWit["rsa"]
      BY <1>h, <1>1
    <2>2. tokWit = HostWitness(tokReq) /\ "rsa" \in DOMAIN tokWit
      BY <1>h, <1>s, HostHands
    <2>3. /\ HostWitness(tokReq)["rsa"].sig = SignatureOf(tokReq.token)
          /\ HostWitness(tokReq)["rsa"].pk = [key |-> tokReq.key, e |-> DefaultExponent]
      BY HostRsa
    <2>. QED
      BY <2>1, <2>2, <2>3
  <1>2. CASE ExponentOk(w.pk) /\ VerifyOk(tokSeen.digest, w.sig, w.pk)
    <2>1. /\ tokStage' = "boundaries" /\ tokSeen' = tokSeen
          /\ tokWit' = [p \in DOMAIN tokWit \cup {"rsa"} |-> IF p = "rsa" THEN w ELSE tokWit[p]]
      BY <1>1, <1>2
    <2>2. PICK t \in Tokens : Reads(t) /\ (tokBy = "host" => t = tokReq.token)
      BY <1>s, HostHands DEF TokInv, OneToken
    <2>3. "digest" \in DOMAIN tokWit /\ tokSeen.digest = Digest(Message(t))
      BY <1>s, <2>2 DEF Reads, TokenHeld
    <2>4. /\ "rsa" \in DOMAIN tokWit' /\ tokWit'["rsa"] = w
          /\ "digest" \in DOMAIN tokWit' /\ tokWit'["digest"] = tokWit["digest"]
      BY <2>1, <2>3, KeepsPieces
    <2>5. PICK u \in Tokens : /\ tokBy = "host" => u = tokReq.token
                              /\ w.sig = SignatureOf(u) \/ w.sig = Unreduced(SignatureOf(u))
      <3>1. CASE tokBy = "host"
        BY <1>h, <1>s, <3>1, HostHands
      <3>2. CASE tokBy # "host"
        <4>1. w \in AnySignature
          BY <1>1, <3>2
        <4>2. w.sig \in Signatures \cup {Unreduced(s) : s \in Signatures}
          BY <4>1 DEF AnySignature
        <4>. QED
          BY <3>2, <4>2 DEF Signatures
      <3>. QED
        BY <3>1, <3>2
    <2>6. u.signed /\ Message(u) = Message(t) /\ w.pk.key = u.key
      <3>1. VerifyOk(Digest(Message(t)), w.sig, w.pk)
        BY <1>2, <2>3
      <3>2. w.sig = SignatureOf(u) \/ w.sig = Unreduced(SignatureOf(u))
        BY <2>5
      <3>. QED
        BY <3>1, <3>2, SignatureReads
    <2>7. Reads(u)'
      <3>1. TokenHeld(u)' /\ Sha256BlockLen(Len(Message(u))) <= BufferLen \div 64
        BY <1>s, <2>1, <2>2, <2>4, <2>6, StillHeld
      <3>2. tokStage' \notin PastPayload /\ tokStage' \notin PastClaims
        BY <2>1 DEF PastDigest, PastSignature, PastPayload, PastClaims
      <3>. QED
        BY <2>4, <3>1, <3>2 DEF Reads
    <2>8. Signs(u)'
      <3>1. tokStage' \notin PastIssuer
        BY <2>1 DEF PastDigest, PastSignature, PastPayload, PastClaims, PastIssuer
      <3>. QED
        BY <2>4, <2>6, <3>1 DEF Signs
    <2>9. tokBy = "host" => tokWit' = tokWit
      <3>. SUFFICES ASSUME tokBy = "host" PROVE tokWit' = tokWit
        OBVIOUS
      <3>1. tokWit = HostWitness(tokReq) /\ "rsa" \in DOMAIN tokWit /\ w = tokWit["rsa"]
        BY <1>h
      <3>. QED
        BY <2>1, <3>1, HostKeeps
    <2>10. tokStage' \in PastDigest \ {"accepted"} /\ OwnClaims'
      BY <2>1 DEF OwnClaims, PastDigest, PastSignature, PastPayload, PastClaims
    <2>11. tokBy = "host" => Reads(tokReq.token)'
      <3>1. tokBy = "host" => tokReq'.token = u
        BY <1>s, <2>5
      <3>. QED
        BY <2>7, <3>1
    <2>. QED
      BY <1>s, <2>7, <2>8, <2>9, <2>10, <2>11, Advances
  <1>3. CASE ~(ExponentOk(w.pk) /\ VerifyOk(tokSeen.digest, w.sig, w.pk))
    <2>1. tokBy = "host" /\ tokStage' = "refused" /\ UNCHANGED <<tokWit, tokSeen>>
      BY <1>1, <1>3
    <2>2. ~Meant(tokReq)
      <3>. SUFFICES ASSUME Meant(tokReq) PROVE FALSE
        OBVIOUS
      <3>t. PICK t : t = tokReq.token
        OBVIOUS
      <3>1. tokSeen.digest = Digest(Message(t))
        BY <1>s, <2>1, <3>t, HostHands DEF Reads, TokenHeld
      <3>2. t.signed /\ tokReq.key = t.key
        BY <3>t DEF Meant
      <3>3. w.sig = SignatureOf(t) /\ w.pk = [key |-> t.key, e |-> DefaultExponent]
        BY <1>h, <2>1, <3>2, <3>t
      <3>4. VerifyOk(tokSeen.digest, w.sig, w.pk)
        <4>p. PICK pk : pk = [key |-> t.key, e |-> DefaultExponent]
          OBVIOUS
        <4>1. VerifyOk(Digest(Message(t)), SignatureOf(t), [key |-> t.key, e |-> DefaultExponent])
          BY <3>2, SignatureServes
        <4>2. VerifyOk(Digest(Message(t)), SignatureOf(t), pk)
          BY <4>1, <4>p
        <4>. QED
          BY <3>1, <3>3, <4>2, <4>p
      <3>5. ExponentOk(w.pk)
        <4>1. w.pk.e = DefaultExponent
          BY <3>3
        <4>. QED
          BY <4>1 DEF ExponentOk
      <3>. QED
        BY <1>3, <3>4, <3>5
    <2>. QED
      BY <1>s, <2>1, <2>2, Refuses
  <1>. QED
    BY <1>2, <1>3

LEMMA StillSigned ==
    ASSUME NEW t, Signs(t), tokStage \in PastSignature,
           "rsa" \in DOMAIN tokWit', tokWit'["rsa"] = tokWit["rsa"],
           tokStage' \in PastIssuer => tokStage \in PastIssuer /\ tokSeen' = tokSeen
    PROVE  Signs(t)'
  BY DEF Signs

LEMMA BoundariesPreserve == ASSUME TokInv, BoundariesPhase PROVE TokInv'
  <1>s. /\ tokStage = "boundaries" /\ UNCHANGED <<tokBy, tokReq, tokPub>>
        /\ tokStage \in PastDigest /\ tokStage \in PastSignature /\ tokStage \notin {"build", "error"}
    BY DEF BoundariesPhase, Phase, PastDigest, PastSignature
  <1>1. PICK w \in IF tokBy = "host" THEN {tokWit["boundaries"]} ELSE AnyBoundaries :
          IF BoundariesOk(w) /\ SlicePayloadOk(w) /\ DecodesOk(w)
          THEN /\ tokStage' = "claims"
               /\ tokWit' = [p \in DOMAIN tokWit \cup {"boundaries"} |-> IF p = "boundaries" THEN w ELSE tokWit[p]]
               /\ tokSeen' = [digest |-> tokSeen.digest, payload |-> JoinBits(IndicesFor(SlicePayload(w)))]
          ELSE tokBy = "host" /\ tokStage' = "refused" /\ UNCHANGED <<tokWit, tokSeen>>
    BY DEF BoundariesPhase, Phase
  <1>h. ASSUME tokBy = "host"
        PROVE  /\ w = tokWit["boundaries"] /\ tokWit = HostWitness(tokReq) /\ "boundaries" \in DOMAIN tokWit
               /\ w = [offset |-> tokReq.token.header + 1, len |-> Len(Payload(tokReq.token))]
    <2>1. w = tokWit["boundaries"]
      BY <1>h, <1>1
    <2>2. tokWit = HostWitness(tokReq) /\ "boundaries" \in DOMAIN tokWit
      BY <1>h, <1>s, HostHands
    <2>3. HostWitness(tokReq)["boundaries"] =
              [offset |-> tokReq.token.header + 1, len |-> Len(Payload(tokReq.token))]
      BY HostBoundaries
    <2>. QED
      BY <2>1, <2>2, <2>3
  <1>n. w.offset \in Nat
    <2>1. CASE tokBy = "host"
      <3>t. PICK t : t = tokReq.token
        OBVIOUS
      <3>1. t \in Tokens
        BY <2>1, <3>t, HostToken
      <3>2. t.header \in Nat
        BY <3>1, TokensAreGood DEF GoodToken
      <3>3. w.offset = t.header + 1
        BY <1>h, <2>1, <3>t
      <3>. QED
        BY <3>2, <3>3
    <2>2. CASE tokBy # "host"
      <3>1. w \in AnyBoundaries
        BY <1>1, <2>2
      <3>2. w.offset \in 0..BufferLen
        BY <3>1 DEF AnyBoundaries
      <3>. QED
        BY <3>2
    <2>. QED
      BY <2>1, <2>2
  <1>2. CASE BoundariesOk(w) /\ SlicePayloadOk(w) /\ DecodesOk(w)
    <2>1. /\ tokStage' = "claims"
          /\ tokWit' = [p \in DOMAIN tokWit \cup {"boundaries"} |-> IF p = "boundaries" THEN w ELSE tokWit[p]]
          /\ tokSeen' = [digest |-> tokSeen.digest, payload |-> JoinBits(IndicesFor(SlicePayload(w)))]
      BY <1>1, <1>2
    <2>2. \A p \in DOMAIN tokWit : p \in DOMAIN tokWit' /\ (p # "boundaries" => tokWit'[p] = tokWit[p])
      BY <2>1, KeepsPieces
    <2>3. tokSeen'.digest = tokSeen.digest /\ tokSeen'.payload = JoinBits(IndicesFor(SlicePayload(w)))
      BY <2>1
    <2>4. /\ tokStage' \in PastDigest \ {"accepted"} /\ OwnClaims'
          /\ tokStage' \notin PastClaims /\ tokStage' \notin PastIssuer
      BY <2>1 DEF OwnClaims, PastDigest, PastSignature, PastPayload, PastClaims, PastIssuer
    <2>5. ASSUME NEW t \in Tokens, Reads(t) PROVE Reads(t)'
      <3>1. "digest" \in DOMAIN tokWit /\ TokenHeld(t)
        BY <1>s, <2>5 DEF Reads
      <3>2. "digest" \in DOMAIN tokWit' /\ tokWit'["digest"] = tokWit["digest"]
        BY <2>2, <3>1
      <3>3. TokenHeld(t)' /\ Sha256BlockLen(Len(Message(t))) <= BufferLen \div 64
        BY <1>s, <2>3, <2>5, <3>2, StillHeld
      <3>4. IndicesFor(SlicePayload(w)) = IndicesOf(t)
        BY <1>2, <1>n, <3>1, BoundariesFix, TokensAreGood
      <3>5. tokSeen'.payload = PayloadOf(t)
        BY <2>3, <3>4 DEF PayloadOf
      <3>. QED
        BY <2>4, <3>2, <3>3, <3>5 DEF Reads
    <2>6. PICK t \in Tokens : Reads(t) /\ Signs(t)
      BY <1>s DEF TokInv, OneToken
    <2>7. Signs(t)'
      <3>1. "rsa" \in DOMAIN tokWit
        BY <1>s, <2>6 DEF Signs
      <3>2. "rsa" \in DOMAIN tokWit' /\ tokWit'["rsa"] = tokWit["rsa"]
        BY <2>2, <3>1
      <3>. QED
        BY <1>s, <2>4, <2>6, <3>2, StillSigned
    <2>8. tokBy = "host" => tokWit' = tokWit
      <3>. SUFFICES ASSUME tokBy = "host" PROVE tokWit' = tokWit
        OBVIOUS
      <3>1. tokWit = HostWitness(tokReq) /\ "boundaries" \in DOMAIN tokWit /\ w = tokWit["boundaries"]
        BY <1>h
      <3>. QED
        BY <2>1, <3>1, HostKeeps
    <2>9. tokBy = "host" => Reads(tokReq.token)'
      <3>. SUFFICES ASSUME tokBy = "host" PROVE Reads(tokReq.token)'
        OBVIOUS
      <3>t. PICK t0 \in Tokens : t0 = tokReq.token /\ Reads(t0)
        BY <1>s, HostHands
      <3>1. Reads(t0)' /\ tokReq'.token = t0
        BY <1>s, <2>5, <3>t
      <3>. QED
        BY <3>1
    <2>10. Reads(t)'
      BY <2>5, <2>6
    <2>. QED
      BY <1>s, <2>4, <2>7, <2>8, <2>9, <2>10, Advances
  <1>3. CASE ~(BoundariesOk(w) /\ SlicePayloadOk(w) /\ DecodesOk(w))
    <2>1. tokBy = "host" /\ tokStage' = "refused" /\ UNCHANGED <<tokWit, tokSeen>>
      BY <1>1, <1>3
    <2>2. ~Meant(tokReq)
      <3>. SUFFICES ASSUME Meant(tokReq) PROVE FALSE
        OBVIOUS
      <3>t. PICK t \in Tokens : t = tokReq.token /\ Reads(t)
        BY <1>s, <2>1, HostHands
      <3>1. TokenHeld(t) /\ GoodToken(t)
        BY <1>s, <3>t, TokensAreGood DEF Reads
      <3>2. Len(Payload(t)) <= MaxPayload
        BY <3>t DEF Meant
      <3>3. w = [offset |-> t.header + 1, len |-> Len(Payload(t))]
        BY <1>h, <2>1, <3>t
      <3>. QED
        BY <1>3, <3>1, <3>2, <3>3, HostBounds
    <2>. QED
      BY <1>s, <2>1, <2>2, Refuses
  <1>. QED
    BY <1>2, <1>3

\* A claim's place in the host's list.
LEMMA PlacesMeant ==
    ASSUME NEW r, r.order = ClaimNames, NEW j \in 1..5
    PROVE  PlaceOf(IdOf(r.order[j])) = PlaceOf(j)
  BY NamesAre

LEMMA PlacesAre ==
    ASSUME NEW r \in TokenRequests, NEW j \in 1..5, NEW w, w = PlaceOf(IdOf(r.order[j]))
    PROVE  w.offset \in Nat
  <1>1. PICK k \in 1..5 : r.order[j] = ClaimNames[k]
    BY RequestsAssumption
  <1>2. IdOf(r.order[j]) = k
    BY <1>1, NamesAre
  <1>3. w.offset = 4 * (k - 1)
    BY <1>2 DEF PlaceOf
  <1>. QED
    BY <1>3

LEMMA HostReads ==
    ASSUME Meant(tokReq), NEW t \in Tokens, t = tokReq.token, Reads(t), tokStage = "claims",
           NEW w, \A i \in 1..5 : w[i] = PlaceOf(IdOf(tokReq.order[i])), NEW j \in 1..5
    PROVE  /\ ExtractOk(ClaimNames[j], w[j]) /\ ReaderOk(j, w[j])
           /\ Extracted(w[j]) = OwnValue(t, j)
  <1>g. PICK g : g = w[j] /\ g = PlaceOf(j)
    BY PlacesMeant DEF Meant
  <1>1. tokSeen.payload = PayloadOf(t) /\ GoodToken(t)
    BY TokensAreGood DEF Reads, PastPayload, PastSignature, PastDigest
  <1>2. Len(Payload(t)) <= MaxPayload /\ IdOf(ClaimNames[j]) = j
    BY NamesAre DEF Meant
  <1>3. ExtractOk(ClaimNames[j], g) /\ ReaderOk(j, g) /\ Extracted(g) = OwnValue(t, j)
    BY <1>g, <1>1, <1>2, HostPlace
  <1>. QED
    BY <1>g, <1>3

LEMMA ClaimsPreserve == ASSUME TokInv, ClaimsPhase PROVE TokInv'
  <1>s. /\ tokStage = "claims" /\ UNCHANGED <<tokBy, tokReq, tokPub>>
        /\ tokStage \in PastDigest /\ tokStage \in PastSignature /\ tokStage \in PastPayload
        /\ tokStage \notin {"build", "error"}
    BY DEF ClaimsPhase, Phase, PastDigest, PastSignature, PastPayload
  <1>1. PICK w \in IF tokBy = "host" THEN {tokWit["claims"]} ELSE AnyPlaces :
          IF ClaimsOk(w)
          THEN /\ tokStage' = "issuer"
               /\ tokWit' = [p \in DOMAIN tokWit \cup {"claims"} |-> IF p = "claims" THEN w ELSE tokWit[p]]
               /\ tokSeen' = [digest |-> tokSeen.digest, payload |-> tokSeen.payload,
                              claim |-> [j \in 1..5 |-> Extracted(w[j])]]
          ELSE tokBy = "host" /\ tokStage' = "refused" /\ UNCHANGED <<tokWit, tokSeen>>
    BY DEF ClaimsPhase, Phase
  <1>h. ASSUME tokBy = "host"
        PROVE  /\ w = tokWit["claims"] /\ tokWit = HostWitness(tokReq) /\ "claims" \in DOMAIN tokWit
               /\ \A j \in 1..5 : w[j] = PlaceOf(IdOf(tokReq.order[j]))
    <2>1. w = tokWit["claims"]
      BY <1>h, <1>1
    <2>2. tokWit = HostWitness(tokReq) /\ "claims" \in DOMAIN tokWit
      BY <1>h, <1>s, HostHands
    <2>3. \A j \in 1..5 : HostWitness(tokReq)["claims"][j] = PlaceOf(IdOf(tokReq.order[j]))
      BY HostClaims
    <2>. QED
      BY <2>1, <2>2, <2>3
  <1>n. \A j \in 1..5 : w[j].offset \in Nat
    <2>1. CASE tokBy = "host"
      <3>1. tokReq \in TokenRequests
        BY <2>1, HostToken
      <3>. QED
        BY <1>h, <2>1, <3>1, PlacesAre
    <2>2. CASE tokBy # "host"
      <3>1. w \in AnyPlaces
        BY <1>1, <2>2
      <3>2. PICK a \in Places(1), e \in Places(2), i \in Places(3), n \in Places(4), s \in Places(5) :
               w = <<a, e, i, n, s>>
        BY <3>1 DEF AnyPlaces
      <3>3. ASSUME NEW j, NEW x \in Places(j) PROVE x.offset \in Nat
        <4>1. x.offset \in 0..(Len(tokSeen.payload) - 1)
          BY DEF Places
        <4>. QED
          BY <4>1
      <3>4. a.offset \in Nat /\ e.offset \in Nat /\ i.offset \in Nat /\ n.offset \in Nat /\ s.offset \in Nat
        BY <3>3
      <3>5. w[1] = a /\ w[2] = e /\ w[3] = i /\ w[4] = n /\ w[5] = s
        BY <3>2
      <3>. QED
        BY <3>4, <3>5
    <2>. QED
      BY <2>1, <2>2
  <1>2. CASE ClaimsOk(w)
    <2>1. /\ tokStage' = "issuer"
          /\ tokWit' = [p \in DOMAIN tokWit \cup {"claims"} |-> IF p = "claims" THEN w ELSE tokWit[p]]
          /\ tokSeen' = [digest |-> tokSeen.digest, payload |-> tokSeen.payload,
                         claim |-> [j \in 1..5 |-> Extracted(w[j])]]
      BY <1>1, <1>2
    <2>2. \A p \in DOMAIN tokWit : p \in DOMAIN tokWit' /\ (p # "claims" => tokWit'[p] = tokWit[p])
      BY <2>1, KeepsPieces
    <2>3. /\ tokSeen'.digest = tokSeen.digest /\ tokSeen'.payload = tokSeen.payload
          /\ tokSeen'.claim = [j \in 1..5 |-> Extracted(w[j])]
      BY <2>1
    <2>4. tokStage' \in PastDigest \ {"accepted"} /\ tokStage' \notin PastIssuer
      BY <2>1 DEF PastDigest, PastSignature, PastPayload, PastClaims, PastIssuer
    <2>5. ASSUME NEW t \in Tokens, Reads(t) PROVE Reads(t)'
      <3>1. "digest" \in DOMAIN tokWit /\ tokSeen.payload = PayloadOf(t)
        BY <1>s, <2>5 DEF Reads
      <3>2. "digest" \in DOMAIN tokWit' /\ tokWit'["digest"] = tokWit["digest"]
        BY <2>2, <3>1
      <3>3. TokenHeld(t)' /\ Sha256BlockLen(Len(Message(t))) <= BufferLen \div 64
        BY <1>s, <2>3, <2>5, <3>2, StillHeld
      <3>4. ASSUME NEW j \in 1..5
            PROVE  /\ ReadIn(TextOf(t), j, Extracted(w[j]))
                   /\ OnlyClaim(t, j) => Extracted(w[j])[1] = ValueIn(t, j)
        <4>g. PICK g : g = w[j] /\ g.offset \in Nat
          BY <1>n
        <4>1. GoodToken(t) /\ IdOf(ClaimNames[j]) = j /\ ExtractOk(ClaimNames[j], g)
          BY <1>2, <4>g, TokensAreGood, NamesAre DEF ClaimsOk
        <4>2. /\ ReadIn(TextOf(t), j, Extracted(g))
              /\ OnlyClaim(t, j) => Extracted(g)[1] = ValueIn(t, j)
          BY <3>1, <4>1, <4>g, PlaceRead
        <4>. QED
          BY <4>2, <4>g
      <3>c. PICK claim : claim = [j \in 1..5 |-> Extracted(w[j])]
        OBVIOUS
      <3>5. ReadFrom(t, claim) /\ tokSeen'.claim = claim
        BY <2>3, <3>4, <3>c DEF ReadFrom
      <3>6. tokSeen'.payload = PayloadOf(t)
        BY <2>3, <3>1
      <3>. QED
        BY <3>2, <3>3, <3>5, <3>6 DEF Reads
    <2>6. PICK t \in Tokens : Reads(t) /\ Signs(t)
      BY <1>s DEF TokInv, OneToken
    <2>7. Signs(t)'
      <3>1. "rsa" \in DOMAIN tokWit
        BY <1>s, <2>6 DEF Signs
      <3>2. "rsa" \in DOMAIN tokWit' /\ tokWit'["rsa"] = tokWit["rsa"]
        BY <2>2, <3>1
      <3>. QED
        BY <1>s, <2>4, <2>6, <3>2, StillSigned
    <2>8. tokBy = "host" => tokWit' = tokWit
      <3>. SUFFICES ASSUME tokBy = "host" PROVE tokWit' = tokWit
        OBVIOUS
      <3>1. tokWit = HostWitness(tokReq) /\ "claims" \in DOMAIN tokWit /\ w = tokWit["claims"]
        BY <1>h
      <3>. QED
        BY <2>1, <3>1, HostKeeps
    <2>9. tokBy = "host" => Reads(tokReq.token)'
      <3>. SUFFICES ASSUME tokBy = "host" PROVE Reads(tokReq.token)'
        OBVIOUS
      <3>t. PICK t0 \in Tokens : t0 = tokReq.token /\ Reads(t0)
        BY <1>s, HostHands
      <3>1. Reads(t0)' /\ tokReq'.token = t0
        BY <1>s, <2>5, <3>t
      <3>. QED
        BY <3>1
    <2>10. Reads(t)'
      BY <2>5, <2>6
    <2>11. OwnClaims'
      <3>. SUFFICES ASSUME tokBy = "host", Meant(tokReq) PROVE tokSeen'.claim = OwnValues(tokReq.token)
        BY <1>s DEF OwnClaims
      <3>t. PICK u \in Tokens : u = tokReq.token /\ Reads(u)
        BY <1>s, HostHands
      <3>1. ASSUME NEW j \in 1..5 PROVE Extracted(w[j]) = OwnValue(u, j)
        BY <1>s, <1>h, <3>t, HostReads
      <3>. QED
        BY <2>3, <3>1, <3>t DEF OwnValues
    <2>. QED
      BY <1>s, <2>4, <2>7, <2>8, <2>9, <2>10, <2>11, Advances
  <1>3. CASE ~ClaimsOk(w)
    <2>1. tokBy = "host" /\ tokStage' = "refused" /\ UNCHANGED <<tokWit, tokSeen>>
      BY <1>1, <1>3
    <2>2. ~Meant(tokReq)
      <3>. SUFFICES ASSUME Meant(tokReq) PROVE FALSE
        OBVIOUS
      <3>t. PICK t \in Tokens : t = tokReq.token /\ Reads(t)
        BY <1>s, <2>1, HostHands
      <3>1. PICK j \in 1..5 : ~(ExtractOk(ClaimNames[j], w[j]) /\ ReaderOk(j, w[j]))
        BY <1>3 DEF ClaimsOk
      <3>2. ExtractOk(ClaimNames[j], w[j]) /\ ReaderOk(j, w[j])
        BY <1>s, <1>h, <2>1, <3>t, HostReads
      <3>. QED
        BY <3>1, <3>2
    <2>. QED
      BY <1>s, <2>1, <2>2, Refuses
  <1>. QED
    BY <1>2, <1>3

LEMMA IssuerPreserves == ASSUME TokInv, IssuerPhase PROVE TokInv'
  <1>s. /\ tokStage = "issuer" /\ UNCHANGED <<tokBy, tokReq, tokPub>>
        /\ tokStage \in PastDigest /\ tokStage \in PastSignature /\ tokStage \in PastPayload
        /\ tokStage \in PastClaims /\ tokStage \notin {"build", "error"}
    BY DEF IssuerPhase, Phase, PastDigest, PastSignature, PastPayload, PastClaims
  <1>1. PICK w \in IF tokBy = "host" THEN {tokWit["issuer"]} ELSE AnyPath :
          IF RootOf(LeafOf(tokSeen.claim[3], tokWit.rsa.pk.key), w.leaf_idx, w.path) = Root
          THEN /\ tokStage' = "binding"
               /\ tokWit' = [p \in DOMAIN tokWit \cup {"issuer"} |-> IF p = "issuer" THEN w ELSE tokWit[p]]
               /\ tokSeen' = tokSeen
          ELSE tokBy = "host" /\ tokStage' = "refused" /\ UNCHANGED <<tokWit, tokSeen>>
    <2>1. Claim("iss") = tokSeen.claim[3]
      BY ClaimIs
    <2>. QED
      BY <2>1 DEF IssuerPhase, Phase
  <1>h. ASSUME tokBy = "host"
        PROVE  /\ w = tokWit["issuer"] /\ tokWit = HostWitness(tokReq) /\ "issuer" \in DOMAIN tokWit
               /\ w.leaf_idx = tokReq.leafIdx % 65536 /\ w.path = tokReq.path
    <2>1. w = tokWit["issuer"]
      BY <1>h, <1>1
    <2>2. tokWit = HostWitness(tokReq) /\ "issuer" \in DOMAIN tokWit
      BY <1>h, <1>s, HostHands
    <2>3. /\ HostWitness(tokReq)["issuer"].leaf_idx = tokReq.leafIdx % 65536
          /\ HostWitness(tokReq)["issuer"].path = tokReq.path
      BY HostIssuer, SMT
    <2>. QED
      BY <2>1, <2>2, <2>3, SMT
  <1>2. CASE RootOf(LeafOf(tokSeen.claim[3], tokWit.rsa.pk.key), w.leaf_idx, w.path) = Root
    <2>1. /\ tokStage' = "binding" /\ tokSeen' = tokSeen
          /\ tokWit' = [p \in DOMAIN tokWit \cup {"issuer"} |-> IF p = "issuer" THEN w ELSE tokWit[p]]
      BY <1>1, <1>2
    <2>2. \A p \in DOMAIN tokWit : p \in DOMAIN tokWit' /\ (p # "issuer" => tokWit'[p] = tokWit[p])
      BY <2>1, KeepsPieces
    <2>4. tokStage' \in PastDigest \ {"accepted"}
      BY <2>1 DEF PastDigest
    <2>5. ASSUME NEW t \in Tokens, Reads(t) PROVE Reads(t)'
      <3>1. /\ "digest" \in DOMAIN tokWit /\ tokSeen.payload = PayloadOf(t)
            /\ ReadFrom(t, tokSeen.claim)
        BY <1>s, <2>5 DEF Reads
      <3>2. "digest" \in DOMAIN tokWit' /\ tokWit'["digest"] = tokWit["digest"]
        BY <2>2, <3>1
      <3>3. TokenHeld(t)' /\ Sha256BlockLen(Len(Message(t))) <= BufferLen \div 64
        BY <1>s, <2>1, <2>5, <3>2, StillHeld
      <3>. QED
        BY <2>1, <3>1, <3>2, <3>3 DEF Reads
    <2>6. PICK t \in Tokens : Reads(t) /\ Signs(t)
      BY <1>s DEF TokInv, OneToken
    <2>7. Signs(t)'
      <3>1. "rsa" \in DOMAIN tokWit /\ t.signed /\ tokWit.rsa.pk.key = t.key
        BY <1>s, <2>6 DEF Signs
      <3>2. "rsa" \in DOMAIN tokWit' /\ tokWit'["rsa"] = tokWit["rsa"]
        BY <2>2, <3>1
      <3>3. \E i \in DOMAIN Leaves : Leaves[i] = <<tokSeen.claim[3], t.key>>
        <4>1. RootOf(LeafOf(tokSeen.claim[3], t.key), w.leaf_idx, w.path) = Root
          BY <1>2, <3>1
        <4>. QED
          BY <4>1, LeafFixes
      <3>. QED
        BY <2>1, <3>1, <3>2, <3>3 DEF Signs
    <2>8. tokBy = "host" => tokWit' = tokWit
      <3>. SUFFICES ASSUME tokBy = "host" PROVE tokWit' = tokWit
        OBVIOUS
      <3>1. tokWit = HostWitness(tokReq) /\ "issuer" \in DOMAIN tokWit /\ w = tokWit["issuer"]
        BY <1>h
      <3>. QED
        BY <2>1, <3>1, HostKeeps
    <2>9. tokBy = "host" => Reads(tokReq.token)'
      <3>. SUFFICES ASSUME tokBy = "host" PROVE Reads(tokReq.token)'
        OBVIOUS
      <3>t. PICK t0 \in Tokens : t0 = tokReq.token /\ Reads(t0)
        BY <1>s, HostHands
      <3>1. Reads(t0)' /\ tokReq'.token = t0
        BY <1>s, <2>5, <3>t
      <3>. QED
        BY <3>1
    <2>10. Reads(t)'
      BY <2>5, <2>6
    <2>11. OwnClaims'
      BY <1>s, <2>1 DEF TokInv, OwnClaims
    <2>. QED
      BY <1>s, <2>4, <2>7, <2>8, <2>9, <2>10, <2>11, Advances
  <1>3. CASE RootOf(LeafOf(tokSeen.claim[3], tokWit.rsa.pk.key), w.leaf_idx, w.path) # Root
    <2>1. tokBy = "host" /\ tokStage' = "refused" /\ UNCHANGED <<tokWit, tokSeen>>
      BY <1>1, <1>3
    <2>2. ~Meant(tokReq)
      <3>. SUFFICES ASSUME Meant(tokReq) PROVE FALSE
        OBVIOUS
      <3>t. PICK t \in Tokens : t = tokReq.token /\ Reads(t)
        BY <1>s, <2>1, HostHands
      <3>i. PICK idx \in DOMAIN Leaves : /\ idx = tokReq.leafIdx /\ Leaves[idx] = <<OwnValue(t, 3), t.key>>
                                         /\ tokReq.path = PathOf(idx) /\ tokReq.key = t.key
        BY <3>t DEF Meant
      <3>1. tokSeen.claim[3] = OwnValue(t, 3)
        <4>1. tokSeen.claim = OwnValues(t)
          BY <1>s, <2>1, <3>t DEF TokInv, OwnClaims
        <4>. QED
          BY <4>1 DEF OwnValues
      <3>2. tokWit.rsa.pk.key = t.key
        <4>1. HostWitness(tokReq)["rsa"].pk = [key |-> tokReq.key, e |-> DefaultExponent]
          BY HostRsa
        <4>. QED
          BY <1>h, <2>1, <3>i, <4>1
      <3>3. w.leaf_idx = idx /\ w.path = PathOf(idx)
        <4>1. w.leaf_idx = idx % 65536 /\ w.path = PathOf(idx)
          BY <1>h, <2>1, <3>i, SMT
        <4>. QED
          BY <4>1, IndexFits, SMT
      <3>4. RootOf(LeafOf(OwnValue(t, 3), t.key), idx, PathOf(idx)) = Root
        <4>1. RootOf(LeafOf(Leaves[idx][1], Leaves[idx][2]), idx, PathOf(idx)) = Root
          BY PathLeads
        <4>2. Leaves[idx][1] = OwnValue(t, 3) /\ Leaves[idx][2] = t.key
          BY <3>i
        <4>. QED
          BY <4>1, <4>2
      <3>. QED
        BY <1>3, <3>1, <3>2, <3>3, <3>4
    <2>. QED
      BY <1>s, <2>1, <2>2, Refuses
  <1>. QED
    BY <1>2, <1>3

\* One conjunct for each thing an accepted witness shows of a token.
Vouches(t, read, w, pub) ==
    /\ t.signed /\ \E i \in DOMAIN Leaves : Leaves[i] = <<read[3], t.key>>
    /\ ReadFrom(t, read)
    /\ pub.jwt_exp = Number(read[2][1])
    /\ pub.h_sign_user_op = Number(read[4][1] \div 16)
    /\ pub.partial_rhs =
           Poseidon(<<Number(w.current_idx), Number(read[4][1] % 16),
                      Identity(read[1], read[3], read[5])>>)
    /\ \E aud \in DOMAIN w.audList : w.audList[aud] = Poseidon(<<Packed(read[1])>>)

\* The invariant after the last phase, with the public inputs it accepts.
LEMMA Accepts ==
    ASSUME NEW t \in Tokens, Reads(t)', Signs(t)', tokStage' = "accepted",
           NEW run, NEW w, NEW pub, tokSeen' = tokSeen, BindingOk(run, w),
           pub = CircuitPublic(run, w), tokPub' = pub, tokWit'["binding"] = w
    PROVE  OneToken' /\ AcceptedMeansSigned'
  <1>r. PICK read : read = tokSeen.claim /\ read = tokSeen'.claim
    OBVIOUS
  <1>1. /\ pub.jwt_exp = Number(read[2][1]) /\ pub.h_sign_user_op = Number(read[4][1] \div 16)
        /\ pub.partial_rhs = Poseidon(<<Number(w.current_idx), Number(read[4][1] % 16),
                                        Identity(read[1], read[3], read[5])>>)
        /\ \E j \in DOMAIN w.audList : w.audList[j] = Poseidon(<<Packed(read[1])>>)
    BY <1>r, BindingReads
  <1>2. t.signed /\ \E i \in DOMAIN Leaves : Leaves[i] = <<read[3], t.key>>
    BY <1>r DEF Signs, PastIssuer, PastClaims, PastPayload, PastSignature, PastDigest
  <1>3. ReadFrom(t, read)
    BY <1>r DEF Reads, ReadFrom, PastClaims, PastPayload, PastSignature, PastDigest
  <1>4. AcceptedMeansSigned'
    <2>1. Vouches(t, read, w, pub)
      BY <1>1, <1>2, <1>3 DEF Vouches
    <2>2. tokSeen'.claim = read /\ tokWit'.binding = w /\ tokPub' = pub
      BY <1>r
    <2>. QED
      BY <2>1, <2>2, Zenon DEF AcceptedMeansSigned, Vouches, ReadFrom
  <1>. QED
    BY <1>4 DEF OneToken

LEMMA HostBindingPreserves == ASSUME TokInv, HostBinding PROVE TokInv'
  <1>s. /\ tokStage = "binding" /\ tokBy = "host" /\ UNCHANGED <<tokBy, tokReq, tokWit, tokSeen, tokPub>>
        /\ tokStage \in PastDigest /\ tokStage \in PastSignature /\ tokStage \in PastPayload
        /\ tokStage \in PastClaims /\ tokStage \in PastIssuer /\ tokStage \notin {"build", "error"}
    BY DEF HostBinding, PastDigest, PastSignature, PastPayload, PastClaims, PastIssuer
  <1>w. PICK w, run : w = tokWit["binding"] /\ run = tokPub.h_sign_user_op
    OBVIOUS
  <1>1. tokStage' = IF BindingOk(run, w) /\ tokPub = CircuitPublic(run, w) THEN "accepted" ELSE "refused"
    BY <1>w DEF HostBinding
  <1>r. PICK r : r = tokReq /\ tokReq' = r
    BY <1>s
  <1>h. tokWit = HostWitness(r) /\ tokPub = HostPublic(r) /\ r \in TokenRequests /\ r.token \in Tokens /\ Reads(r.token)
    BY <1>s, <1>r, HostToken, HostMakes
  <1>2. CASE BindingOk(run, w) /\ tokPub = CircuitPublic(run, w)
    <2>1. tokStage' = "accepted"
      BY <1>1, <1>2
    <2>2. ASSUME NEW t \in Tokens, Reads(t) PROVE Reads(t)'
      <3>1. /\ "digest" \in DOMAIN tokWit /\ tokSeen.payload = PayloadOf(t)
            /\ ReadFrom(t, tokSeen.claim)
        BY <1>s, <2>2 DEF Reads
      <3>2. TokenHeld(t)' /\ Sha256BlockLen(Len(Message(t))) <= BufferLen \div 64
        BY <1>s, <2>2, <3>1, StillHeld
      <3>. QED
        BY <1>s, <3>1, <3>2 DEF Reads
    <2>3. PICK t \in Tokens : Reads(t) /\ Signs(t)
      BY <1>s DEF TokInv, OneToken
    <2>4. Signs(t)'
      <3>1. "rsa" \in DOMAIN tokWit
        BY <1>s, <2>3 DEF Signs
      <3>. QED
        BY <1>s, <2>3, <3>1, StillSigned
    <2>5. OneToken' /\ AcceptedMeansSigned'
      <3>2. tokWit'["binding"] = w /\ tokSeen' = tokSeen /\ tokPub' = tokPub
        BY <1>s, <1>w
      <3>3. Reads(t)'
        BY <2>2, <2>3
      <3>. QED
        BY <1>2, <2>1, <2>4, <3>2, <3>3, Accepts
    <2>6. HostsWitness'
      <3>1. Reads(r.token)'
        BY <1>h, <2>2
      <3>. QED
        BY <1>s, <1>r, <1>h, <2>1, <3>1 DEF HostsWitness
    <2>7. OwnClaims'
      BY <1>s DEF TokInv, OwnClaims
    <2>. QED
      BY <1>s, <2>5, <2>6, <2>7 DEF TokInv
  <1>3. CASE ~(BindingOk(run, w) /\ tokPub = CircuitPublic(run, w))
    <2>1. tokStage' = "refused"
      BY <1>1, <1>3
    <2>2. ~Meant(tokReq)
      <3>. SUFFICES ASSUME Meant(r) PROVE FALSE
        BY <1>r
      <3>t. PICK t \in Tokens : t = r.token /\ Reads(t)
        BY <1>h
      <3>g. GoodToken(t)
        BY TokensAreGood
      <3>1. tokSeen.claim = OwnValues(t)
        BY <1>s, <1>r, <3>t DEF TokInv, OwnClaims
      <3>2. /\ Claim("aud") = OwnValue(t, 1) /\ Claim("exp")[1] = t.exp
            /\ Claim("iss") = OwnValue(t, 3) /\ Claim("sub") = OwnValue(t, 5)
            /\ Claim("nonce")[1] = ValueIn(t, 4)
        <4>1. \A k \in 1..5 : tokSeen.claim[k] = OwnValue(t, k)
          BY <3>1 DEF OwnValues
        <4>2. \A k \in 1..5 : OwnValue(t, k)[1] = ValueIn(t, k)
          BY MaxClaimIs DEF OwnValue
        <4>3. ValueIn(t, 2) = t.exp
          BY DEF ValueIn
        <4>4. 1 \in 1..5 /\ 2 \in 1..5 /\ 3 \in 1..5 /\ 4 \in 1..5 /\ 5 \in 1..5
          OBVIOUS
        <4>. QED
          BY <4>1, <4>2, <4>3, <4>4, ClaimIs
      <3>3. w.random = Number(r.random) /\ w.audList = r.audList /\ w.current_idx = r.slot
        BY <1>h, <1>w, HostBound
      <3>4. run = Number(r.run)
        BY <1>h, <1>w DEF HostPublic
      <3>5. /\ r.run = t.run /\ r.random = t.random /\ r.random # 0
            /\ \E j \in DOMAIN r.audList : r.audList[j] = Poseidon(<<Packed(OwnValue(t, 1))>>)
        BY <3>t DEF Meant
      <3>6. BindingOk(run, w)
        <4>1. Poseidon(<<run, w.random>>) = NonceField(Claim("nonce")[1])
          BY <3>g, <3>2, <3>3, <3>4, <3>5, NonceIs DEF GoodToken
        <4>2. w.random # Number(0)
          BY <3>3, <3>5 DEF Number
        <4>3. \E j \in DOMAIN w.audList : w.audList[j] = Poseidon(<<Packed(Claim("aud"))>>)
          BY <3>2, <3>3, <3>5
        <4>. QED
          BY <4>1, <4>2, <4>3 DEF BindingOk
      <3>7. tokPub = CircuitPublic(run, w)
        BY <1>h, <3>t, <3>2, <3>3, <3>4, <3>5 DEF HostPublic, CircuitPublic
      <3>. QED
        BY <1>3, <3>6, <3>7
    <2>. QED
      BY <1>s, <2>1, <2>2, Refuses
  <1>. QED
    BY <1>2, <1>3

LEMMA AnyBindingPreserves == ASSUME TokInv, AnyBinding PROVE TokInv'
  <1>s. /\ tokStage = "binding" /\ tokBy = "anybody" /\ tokStage' = "accepted"
        /\ UNCHANGED <<tokBy, tokReq, tokSeen>>
        /\ tokStage \in PastDigest /\ tokStage \in PastSignature /\ tokStage \in PastPayload
        /\ tokStage \in PastClaims /\ tokStage \in PastIssuer
    BY DEF AnyBinding, PastDigest, PastSignature, PastPayload, PastClaims, PastIssuer
  <1>1. PICK run, w : /\ BindingOk(Number(run), w) /\ tokPub' = CircuitPublic(Number(run), w)
                      /\ tokWit' = [p \in DOMAIN tokWit \cup {"binding"} |->
                                       IF p = "binding" THEN w ELSE tokWit[p]]
    BY DEF AnyBinding
  <1>2. /\ tokWit'["binding"] = w
        /\ \A p \in DOMAIN tokWit : p \in DOMAIN tokWit' /\ (p # "binding" => tokWit'[p] = tokWit[p])
    BY <1>1, KeepsPieces
  <1>3. PICK t \in Tokens : Reads(t) /\ Signs(t)
    BY <1>s DEF TokInv, OneToken
  <1>4. /\ "digest" \in DOMAIN tokWit /\ tokSeen.payload = PayloadOf(t)
        /\ ReadFrom(t, tokSeen.claim) /\ "rsa" \in DOMAIN tokWit
    BY <1>s, <1>3 DEF Reads, Signs
  <1>5. /\ "digest" \in DOMAIN tokWit' /\ tokWit'["digest"] = tokWit["digest"]
        /\ "rsa" \in DOMAIN tokWit' /\ tokWit'["rsa"] = tokWit["rsa"]
    BY <1>2, <1>4
  <1>6. Reads(t)'
    <2>1. TokenHeld(t)' /\ Sha256BlockLen(Len(Message(t))) <= BufferLen \div 64
      BY <1>s, <1>3, <1>5, StillHeld
    <2>. QED
      BY <1>s, <1>4, <1>5, <2>1 DEF Reads
  <1>7. Signs(t)'
    BY <1>s, <1>3, <1>5, StillSigned
  <1>8. OneToken' /\ AcceptedMeansSigned'
    BY <1>s, <1>1, <1>2, <1>6, <1>7, Accepts
  <1>9. HostsWitness' /\ OwnClaims'
    BY <1>s DEF HostsWitness, OwnClaims
  <1>. QED
    BY <1>s, <1>8, <1>9 DEF TokInv


LEMMA BuildPreserves == ASSUME TokInv, BuildWitness PROVE TokInv'
  <1>s. tokStage = "build" /\ UNCHANGED <<tokBy, tokReq, tokSeen>> /\ tokStage' \in {"digest", "error"}
    BY DEF BuildWitness
  <1>1. tokStage' \notin PastDigest
    BY <1>s DEF PastDigest
  <1>2. Reads(tokReq.token)' /\ OneToken'
    BY <1>1 DEF Reads, OneToken, PastDigest, PastSignature, PastPayload, PastClaims
  <1>3. AcceptedMeansSigned'
    BY <1>s DEF AcceptedMeansSigned
  <1>4. HostsWitness'
    <2>. SUFFICES ASSUME tokBy = "host"
                  PROVE  /\ tokReq \in TokenRequests
                         /\ tokStage' # "error" => tokWit' = HostWitness(tokReq) /\ tokPub' = HostPublic(tokReq)
                         /\ Meant(tokReq) => tokStage' # "error"
      BY <1>s, <1>2 DEF HostsWitness
    <2>1. tokReq \in TokenRequests /\ tokReq.token \in Tokens
      BY HostToken
    <2>2. tokStage' # "error" => tokWit' = HostWitness(tokReq) /\ tokPub' = HostPublic(tokReq)
      BY DEF BuildWitness
    <2>3. ASSUME Meant(tokReq) PROVE tokStage' # "error"
      <3>t. PICK t \in Tokens : t = tokReq.token
        BY <2>1
      <3>1. IndexBitsFit(tokReq)
        <4>1. \A c \in DOMAIN Payload(t) : DecodeCharOk(Payload(t)[c])
          BY PayloadDecodes, TokensAreGood
        <4>2. Len(Payload(t)) <= MaxPayload
          BY <2>3, <3>t DEF Meant
        <4>. QED
          BY <3>t, <4>1, <4>2 DEF IndexBitsFit, IndexBitsOk
      <3>2. PathLengthOk(tokReq)
        <4>h. PICK n \in Nat : n = Height
          BY HeightIs
        <4>p. PICK path : path = PathOf(tokReq.leafIdx)
          OBVIOUS
        <4>1. DOMAIN path = 1..n
          BY <4>h, <4>p DEF PathOf
        <4>2. Len(path) = n
          BY <4>h, <4>p, <4>1 DEF PathOf
        <4>. QED
          BY <2>3, <4>h, <4>p, <4>2 DEF Meant, PathLengthOk
      <3>. QED
        BY <3>1, <3>2 DEF BuildWitness
    <2>. QED
      BY <2>1, <2>2, <2>3
  <1>5. OwnClaims'
    BY <1>1 DEF OwnClaims, PastClaims, PastPayload, PastSignature
  <1>. QED
    BY <1>s, <1>2, <1>3, <1>4, <1>5 DEF TokInv

LEMMA TokStarts == TokInit => TokInv
  <1>. SUFFICES ASSUME TokInit PROVE TokInv
    OBVIOUS
  <1>1. tokStage \in {"build", "digest"} /\ tokBy \in {"host", "anybody"}
    BY DEF TokInit
  <1>2. tokBy = "host" => tokStage = "build" /\ tokReq \in TokenRequests
    BY DEF TokInit
  <1>3. tokStage \notin PastDigest
    BY <1>1 DEF PastDigest
  <1>4. Reads(tokReq.token) /\ OneToken
    BY <1>3 DEF Reads, OneToken, PastDigest, PastSignature, PastPayload, PastClaims
  <1>5. AcceptedMeansSigned
    BY <1>1 DEF AcceptedMeansSigned
  <1>6. HostsWitness /\ OwnClaims
    BY <1>2, <1>3, <1>4 DEF HostsWitness, OwnClaims, PastClaims, PastPayload, PastSignature
  <1>. QED
    BY <1>1, <1>4, <1>5, <1>6 DEF TokInv

LEMMA TokSteps == TokInv /\ [TokNext]_tokVars => TokInv'
  <1>. SUFFICES ASSUME TokInv, [TokNext]_tokVars PROVE TokInv'
    OBVIOUS
  <1>1. CASE BuildWitness
    BY <1>1, BuildPreserves
  <1>2. CASE DigestPhase
    BY <1>2, DigestPreserves
  <1>3. CASE RsaPhase
    BY <1>3, RsaPreserves
  <1>4. CASE BoundariesPhase
    BY <1>4, BoundariesPreserve
  <1>5. CASE ClaimsPhase
    BY <1>5, ClaimsPreserve
  <1>6. CASE IssuerPhase
    BY <1>6, IssuerPreserves
  <1>7. CASE HostBinding
    BY <1>7, HostBindingPreserves
  <1>8. CASE AnyBinding
    BY <1>8, AnyBindingPreserves
  <1>9. CASE UNCHANGED tokVars
    <2>1. UNCHANGED <<tokBy, tokStage, tokReq, tokWit, tokSeen, tokPub>>
      BY <1>9 DEF tokVars
    <2>2. \A t : Reads(t)' = Reads(t) /\ Signs(t)' = Signs(t)
      BY <2>1 DEF Reads, Signs, TokenHeld, Data, ReadFrom
    <2>3. OneToken'
      BY <2>1, <2>2 DEF TokInv, OneToken
    <2>4. HostsWitness' /\ OwnClaims'
      BY <2>1, <2>2 DEF TokInv, HostsWitness, OwnClaims
    <2>5. AcceptedMeansSigned'
      BY <2>1 DEF TokInv, AcceptedMeansSigned
    <2>. QED
      BY <2>1, <2>3, <2>4, <2>5 DEF TokInv
  <1>. QED
    BY <1>1, <1>2, <1>3, <1>4, <1>5, <1>6, <1>7, <1>8, <1>9 DEF TokNext

\* Whoever makes the witness, the circuit accepts what stands behind the claims' names in
\* one text that a registered key has signed (verify_opt, enforce_token_boundaries,
\* claim_extractor_v2 and verify_membership taken together).
THEOREM AcceptanceNeedsASignature == TokSpec => []AcceptedMeansSigned
  <1>1. TokInv => AcceptedMeansSigned
    BY DEF TokInv
  <1>. QED
    BY <1>1, TokStarts, TokSteps, PTL DEF TokSpec

\* And the host's witness of a token that may be proved is accepted.
THEOREM HostIsAccepted == TokSpec => []HonestAccepted
  <1>1. ASSUME TokInv PROVE HonestAccepted
    <2>. SUFFICES ASSUME tokBy = "host"
                  PROVE  /\ Meant(tokReq) => tokStage \notin {"refused", "error"}
                         /\ tokStage = "accepted" => Sha256BlockLen(Len(Message(tokReq.token))) <= BufferLen \div 64
      BY DEF HonestAccepted
    <2>1. Meant(tokReq) => tokStage \notin {"refused", "error"}
      BY <1>1 DEF TokInv, HostsWitness
    <2>2. Reads(tokReq.token)
      BY <1>1 DEF TokInv, HostsWitness
    <2>3. tokStage = "accepted" => tokStage \in PastDigest
      BY DEF PastDigest
    <2>. QED
      BY <2>1, <2>2, <2>3 DEF Reads
  <1>. QED
    BY <1>1, TokStarts, TokSteps, PTL DEF TokSpec
=============================================================================
