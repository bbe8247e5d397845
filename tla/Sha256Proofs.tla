---------------------------- MODULE Sha256Proofs ----------------------------
(***************************************************************************)
(* For every message, however it is cut into chunks, and every padded      *)
(* buffer: the digests of SHA256Gadget are the host's, and the verifier of *)
(* a padding accepts the host's padding and nothing else. For every state  *)
(* and block: the two compressions hold the same words after every round.  *)
(***************************************************************************)
EXTENDS Sha256Gadgets, Sha256Rounds, SequenceTheorems, FiniteSetTheorems, WellFoundedInduction, TLAPS

Bytes == Seq(Byte)

-----------------------------------------------------------------------------
(* Bytes.                                                                  *)

LEMMA ByteSeq == 
    ASSUME NEW x \in Bytes
    PROVE  Len(x) \in Nat /\ \A i \in 1..Len(x) : x[i] \in Byte
  BY LenProperties DEF Bytes

LEMMA Joined ==
    ASSUME NEW x \in Bytes, NEW y \in Bytes
    PROVE  /\ x \o y \in Bytes
           /\ Len(x \o y) = Len(x) + Len(y)
           /\ \A i \in 1..(Len(x) + Len(y)) : (x \o y)[i] = IF i <= Len(x) THEN x[i] ELSE y[i - Len(x)]
  BY ConcatProperties DEF Bytes

LEMMA Cut ==
    ASSUME NEW x \in Bytes, NEW a \in Nat \ {0}, NEW b \in Nat, b <= Len(x), a <= b + 1
    PROVE  /\ SubSeq(x, a, b) \in Bytes
           /\ Len(SubSeq(x, a, b)) = b + 1 - a
           /\ \A i \in 1..(b + 1 - a) : SubSeq(x, a, b)[i] = x[a + i - 1]
  <1>1. \A i \in a..b : x[i] \in Byte
    BY ByteSeq
  <1>2. a \in Int /\ b \in Int
    OBVIOUS
  <1>. QED
    BY <1>1, <1>2, SubSeqProperties DEF Bytes

\* A function on 1..n is a text of length n.
LEMMA Built ==
    ASSUME NEW n \in Nat, NEW f \in [1..n -> Byte]
    PROVE  f \in Bytes /\ Len(f) = n
  BY DEF Bytes

LEMMA BuiltBlock ==
    ASSUME NEW f \in [1..64 -> Byte]
    PROVE  f \in Bytes /\ Len(f) = 64
  <1>1. PICK n \in Nat : n = 64
    OBVIOUS
  <1>2. f \in [1..n -> Byte]
    BY <1>1
  <1>3. f \in Bytes /\ Len(f) = n
    BY <1>2, Built
  <1>. QED
    BY <1>1, <1>3

LEMMA Same ==
    ASSUME NEW x \in Bytes, NEW y \in Bytes, Len(x) = Len(y), \A i \in 1..Len(x) : x[i] = y[i]
    PROVE  x = y
  BY SeqEqual DEF Bytes

\* Whole blocks and what is left of a number of bytes.
LEMMA Whole ==
    ASSUME NEW n \in Nat
    PROVE  n \div 64 \in Nat /\ n % 64 \in 0..63 /\ n = 64 * (n \div 64) + (n % 64)
  <1>1. n \div 64 \in Nat
    OBVIOUS
  <1>2. n % 64 \in 0..63
    OBVIOUS
  <1>3. n = 64 * (n \div 64) + (n % 64)
    OBVIOUS
  <1>. QED
    BY <1>1, <1>2, <1>3

LEMMA WholeOf ==
    ASSUME NEW n \in Nat, NEW q \in Nat, NEW r \in 0..63, n = 64 * q + r
    PROVE  n \div 64 = q /\ n % 64 = r
  OBVIOUS

LEMMA Divided ==
    ASSUME NEW n \in Nat
    PROVE  \E q \in Nat, r \in 0..63 : q = n \div 64 /\ n = 64 * q + r
  <1>1. n \div 64 \in Nat /\ n % 64 \in 0..63
    BY Whole
  <1>2. n = 64 * (n \div 64) + (n % 64)
    BY Whole
  <1>. QED
    BY <1>1, <1>2, Zenon

\* A text cut in two.
LEMMA CutInTwo ==
    ASSUME NEW x \in Bytes, NEW n \in Nat, n <= Len(x)
    PROVE  /\ SubSeq(x, 1, n) \in Bytes /\ Len(SubSeq(x, 1, n)) = n
           /\ \A i \in 1..n : SubSeq(x, 1, n)[i] = x[i]
           /\ SubSeq(x, n + 1, Len(x)) \in Bytes /\ Len(SubSeq(x, n + 1, Len(x))) = Len(x) - n
           /\ \A i \in 1..(Len(x) - n) : SubSeq(x, n + 1, Len(x))[i] = x[n + i]
           /\ x = SubSeq(x, 1, n) \o SubSeq(x, n + 1, Len(x))
  <1>1. Len(x) \in Nat /\ n \in Nat /\ n <= Len(x)
    BY ByteSeq
  <1>2. /\ SubSeq(x, 1, n) \in Bytes /\ Len(SubSeq(x, 1, n)) = n
        /\ \A i \in 1..n : SubSeq(x, 1, n)[i] = x[i]
    <2>1. /\ 1 \in Nat \ {0} /\ 1 <= n + 1 /\ n + 1 - 1 = n /\ \A i \in 1..n : 1 + i - 1 = i
      BY <1>1
    <2>2. /\ SubSeq(x, 1, n) \in Bytes
          /\ Len(SubSeq(x, 1, n)) = n + 1 - 1
          /\ \A i \in 1..(n + 1 - 1) : SubSeq(x, 1, n)[i] = x[1 + i - 1]
      BY <1>1, <2>1, Cut
    <2>. QED
      BY <2>1, <2>2
  <1>3. /\ SubSeq(x, n + 1, Len(x)) \in Bytes /\ Len(SubSeq(x, n + 1, Len(x))) = Len(x) - n
        /\ \A i \in 1..(Len(x) - n) : SubSeq(x, n + 1, Len(x))[i] = x[n + i]
    <2>1. PICK a \in Nat \ {0} : a = n + 1
      BY <1>1
    <2>2. PICK l \in Nat : l = Len(x)
      BY <1>1
    <2>3. /\ a <= l + 1 /\ l <= Len(x) /\ l + 1 - a = l - n /\ \A i \in 1..(l - n) : a + i - 1 = n + i
      BY <1>1, <2>1, <2>2
    <2>4. /\ SubSeq(x, a, l) \in Bytes
          /\ Len(SubSeq(x, a, l)) = l + 1 - a
          /\ \A i \in 1..(l + 1 - a) : SubSeq(x, a, l)[i] = x[a + i - 1]
      BY <2>3, Cut
    <2>5. /\ SubSeq(x, a, l) \in Bytes
          /\ Len(SubSeq(x, a, l)) = l - n
          /\ \A i \in 1..(l - n) : SubSeq(x, a, l)[i] = x[n + i]
      BY <2>3, <2>4
    <2>. QED
      BY <2>1, <2>2, <2>5
  <1>. DEFINE w == SubSeq(x, 1, n)
  <1>. DEFINE t == SubSeq(x, n + 1, Len(x))
  <1>. HIDE DEF w, t
  <1>4. /\ w \in Bytes /\ Len(w) = n /\ \A i \in 1..n : w[i] = x[i]
        /\ t \in Bytes /\ Len(t) = Len(x) - n /\ \A i \in 1..(Len(x) - n) : t[i] = x[n + i]
    BY <1>2, <1>3 DEF w, t
  <1>5. /\ w \o t \in Bytes /\ Len(w \o t) = Len(w) + Len(t)
        /\ \A i \in 1..(Len(w) + Len(t)) : (w \o t)[i] = IF i <= Len(w) THEN w[i] ELSE t[i - Len(w)]
    BY <1>4, Joined
  <1>6. Len(w \o t) = Len(x)
    BY <1>1, <1>4, <1>5
  <1>7. ASSUME NEW i \in 1..Len(x) PROVE x[i] = (w \o t)[i]
    <2>1. i \in 1..(Len(w) + Len(t))
      BY <1>5, <1>6
    <2>2. CASE i <= n
      <3>1. i \in 1..n /\ i <= Len(w)
        BY <1>1, <1>4, <2>2
      <3>2. (w \o t)[i] = w[i]
        BY <1>5, <2>1, <3>1
      <3>. QED
        BY <1>4, <3>1, <3>2
    <2>3. CASE ~(i <= n)
      <3>1. PICK k \in 1..(Len(x) - n) : i - Len(w) = k /\ i = n + k
        BY <1>1, <1>4, <2>3
      <3>2. (w \o t)[i] = t[i - Len(w)]
        BY <1>4, <1>5, <2>1, <2>3
      <3>. QED
        BY <1>4, <3>1, <3>2
    <2>. QED
      BY <2>2, <2>3
  <1>8. x = w \o t
    BY <1>5, <1>6, <1>7, Same
  <1>. QED
    BY <1>2, <1>3, <1>8 DEF w, t

LEMMA SameBlock ==
    ASSUME NEW x \in Bytes, NEW y \in Bytes, Len(x) = 64, Len(y) = 64, \A i \in 1..64 : x[i] = y[i]
    PROVE  x = y
  <1>1. Len(x) = Len(y) /\ \A i \in 1..Len(x) : x[i] = y[i]
    OBVIOUS
  <1>. QED
    BY <1>1, Same

-----------------------------------------------------------------------------
(* Blocks.                                                                 *)

LEMMA BlocksAre ==
    ASSUME NEW x \in Bytes
    PROVE  /\ Blocks(x) \in Seq(Bytes)
           /\ Len(Blocks(x)) = Len(x) \div 64
           /\ \A b \in 1..(Len(x) \div 64) :
                 Blocks(x)[b] = SubSeq(x, 64 * (b - 1) + 1, 64 * b)
  <1>1. Len(x) \in Nat /\ Len(x) \div 64 \in Nat
    BY ByteSeq
  <1>2. ASSUME NEW b \in 1..(Len(x) \div 64)
        PROVE  SubSeq(x, 64 * (b - 1) + 1, 64 * b) \in Bytes
    <2>1. 64 * (b - 1) + 1 \in Nat \ {0} /\ 64 * b \in Nat /\ 64 * b <= Len(x)
          /\ 64 * (b - 1) + 1 <= 64 * b + 1
      BY <1>1
    <2>. QED
      BY <2>1, Cut
  <1>3. Blocks(x) \in [1..(Len(x) \div 64) -> Bytes]
    BY <1>2 DEF Blocks
  <1>. QED
    BY <1>1, <1>3 DEF Blocks

LEMMA BlockAt ==
    ASSUME NEW x \in Bytes, NEW b \in 1..(Len(x) \div 64)
    PROVE  /\ Blocks(x)[b] \in Bytes /\ Len(Blocks(x)[b]) = 64
           /\ \A i \in 1..64 : Blocks(x)[b][i] = x[64 * (b - 1) + i]
  <1>1. Len(x) \in Nat
    BY ByteSeq
  <1>2. /\ 64 * (b - 1) + 1 \in Nat \ {0} /\ 64 * b \in Nat /\ 64 * b <= Len(x)
        /\ 64 * (b - 1) + 1 <= 64 * b + 1 /\ 64 * b + 1 - (64 * (b - 1) + 1) = 64
    BY <1>1
  <1>3. Blocks(x)[b] = SubSeq(x, 64 * (b - 1) + 1, 64 * b)
    BY BlocksAre
  <1>4. \A i \in 1..64 : 64 * (b - 1) + 1 + i - 1 = 64 * (b - 1) + i
    OBVIOUS
  <1>. QED
    BY <1>2, <1>3, <1>4, Cut

LEMMA SameBlocks ==
    ASSUME NEW x \in Bytes, NEW y \in Bytes,
           NEW b \in 1..(Len(x) \div 64), NEW c \in 1..(Len(y) \div 64),
           \A i \in 1..64 : x[64 * (b - 1) + i] = y[64 * (c - 1) + i]
    PROVE  Blocks(x)[b] = Blocks(y)[c]
  <1>1. Blocks(x)[b] \in Bytes /\ Blocks(y)[c] \in Bytes
    BY BlockAt
  <1>2. Len(Blocks(x)[b]) = 64 /\ Len(Blocks(y)[c]) = 64
    BY BlockAt
  <1>3. \A i \in 1..64 : Blocks(x)[b][i] = Blocks(y)[c][i]
    BY BlockAt
  <1>. QED
    BY <1>1, <1>2, <1>3, SameBlock

\* What follows whole blocks is cut where its own blocks are.
LEMMA BlocksJoined ==
    ASSUME NEW x \in Bytes, NEW y \in Bytes, Len(x) % 64 = 0
    PROVE  Blocks(x \o y) = Blocks(x) \o Blocks(y)
  <1>0. Len(x) \in Nat /\ Len(y) \in Nat
    BY ByteSeq
  <1>p. PICK p \in Nat : p = Len(x) \div 64 /\ Len(x) = 64 * p
    <2>1. Len(x) \div 64 \in Nat
      BY <1>0
    <2>2. Len(x) = 64 * (Len(x) \div 64) + (Len(x) % 64)
      BY <1>0, Whole
    <2>3. Len(x) = 64 * (Len(x) \div 64)
      BY <1>0, <2>1, <2>2
    <2>. QED
      BY <2>1, <2>3
  <1>q. PICK q \in Nat, s \in 0..63 : q = Len(y) \div 64 /\ Len(y) = 64 * q + s
    BY <1>0, Divided
  <1>z. PICK z \in Bytes : z = x \o y
    BY Joined
  <1>1. Len(x) \in Nat /\ Len(y) \in Nat /\ p \in Nat /\ q \in Nat /\ Len(x) = 64 * p
        /\ 64 * q <= Len(y)
    BY <1>0, <1>p, <1>q
  <1>2. z \in Bytes /\ Len(z) = Len(x) + Len(y)
        /\ \A i \in 1..(Len(x) + Len(y)) : z[i] = IF i <= Len(x) THEN x[i] ELSE y[i - Len(x)]
    BY <1>z, Joined
  <1>3. Len(z) \div 64 = p + q
    <2>1. p + q \in Nat /\ Len(z) = 64 * (p + q) + s /\ Len(z) \in Nat
      BY <1>p, <1>q, <1>2
    <2>. QED
      BY <2>1, WholeOf
  <1>4. Blocks(x) \o Blocks(y) \in Seq(Bytes) /\ Len(Blocks(x) \o Blocks(y)) = p + q
        /\ \A b \in 1..(p + q) : (Blocks(x) \o Blocks(y))[b] =
                IF b <= p THEN Blocks(x)[b] ELSE Blocks(y)[b - p]
    <2>1. Blocks(x) \in Seq(Bytes) /\ Len(Blocks(x)) = p /\ Blocks(y) \in Seq(Bytes) /\ Len(Blocks(y)) = q
      BY <1>p, <1>q, BlocksAre
    <2>. QED
      BY <2>1, ConcatProperties
  <1>5. ASSUME NEW b \in 1..(p + q)
        PROVE  Blocks(z)[b] = (Blocks(x) \o Blocks(y))[b]
    <2>1. CASE b <= p
      <3>1. b \in 1..(Len(x) \div 64) /\ b \in 1..(Len(z) \div 64)
        BY <1>p, <1>3, <2>1
      <3>2. ASSUME NEW i \in 1..64 PROVE z[64 * (b - 1) + i] = x[64 * (b - 1) + i]
        <4>1. PICK n \in 1..Len(x) : n = 64 * (b - 1) + i
          BY <1>1, <2>1
        <4>2. z[n] = x[n]
          BY <1>1, <1>2
        <4>. QED
          BY <4>1, <4>2
      <3>3. Blocks(z)[b] = Blocks(x)[b]
        BY <1>2, <3>1, <3>2, SameBlocks
      <3>. QED
        BY <1>4, <2>1, <3>3
    <2>2. CASE b > p
      <3>1. b \in 1..(Len(z) \div 64) /\ b - p \in 1..(Len(y) \div 64)
        BY <1>q, <1>3, <2>2
      <3>2. ASSUME NEW i \in 1..64 PROVE z[64 * (b - 1) + i] = y[64 * ((b - p) - 1) + i]
        <4>1. PICK n \in 1..(Len(x) + Len(y)) :
                n = 64 * (b - 1) + i /\ ~(n <= Len(x)) /\ n - Len(x) = 64 * ((b - p) - 1) + i
          BY <1>1, <2>2
        <4>2. z[n] = y[n - Len(x)]
          BY <1>2, <4>1
        <4>. QED
          BY <4>1, <4>2
      <3>3. Blocks(z)[b] = Blocks(y)[b - p]
        BY <1>2, <3>1, <3>2, SameBlocks
      <3>4. b \in 1..(p + q) /\ ~(b <= p)
        BY <1>1, <2>2
      <3>. QED
        BY <1>4, <3>3, <3>4
    <2>3. b <= p \/ b > p
      BY <1>1
    <2>. QED
      BY <2>1, <2>2, <2>3
  <1>6. Blocks(z) \in Seq(Bytes) /\ Len(Blocks(z)) = p + q
    BY <1>2, <1>3, BlocksAre
  <1>7. Blocks(z) = Blocks(x) \o Blocks(y)
    BY <1>4, <1>5, <1>6, SeqEqual
  <1>. QED
    BY <1>7, <1>z

\* Less than a block has no blocks, one block is its own.
LEMMA FewBytes ==
    ASSUME NEW x \in Bytes
    PROVE  /\ Len(x) < 64 => Blocks(x) = <<>>
           /\ Len(x) = 64 => Blocks(x) = <<x>>
  <1>1. Len(x) \in Nat
    BY ByteSeq
  <1>2. ASSUME Len(x) < 64 PROVE Blocks(x) = <<>>
    <2>1. Len(x) \div 64 = 0
      BY <1>1, <1>2
    <2>2. Len(Blocks(x)) = 0 /\ Blocks(x) \in Seq(Bytes)
      BY <2>1, BlocksAre
    <2>. QED
      BY <2>2, EmptySeq
  <1>3. ASSUME Len(x) = 64 PROVE Blocks(x) = <<x>>
    <2>1. Len(x) \div 64 = 1
      BY <1>3
    <2>2. Blocks(x) \in Seq(Bytes) /\ Len(Blocks(x)) = 1 /\ Blocks(x)[1] = SubSeq(x, 1, Len(x))
      <3>1. 1 \in 1..(Len(x) \div 64) /\ 64 * (1 - 1) + 1 = 1 /\ 64 * 1 = Len(x)
        BY <1>3, <2>1
      <3>2. Blocks(x)[1] = SubSeq(x, 64 * (1 - 1) + 1, 64 * 1)
        BY <3>1, BlocksAre
      <3>. QED
        BY <2>1, <3>1, <3>2, BlocksAre
    <2>3. SubSeq(x, 1, Len(x)) = x
      BY SubSeqFull DEF Bytes
    <2>4. <<x>> \in Seq(Bytes) /\ Len(<<x>>) = 1 /\ <<x>>[1] = x
      OBVIOUS
    <2>5. \A i \in 1..Len(Blocks(x)) : Blocks(x)[i] = <<x>>[i]
      BY <2>2, <2>3, <2>4
    <2>6. Len(Blocks(x)) = Len(<<x>>)
      BY <2>2, <2>4
    <2>. QED
      BY <2>2, <2>4, <2>5, <2>6, SeqEqual
  <1>. QED
    BY <1>2, <1>3

\* A text is its whole blocks and less than a block more, which has no blocks.
LEMMA Parted ==
    ASSUME NEW x \in Bytes
    PROVE  \E w \in Bytes, t \in Bytes :
              /\ x = w \o t /\ Len(w) % 64 = 0 /\ Len(t) < 64
              /\ Len(w) = 64 * (Len(x) \div 64)
              /\ w = SubSeq(x, 1, 64 * (Len(x) \div 64))
              /\ t = SubSeq(x, 64 * (Len(x) \div 64) + 1, Len(x))
              /\ Blocks(x) = Blocks(w)
  <1>1. Len(x) \in Nat
    BY ByteSeq
  <1>2. PICK q \in Nat, r \in 0..63 : q = Len(x) \div 64 /\ Len(x) = 64 * q + r
    BY <1>1, Divided
  <1>3. 64 * q \in Nat /\ 64 * q <= Len(x) /\ Len(x) - 64 * q = r
    BY <1>2
  <1>4. PICK w \in Bytes : w = SubSeq(x, 1, 64 * q) /\ Len(w) = 64 * q
    BY <1>3, CutInTwo
  <1>t. PICK t \in Bytes : t = SubSeq(x, 64 * q + 1, Len(x)) /\ Len(t) = r
    <2>1. /\ SubSeq(x, 64 * q + 1, Len(x)) \in Bytes
          /\ Len(SubSeq(x, 64 * q + 1, Len(x))) = Len(x) - 64 * q
      BY <1>3, CutInTwo
    <2>. QED
      BY <1>3, <2>1
  <1>5. x = w \o t
    BY <1>3, <1>4, <1>t, CutInTwo
  <1>6. Len(w) % 64 = 0 /\ Len(t) < 64
    <2>1. Len(w) \in Nat /\ Len(w) = 64 * q + 0 /\ 0 \in 0..63
      BY <1>4
    <2>. QED
      BY <1>t, <2>1, WholeOf
  <1>7. Blocks(x) = Blocks(w)
    <2>1. Blocks(x) = Blocks(w) \o Blocks(t)
      BY <1>5, <1>6, BlocksJoined
    <2>2. Blocks(t) = <<>>
      BY <1>6, FewBytes
    <2>3. Blocks(w) \in Seq(Bytes)
      BY BlocksAre
    <2>. QED
      BY <2>1, <2>2, <2>3, ConcatEmptySeq
  <1>. QED
    BY <1>2, <1>4, <1>t, <1>5, <1>6, <1>7, Zenon

-----------------------------------------------------------------------------
(* update: what a gadget has been fed is the blocks it has compressed and   *)
(* the bytes that wait.                                                     *)

\* A buffer of a block whose first bytes are t.
Begins(p, t) ==
    /\ p \in Bytes /\ Len(p) = 64 /\ t \in Bytes
    /\ \A i \in 1..Len(t) : p[i] = t[i]

\* w has been compressed, t waits; seed blocks of w came before the gadget's count.
Fed(g, seed, w, t) ==
    /\ w \in Bytes /\ Len(w) % 64 = 0
    /\ g.state = Blocks(w)
    /\ g.completed \in Nat /\ 64 * (g.completed + seed) = Len(w)
    /\ Begins(g.pending, t) /\ Len(t) < 64 /\ g.numPending = Len(t)

Holds(g, seed, x) == \E w \in Bytes, t \in Bytes : Fed(g, seed, w, t) /\ w \o t = x

\* Bytes written after those that wait.
LEMMA Overwritten ==
    ASSUME NEW p, NEW t \in Bytes, NEW d \in Bytes, Begins(p, t), Len(t) + Len(d) <= 64
    PROVE  Begins(Overwrite(p, Len(t), d), t \o d)
  <1>0. Len(t) \in Nat /\ Len(d) \in Nat
    BY ByteSeq
  <1>p. p \in Bytes /\ Len(p) = 64 /\ \A i \in 1..Len(t) : p[i] = t[i]
    BY DEF Begins
  <1>1. (\A i \in 1..Len(d) : d[i] \in Byte) /\ (\A i \in 1..64 : p[i] \in Byte)
    BY <1>p, ByteSeq
  <1>2. ASSUME NEW k \in 1..64
        PROVE  (IF k - Len(t) \in 1..Len(d) THEN d[k - Len(t)] ELSE p[k]) \in Byte
    BY <1>1
  <1>3. Overwrite(p, Len(t), d) \in [1..64 -> Byte]
    BY <1>2 DEF Overwrite
  <1>4. Overwrite(p, Len(t), d) \in Bytes /\ Len(Overwrite(p, Len(t), d)) = 64
    BY <1>3, BuiltBlock
  <1>5. /\ t \o d \in Bytes /\ Len(t \o d) = Len(t) + Len(d)
        /\ \A i \in 1..(Len(t) + Len(d)) : (t \o d)[i] = IF i <= Len(t) THEN t[i] ELSE d[i - Len(t)]
    BY Joined
  <1>6. ASSUME NEW i \in 1..(Len(t) + Len(d)) PROVE Overwrite(p, Len(t), d)[i] = (t \o d)[i]
    <2>0. i \in 1..64
      BY <1>0
    <2>1. Overwrite(p, Len(t), d)[i] = IF i - Len(t) \in 1..Len(d) THEN d[i - Len(t)] ELSE p[i]
      BY <2>0 DEF Overwrite
    <2>2. CASE i <= Len(t)
      <3>1. i \in 1..Len(t) /\ ~(i - Len(t) \in 1..Len(d))
        BY <1>0, <2>2
      <3>. QED
        BY <1>p, <1>5, <2>1, <2>2, <3>1
    <2>3. CASE ~(i <= Len(t))
      <3>1. i - Len(t) \in 1..Len(d)
        BY <1>0, <2>3
      <3>. QED
        BY <1>5, <2>1, <2>3, <3>1
    <2>. QED
      BY <2>2, <2>3
  <1>. QED
    BY <1>4, <1>5, <1>6 DEF Begins

\* Texts that follow each other may be grouped at will.
LEMMA Regrouped ==
    ASSUME NEW x, NEW y, NEW z, x \in Bytes, y \in Bytes, z \in Bytes
    PROVE  (x \o y) \o z = x \o (y \o z)
  BY ConcatAssociative DEF Bytes

LEMMA NoBytes ==
    /\ <<>> \in Bytes /\ Len(<<>>) = 0
    /\ \A x \in Bytes : x \o <<>> = x /\ <<>> \o x = x /\ (Len(x) = 0 => x = <<>>)
  <1>1. <<>> \in Bytes /\ Len(<<>>) = 0
    BY EmptySeq DEF Bytes
  <1>2. ASSUME NEW x \in Bytes PROVE x \o <<>> = x /\ <<>> \o x = x
    BY ConcatEmptySeq DEF Bytes
  <1>3. ASSUME NEW x \in Bytes, Len(x) = 0 PROVE x = <<>>
    BY <1>3, EmptySeq DEF Bytes
  <1>. QED
    BY <1>1, <1>2, <1>3

\* Two texts of whole blocks make one.
LEMMA WholeJoined ==
    ASSUME NEW x \in Bytes, NEW y \in Bytes, Len(x) % 64 = 0, Len(y) % 64 = 0
    PROVE  x \o y \in Bytes /\ Len(x \o y) = Len(x) + Len(y) /\ Len(x \o y) % 64 = 0
  <1>1. Len(x) \in Nat /\ Len(y) \in Nat
    BY ByteSeq
  <1>2. x \o y \in Bytes /\ Len(x \o y) = Len(x) + Len(y)
    BY Joined
  <1>3. PICK p \in Nat, r \in 0..63 : Len(x) = 64 * p + r
    BY <1>1, Divided
  <1>4. PICK q \in Nat, s \in 0..63 : Len(y) = 64 * q + s
    BY <1>1, Divided
  <1>5. r = 0 /\ s = 0
    BY <1>1, <1>3, <1>4, WholeOf
  <1>6. Len(x \o y) \in Nat /\ p + q \in Nat /\ 0 \in 0..63 /\ Len(x \o y) = 64 * (p + q) + 0
    BY <1>1, <1>2, <1>3, <1>4, <1>5
  <1>7. Len(x \o y) % 64 = 0
    BY <1>6, WholeOf
  <1>. QED
    BY <1>2, <1>7

\* A block no byte of which waits takes in a chunk.
LEMMA TakesChunks ==
    ASSUME NEW g, NEW seed \in Nat, NEW w, NEW d, d \in Bytes, Fed(g, seed, w, <<>>)
    PROVE  Holds(TakeChunks(g, d), seed, w \o d)
  <1>1. /\ w \in Bytes /\ Len(w) % 64 = 0 /\ g.state = Blocks(w)
        /\ g.completed \in Nat /\ 64 * (g.completed + seed) = Len(w)
        /\ g.numPending = 0 /\ Begins(g.pending, <<>>)
    BY NoBytes DEF Fed
  <1>0. Len(d) \in Nat /\ Len(d) \div 64 \in Nat
    BY ByteSeq
  <1>2. PICK dw, dt :
            /\ dw \in Bytes /\ dt \in Bytes
            /\ d = dw \o dt /\ Len(dw) % 64 = 0 /\ Len(dt) < 64 /\ Len(dw) = 64 * (Len(d) \div 64)
            /\ dt = SubSeq(d, 64 * (Len(d) \div 64) + 1, Len(d)) /\ Blocks(d) = Blocks(dw)
    BY Parted
  <1>t. Len(dt) \in Nat
    BY <1>2, ByteSeq
  <1>b. w \in Bytes /\ dw \in Bytes /\ dt \in Bytes
    BY <1>1, <1>2
  <1>3. PICK v : v \in Bytes /\ v = w \o dw /\ Len(v) = Len(w) + Len(dw) /\ Len(v) % 64 = 0
    <2>1. Len(w) % 64 = 0 /\ Len(dw) % 64 = 0
      BY <1>1, <1>2
    <2>2. w \o dw \in Bytes /\ Len(w \o dw) = Len(w) + Len(dw) /\ Len(w \o dw) % 64 = 0
      BY <1>b, <2>1, WholeJoined
    <2>. QED
      BY <2>2
  <1>4. v \o dt = w \o d
    <2>1. (w \o dw) \o dt = w \o (dw \o dt)
      BY <1>b, Regrouped
    <2>. QED
      BY <1>2, <1>3, <2>1
  <1>g. PICK g1 : g1 = TakeChunks(g, d)
    OBVIOUS
  <1>5. /\ g1.state = Blocks(w) \o Blocks(dw) /\ g1.completed = g.completed + (Len(d) \div 64)
        /\ g1.pending = Overwrite(g.pending, 0, dt) /\ g1.numPending = 0 + Len(dt)
    BY <1>g, <1>1, <1>2 DEF TakeChunks
  <1>6. g1.state = Blocks(v)
    BY <1>1, <1>2, <1>3, <1>5, BlocksJoined
  <1>7. g1.completed \in Nat /\ 64 * (g1.completed + seed) = Len(v)
    <2>1. PICK c \in Nat : c = g.completed /\ 64 * (c + seed) = Len(w)
      BY <1>1
    <2>2. PICK n \in Nat : n = Len(d) \div 64 /\ Len(dw) = 64 * n
      BY <1>0, <1>2
    <2>3. g1.completed = c + n /\ Len(v) = 64 * (c + seed) + 64 * n
      BY <1>3, <1>5, <2>1, <2>2
    <2>. QED
      BY <2>3
  <1>8. Begins(g1.pending, dt)
    <2>1. <<>> \in Bytes /\ Len(<<>>) = 0 /\ <<>> \o dt = dt
      BY <1>2, NoBytes
    <2>2. Len(<<>>) + Len(dt) <= 64
      BY <1>2, <1>t, <2>1
    <2>3. Begins(Overwrite(g.pending, Len(<<>>), dt), <<>> \o dt)
      BY <1>1, <1>2, <2>1, <2>2, Overwritten
    <2>. QED
      BY <1>5, <2>1, <2>3
  <1>9. g1.numPending = Len(dt)
    BY <1>5, <1>t
  <1>10. Fed(g1, seed, v, dt)
    BY <1>2, <1>3, <1>6, <1>7, <1>8, <1>9 DEF Fed
  <1>. QED
    BY <1>2, <1>3, <1>4, <1>10, <1>g DEF Holds

\* A chunk that does not fill the block waits with the rest.
LEMMA StillWaits ==
    ASSUME NEW g, NEW seed \in Nat, NEW w, NEW t, NEW d, d \in Bytes,
           Fed(g, seed, w, t), Len(t) + Len(d) < 64
    PROVE  Fed(TakeChunks(g, d), seed, w, t \o d)
  <1>1. /\ w \in Bytes /\ Len(w) % 64 = 0 /\ g.state = Blocks(w)
        /\ g.completed \in Nat /\ 64 * (g.completed + seed) = Len(w)
        /\ Begins(g.pending, t) /\ Len(t) < 64 /\ g.numPending = Len(t)
    BY DEF Fed
  <1>t. t \in Bytes
    BY <1>1 DEF Begins
  <1>2. Len(d) \in Nat /\ Len(t) \in Nat
    BY <1>t, ByteSeq
  <1>3. Len(d) < 64 /\ Len(d) \div 64 = 0
    BY <1>2
  <1>4. SubSeq(d, 64 * 0 + 1, Len(d)) = d
    <2>1. 64 * 0 + 1 = 1
      OBVIOUS
    <2>2. SubSeq(d, 1, Len(d)) = d
      BY SubSeqFull DEF Bytes
    <2>. QED
      BY <2>1, <2>2
  <1>5. Blocks(w) \o Blocks(d) = Blocks(w)
    <2>1. Blocks(d) = <<>>
      BY <1>3, FewBytes
    <2>2. Blocks(w) \in Seq(Bytes)
      BY <1>1, BlocksAre
    <2>. QED
      BY <2>1, <2>2, ConcatEmptySeq
  <1>g. PICK g1 : g1 = TakeChunks(g, d)
    OBVIOUS
  <1>6. /\ g1.state = g.state \o Blocks(d) /\ g1.completed = g.completed + 0
        /\ g1.pending = Overwrite(g.pending, g.numPending, d) /\ g1.numPending = g.numPending + Len(d)
    BY <1>g, <1>3, <1>4 DEF TakeChunks
  <1>7. /\ t \o d \in Bytes /\ Len(t \o d) = Len(t) + Len(d)
    BY <1>t, Joined
  <1>8. Begins(Overwrite(g.pending, Len(t), d), t \o d)
    <2>1. Len(t) + Len(d) <= 64
      BY <1>2
    <2>. QED
      BY <1>1, <1>t, <2>1, Overwritten
  <1>10. g1.state = Blocks(w) /\ g1.completed = g.completed /\ g1.numPending = Len(t \o d)
    BY <1>1, <1>5, <1>6, <1>7
  <1>11. Begins(g1.pending, t \o d)
    BY <1>1, <1>6, <1>8
  <1>. QED
    BY <1>1, <1>7, <1>10, <1>11, <1>g DEF Fed

\* A chunk that fills the block.
LEMMA Flushed ==
    ASSUME NEW g, NEW seed \in Nat, NEW w, NEW t, NEW d, d \in Bytes,
           Fed(g, seed, w, t), Len(t) + Len(d) = 64
    PROVE  Fed(FlushPending(g, d), seed, w \o (t \o d), <<>>)
  <1>1. /\ w \in Bytes /\ Len(w) % 64 = 0 /\ g.state = Blocks(w)
        /\ g.completed \in Nat /\ 64 * (g.completed + seed) = Len(w)
        /\ Begins(g.pending, t) /\ g.numPending = Len(t)
    BY DEF Fed
  <1>t. t \in Bytes
    BY <1>1 DEF Begins
  <1>2. PICK b : b \in Bytes /\ b = t \o d /\ Len(b) = 64
    <2>1. t \o d \in Bytes /\ Len(t \o d) = Len(t) + Len(d)
      BY <1>t, Joined
    <2>. QED
      BY <2>1
  <1>3. Begins(Overwrite(g.pending, Len(t), d), b)
    <2>1. Len(t) + Len(d) <= 64
      OBVIOUS
    <2>2. Begins(Overwrite(g.pending, Len(t), d), t \o d)
      BY <1>1, <1>t, <2>1, Overwritten
    <2>. QED
      BY <1>2, <2>2
  <1>4. Overwrite(g.pending, Len(t), d) = b
    <2>1. Overwrite(g.pending, Len(t), d) \in Bytes /\ Len(Overwrite(g.pending, Len(t), d)) = 64
          /\ \A i \in 1..64 : Overwrite(g.pending, Len(t), d)[i] = b[i]
      BY <1>2, <1>3 DEF Begins
    <2>. QED
      BY <1>2, <2>1, SameBlock
  <1>g. PICK g1 : g1 = FlushPending(g, d)
    OBVIOUS
  <1>5. /\ g1.state = Append(Blocks(w), b) /\ g1.completed = g.completed + 1
        /\ g1.pending = b /\ g1.numPending = 0
    BY <1>g, <1>1, <1>4 DEF FlushPending, UpdateState
  <1>6. Append(Blocks(w), b) = Blocks(w \o b)
    <2>1. Blocks(w \o b) = Blocks(w) \o <<b>>
      BY <1>1, <1>2, BlocksJoined, FewBytes
    <2>2. Blocks(w) \in Seq(Bytes)
      BY <1>1, BlocksAre
    <2>3. Append(Blocks(w), b) = Blocks(w) \o <<b>>
      BY <1>2, <2>2, AppendIsConcat
    <2>. QED
      BY <2>1, <2>3
  <1>7. /\ w \o b \in Bytes /\ Len(w \o b) = Len(w) + 64 /\ Len(w \o b) % 64 = 0
    <2>1. Len(b) % 64 = 0
      BY <1>2
    <2>2. w \o b \in Bytes /\ Len(w \o b) = Len(w) + Len(b) /\ Len(w \o b) % 64 = 0
      BY <1>1, <1>2, <2>1, WholeJoined
    <2>. QED
      BY <1>2, <2>2
  <1>8. Begins(g1.pending, <<>>) /\ Len(<<>>) = 0
    <2>1. <<>> \in Bytes /\ Len(<<>>) = 0
      BY NoBytes
    <2>. QED
      BY <1>2, <1>5, <2>1 DEF Begins
  <1>9. g1.completed \in Nat /\ 64 * (g1.completed + seed) = Len(w \o b)
    <2>1. PICK c \in Nat : c = g.completed /\ 64 * (c + seed) = Len(w)
      BY <1>1
    <2>2. g1.completed = c + 1 /\ Len(w \o b) = 64 * (c + seed) + 64 /\ c + 1 \in Nat
      BY <1>5, <1>7, <2>1
    <2>3. 64 * ((c + 1) + seed) = 64 * (c + seed) + 64
      BY <2>1
    <2>. QED
      BY <2>2, <2>3
  <1>. QED
    <2>1. Len(<<>>) < 64 /\ g1.numPending = Len(<<>>)
      BY <1>5, <1>8
    <2>2. g1.state = Blocks(w \o b)
      BY <1>5, <1>6
    <2>3. Fed(g1, seed, w \o b, <<>>)
      BY <1>7, <1>8, <1>9, <2>1, <2>2 DEF Fed
    <2>. QED
      BY <1>2, <1>g, <2>3

LEMMA FlushedThenTaken ==
    ASSUME NEW g, NEW seed \in Nat, NEW w, NEW t, NEW c, NEW d, c \in Bytes, d \in Bytes,
           Fed(g, seed, w, t), Len(t) + Len(c) = 64
    PROVE  Holds(TakeChunks(FlushPending(g, c), d), seed, (w \o t) \o (c \o d))
  <1>1. w \in Bytes /\ t \in Bytes
    BY DEF Fed, Begins
  <1>2. t \o c \in Bytes /\ w \o t \in Bytes
    BY <1>1, Joined
  <1>3. w \o (t \o c) = (w \o t) \o c
    BY <1>1, Regrouped
  <1>4. ((w \o t) \o c) \o d = (w \o t) \o (c \o d)
    BY <1>2, Regrouped
  <1>5. Fed(FlushPending(g, c), seed, w \o (t \o c), <<>>)
    BY Flushed
  <1>6. Holds(TakeChunks(FlushPending(g, c), d), seed, (w \o (t \o c)) \o d)
    BY <1>5, TakesChunks
  <1>. QED
    BY <1>3, <1>4, <1>6

\* update takes in every byte of its chunk, in order.
LEMMA Absorbed ==
    ASSUME NEW g, NEW seed \in Nat, NEW x, NEW d, d \in Bytes, Holds(g, seed, x)
    PROVE  Holds(Update(g, d), seed, x \o d)
  <1>0. PICK w, t : Fed(g, seed, w, t) /\ x = w \o t
    BY DEF Holds
  <1>1. w \in Bytes /\ t \in Bytes /\ Len(t) < 64 /\ g.numPending = Len(t)
    BY <1>0 DEF Fed, Begins
  <1>2. Len(d) \in Nat /\ Len(t) \in Nat
    BY <1>1, ByteSeq
  <1>3. CASE Len(t) > 0 /\ Len(t) + Len(d) >= 64
    <2>1. PICK n \in Nat : n = 64 - Len(t) /\ n <= Len(d)
      <3>1. 64 - Len(t) \in Nat /\ 64 - Len(t) <= Len(d)
        BY <1>1, <1>2, <1>3
      <3>. QED
        BY <3>1
    <2>2. PICK d1, d2 : d1 = SubSeq(d, 1, n) /\ d2 = SubSeq(d, n + 1, Len(d))
      OBVIOUS
    <2>3. d1 \in Bytes /\ Len(d1) = n /\ d2 \in Bytes /\ d = d1 \o d2
      BY <2>1, <2>2, CutInTwo
    <2>4. Update(g, d) = TakeChunks(FlushPending(g, d1), d2)
      BY <1>1, <1>3, <2>1, <2>2 DEF Update
    <2>5. Len(t) + Len(d1) = 64
      BY <1>2, <2>1, <2>3
    <2>6. Holds(TakeChunks(FlushPending(g, d1), d2), seed, (w \o t) \o (d1 \o d2))
      BY <1>0, <2>3, <2>5, FlushedThenTaken
    <2>. QED
      BY <1>0, <2>3, <2>4, <2>6
  <1>4. CASE ~(Len(t) > 0 /\ Len(t) + Len(d) >= 64)
    <2>1. Update(g, d) = TakeChunks(g, d)
      BY <1>1, <1>4 DEF Update
    <2>2. CASE Len(t) = 0
      <3>1. t = <<>> /\ w \o t = w
        BY <1>1, <2>2, NoBytes
      <3>2. Fed(g, seed, w, <<>>)
        BY <1>0, <3>1
      <3>3. Holds(TakeChunks(g, d), seed, w \o d)
        BY <3>2, TakesChunks
      <3>. QED
        BY <1>0, <2>1, <3>1, <3>3
    <2>3. CASE Len(t) > 0
      <3>0. Len(t) + Len(d) < 64
        BY <1>2, <1>4, <2>3
      <3>1. Fed(TakeChunks(g, d), seed, w, t \o d)
        BY <1>0, <3>0, StillWaits
      <3>2. t \o d \in Bytes /\ w \o (t \o d) = (w \o t) \o d
        <4>1. t \o d \in Bytes
          BY <1>1, Joined
        <4>2. (w \o t) \o d = w \o (t \o d)
          BY <1>1, Regrouped
        <4>. QED
          BY <4>1, <4>2
      <3>. QED
        BY <1>0, <1>1, <2>1, <3>1, <3>2 DEF Holds
    <2>4. Len(t) = 0 \/ Len(t) > 0
      BY <1>2
    <2>. QED
      BY <2>2, <2>3, <2>4
  <1>. QED
    BY <1>3, <1>4

-----------------------------------------------------------------------------
(* The padding.                                                            *)

LEMMA ZerosToPad ==
    ASSUME NEW q \in Nat, NEW r \in 0..63
    PROVE  /\ ZeroPadLen(64 * q + r) = IF r < 56 THEN 55 - r ELSE 119 - r
           /\ ZeroPadLen(64 * q + r) \in 0..63
  <1>1. CASE r < 55
    <2>1. r + 9 \in 0..63 /\ ((64 * q + r) + 1 + 8) \in Nat /\ ((64 * q + r) + 1 + 8) = 64 * q + (r + 9)
      BY <1>1
    <2>2. ((64 * q + r) + 1 + 8) % 64 = r + 9
      BY <2>1, WholeOf
    <2>3. (64 - (r + 9)) % 64 = 55 - r
      BY <1>1
    <2>. QED
      BY <1>1, <2>2, <2>3 DEF ZeroPadLen
  <1>2. CASE r = 55
    <2>1. q + 1 \in Nat /\ 0 \in 0..63 /\ ((64 * q + r) + 1 + 8) \in Nat
          /\ ((64 * q + r) + 1 + 8) = 64 * (q + 1) + 0
      BY <1>2
    <2>2. ((64 * q + r) + 1 + 8) % 64 = 0
      BY <2>1, WholeOf
    <2>3. (64 - 0) % 64 = 0
      OBVIOUS
    <2>. QED
      BY <1>2, <2>2, <2>3 DEF ZeroPadLen
  <1>3. CASE r > 55
    <2>1. q + 1 \in Nat /\ r - 55 \in 0..63 /\ ((64 * q + r) + 1 + 8) \in Nat
          /\ ((64 * q + r) + 1 + 8) = 64 * (q + 1) + (r - 55)
      BY <1>3
    <2>2. ((64 * q + r) + 1 + 8) % 64 = r - 55
      BY <2>1, WholeOf
    <2>3. (64 - (r - 55)) % 64 = 119 - r
      BY <1>3
    <2>. QED
      BY <1>3, <2>2, <2>3 DEF ZeroPadLen
  <1>. QED
    BY <1>1, <1>2, <1>3

LEMMA ZerosAre ==
    ASSUME NEW n \in Nat
    PROVE  Zeros(n) \in Bytes /\ Len(Zeros(n)) = n /\ \A k \in 1..n : Zeros(n)[k] = 0
  <1>1. Zeros(n) \in [1..n -> Byte]
    BY DEF Zeros, Byte
  <1>2. Zeros(n) \in Bytes /\ Len(Zeros(n)) = n
    BY <1>1, Built
  <1>3. \A k \in 1..n : Zeros(n)[k] = 0
    BY DEF Zeros
  <1>. QED
    BY <1>2, <1>3

\* The eight bytes of a length: five zeros, then base 256.
BigEndian(l, n) ==
    /\ \A j \in 1..5 : l[j] = 0
    /\ l[6] = (n \div 65536) % 256 /\ l[7] = (n \div 256) % 256 /\ l[8] = n % 256

LEMMA LengthBytesAre ==
    ASSUME NEW n \in Nat
    PROVE  /\ LengthBytes(n) \in Bytes /\ Len(LengthBytes(n)) = 8
           /\ BigEndian(LengthBytes(n), n)
  <1>1. /\ (n \div 65536) % 256 \in Byte /\ (n \div 256) % 256 \in Byte /\ n % 256 \in Byte /\ 0 \in Byte
    BY DEF Byte
  <1>. DEFINE a == (n \div 65536) % 256
  <1>. DEFINE b == (n \div 256) % 256
  <1>. DEFINE c == n % 256
  <1>2. a \in Byte /\ b \in Byte /\ c \in Byte
    BY <1>1
  <1>. HIDE DEF a, b, c
  <1>3. <<0, 0, 0, 0, 0, a, b, c>> \in Bytes /\ Len(<<0, 0, 0, 0, 0, a, b, c>>) = 8
    BY <1>1, <1>2 DEF Bytes
  <1>4. /\ \A j \in 1..5 : <<0, 0, 0, 0, 0, a, b, c>>[j] = 0
        /\ <<0, 0, 0, 0, 0, a, b, c>>[6] = a /\ <<0, 0, 0, 0, 0, a, b, c>>[7] = b
        /\ <<0, 0, 0, 0, 0, a, b, c>>[8] = c
    OBVIOUS
  <1>5. LengthBytes(n) = <<0, 0, 0, 0, 0, a, b, c>>
    BY DEF LengthBytes, a, b, c
  <1>. QED
    BY <1>3, <1>4, <1>5 DEF BigEndian, a, b, c

\* What is written after a message of a length, with z zeros.
Ending(z, length) == <<Marker>> \o Zeros(z) \o LengthBytes(8 * length)

LEMMA EndingIs ==
    ASSUME NEW z \in Nat, NEW length \in Nat
    PROVE  /\ Ending(z, length) \in Bytes /\ Len(Ending(z, length)) = z + 9
           /\ Ending(z, length)[1] = Marker
           /\ \A k \in 2..(z + 1) : Ending(z, length)[k] = 0
           /\ \A k \in (z + 2)..(z + 9) : Ending(z, length)[k] = LengthBytes(8 * length)[k - (z + 1)]
  <1>1. <<Marker>> \in Bytes /\ Len(<<Marker>>) = 1 /\ <<Marker>>[1] = Marker
    BY DEF Bytes, Byte, Marker
  <1>2. Zeros(z) \in Bytes /\ Len(Zeros(z)) = z /\ \A k \in 1..z : Zeros(z)[k] = 0
    BY ZerosAre
  <1>3. LengthBytes(8 * length) \in Bytes /\ Len(LengthBytes(8 * length)) = 8
    <2>1. 8 * length \in Nat
      OBVIOUS
    <2>. QED
      BY <2>1, LengthBytesAre
  <1>4. PICK u : u \in Bytes /\ u = <<Marker>> \o Zeros(z) /\ Len(u) = z + 1 /\ u[1] = Marker
                 /\ \A k \in 2..(z + 1) : u[k] = 0
    <2>1. /\ <<Marker>> \o Zeros(z) \in Bytes /\ Len(<<Marker>> \o Zeros(z)) = 1 + z
          /\ \A k \in 1..(1 + z) : (<<Marker>> \o Zeros(z))[k] = IF k <= 1 THEN <<Marker>>[k] ELSE Zeros(z)[k - 1]
      BY <1>1, <1>2, Joined
    <2>2. (<<Marker>> \o Zeros(z))[1] = Marker
      BY <1>1, <2>1
    <2>3. \A k \in 2..(z + 1) : (<<Marker>> \o Zeros(z))[k] = 0
      BY <1>2, <2>1
    <2>4. 1 + z = z + 1
      OBVIOUS
    <2>5. <<Marker>> \o Zeros(z) \in Bytes /\ Len(<<Marker>> \o Zeros(z)) = z + 1
      BY <2>1, <2>4
    <2>. QED
      BY <2>2, <2>3, <2>5
  <1>5. PICK l : l \in Bytes /\ l = LengthBytes(8 * length) /\ Len(l) = 8
    BY <1>3
  <1>6. /\ u \o l \in Bytes /\ Len(u \o l) = Len(u) + Len(l)
        /\ \A k \in 1..(Len(u) + Len(l)) : (u \o l)[k] = IF k <= Len(u) THEN u[k] ELSE l[k - Len(u)]
    BY <1>4, <1>5, Joined
  <1>7. /\ Len(u \o l) = z + 9 /\ (u \o l)[1] = Marker
        /\ \A k \in 2..(z + 1) : (u \o l)[k] = 0
        /\ \A k \in (z + 2)..(z + 9) : (u \o l)[k] = l[k - (z + 1)]
    <2>1. /\ Len(u \o l) = (z + 1) + 8
          /\ \A k \in 1..((z + 1) + 8) : (u \o l)[k] = IF k <= z + 1 THEN u[k] ELSE l[k - (z + 1)]
      BY <1>4, <1>5, <1>6
    <2>2. (z + 1) + 8 = z + 9
      OBVIOUS
    <2>3. (u \o l)[1] = Marker
      BY <1>4, <2>1
    <2>4. ASSUME NEW k \in 2..(z + 1) PROVE (u \o l)[k] = 0
      BY <1>4, <2>1
    <2>5. ASSUME NEW k \in (z + 2)..(z + 9) PROVE (u \o l)[k] = l[k - (z + 1)]
      <3>1. k \in 1..((z + 1) + 8) /\ ~(k <= z + 1)
        OBVIOUS
      <3>. QED
        BY <2>1, <3>1
    <2>. QED
      BY <2>1, <2>2, <2>3, <2>4, <2>5
  <1>8. Ending(z, length) = u \o l
    BY <1>4, <1>5 DEF Ending
  <1>. QED
    BY <1>5, <1>6, <1>7, <1>8

LEMMA PaddedIs ==
    ASSUME NEW x, x \in Bytes, NEW length \in Nat
    PROVE  Sha256PadWithLen(x, length) = x \o Ending(ZeroPadLen(Len(x)), length)
  <1>1. <<Marker>> \in Bytes
    BY DEF Bytes, Byte, Marker
  <1>2. ZeroPadLen(Len(x)) \in Nat /\ 8 * length \in Nat
    <2>1. Len(x) \in Nat
      BY ByteSeq
    <2>. QED
      BY <2>1 DEF ZeroPadLen
  <1>3. PICK z, l : z \in Bytes /\ z = Zeros(ZeroPadLen(Len(x))) /\ l \in Bytes /\ l = LengthBytes(8 * length)
    <2>1. Zeros(ZeroPadLen(Len(x))) \in Bytes
      BY <1>2, ZerosAre
    <2>2. LengthBytes(8 * length) \in Bytes
      BY <1>2, LengthBytesAre
    <2>. QED
      BY <2>1, <2>2
  <1>4. <<Marker>> \o z \in Bytes
    BY <1>1, <1>3, Joined
  <1>5. (x \o <<Marker>>) \o z = x \o (<<Marker>> \o z)
    BY <1>1, <1>3, Regrouped
  <1>6. (x \o (<<Marker>> \o z)) \o l = x \o ((<<Marker>> \o z) \o l)
    BY <1>3, <1>4, Regrouped
  <1>. QED
    BY <1>3, <1>5, <1>6 DEF Sha256PadWithLen, Ending

LEMMA HeldIsText ==
    ASSUME NEW g, NEW seed \in Nat, NEW w, NEW t, Fed(g, seed, w, t)
    PROVE  /\ w \in Bytes /\ t \in Bytes /\ w \o t \in Bytes /\ Len(w \o t) = Len(w) + Len(t)
           /\ Len(w \o t) \in Nat
           /\ g.completed \in Nat /\ Len(w) = 64 * (g.completed + seed)
           /\ Len(t) \in 0..63 /\ g.numPending = Len(t)
  <1>1. w \in Bytes /\ t \in Bytes /\ Len(t) < 64 /\ g.numPending = Len(t)
        /\ g.completed \in Nat /\ 64 * (g.completed + seed) = Len(w)
    BY DEF Fed, Begins
  <1>2. w \o t \in Bytes /\ Len(w \o t) = Len(w) + Len(t)
    BY <1>1, Joined
  <1>3. Len(w \o t) \in Nat /\ Len(t) \in Nat
    BY <1>1, <1>2, ByteSeq
  <1>4. Len(t) \in 0..63
    <2>1. PICK n \in Nat : n = Len(t) /\ n < 64
      BY <1>1, <1>3
    <2>a. n < 64
      BY <2>1
    <2>2. n \in 0..63
      BY <2>a
    <2>. QED
      BY <2>1, <2>2
  <1>. QED
    BY <1>1, <1>2, <1>3, <1>4

\* finalize writes what the host's padding writes.
LEMMA GadgetPads ==
    ASSUME NEW g, NEW seed \in Nat, NEW w, NEW t, Fed(g, seed, w, t)
    PROVE  seed = 0 => Padding(g) = Ending(ZeroPadLen(Len(w \o t)), Len(w \o t))
  <1>2. PICK c \in Nat, r \in 0..63 : /\ c = g.completed /\ r = Len(t) /\ g.numPending = r
                                      /\ Len(w) = 64 * (c + seed)
    <2>1. g.completed \in Nat
      BY DEF Fed
    <2>2. Len(w) = 64 * (g.completed + seed)
      BY DEF Fed
    <2>3. Len(t) \in 0..63
      BY HeldIsText
    <2>4. g.numPending = Len(t)
      BY DEF Fed
    <2>. QED
      BY <2>1, <2>2, <2>3, <2>4
  <1>1. SUFFICES ASSUME seed = 0
                 PROVE  Padding(g) = Ending(ZeroPadLen(Len(w \o t)), Len(w \o t))
    OBVIOUS
  <1>3. PICK n \in Nat : n = Len(w \o t) /\ n = 64 * c + r
    <2>1. Len(w \o t) = Len(w) + Len(t)
      BY HeldIsText
    <2>2. Len(w) = 64 * c
      BY <1>1, <1>2
    <2>. QED
      BY <1>2, <2>1, <2>2
  <1>4. PICK z \in 0..63 : z = ZeroPadLen(n) /\ z = (IF r < 56 THEN 55 - r ELSE 119 - r)
    BY <1>3, ZerosToPad
  <1>5. PaddingOffset(g) = z + 1
    <2>1. PaddingOffset(g) = IF r < 56 THEN 56 - r ELSE 120 - r
      BY <1>2 DEF PaddingOffset
    <2>2. CASE r < 56
      BY <1>4, <2>1, <2>2
    <2>3. CASE ~(r < 56)
      BY <1>4, <2>1, <2>3
    <2>. QED
      BY <2>2, <2>3
  <1>6. 512 * g.completed + 8 * g.numPending = 8 * n
    <2>1. 512 * c + 8 * r = 8 * (64 * c + r)
      OBVIOUS
    <2>. QED
      BY <1>2, <1>3, <2>1
  <1>7. PICK l : l \in Bytes /\ l = LengthBytes(8 * n) /\ Len(l) = 8
    <2>1. 8 * n \in Nat
      OBVIOUS
    <2>. QED
      BY <2>1, LengthBytesAre
  <1>8. Padding(g) = [k \in 1..((z + 1) + 8) |-> IF k > z + 1 THEN l[k - (z + 1)]
                                                 ELSE IF k = 1 THEN Marker ELSE 0]
    BY <1>5, <1>6, <1>7 DEF Padding
  <1>9. PICK m \in Nat : m = z + 9 /\ (z + 1) + 8 = m
    BY <1>4
  <1>10. Padding(g) \in Bytes /\ Len(Padding(g)) = m
    <2>1. ASSUME NEW k \in 1..m
          PROVE  (IF k > z + 1 THEN l[k - (z + 1)] ELSE IF k = 1 THEN Marker ELSE 0) \in Byte
      <3>1. CASE k > z + 1
        <4>1. k - (z + 1) \in 1..8
          BY <1>9, <3>1
        <4>2. \A i \in 1..8 : l[i] \in Byte
          BY <1>7, ByteSeq
        <4>. QED
          BY <3>1, <4>1, <4>2
      <3>2. CASE ~(k > z + 1)
        BY <3>2 DEF Byte, Marker
      <3>. QED
        BY <3>1, <3>2
    <2>2. Padding(g) \in [1..m -> Byte]
      BY <1>8, <1>9, <2>1
    <2>. QED
      BY <2>2, Built
  <1>11. PICK e : e = Ending(z, n) /\ e \in Bytes /\ Len(e) = z + 9 /\ e[1] = Marker
                  /\ (\A k \in 2..(z + 1) : e[k] = 0)
                  /\ \A k \in (z + 2)..(z + 9) : e[k] = l[k - (z + 1)]
    <2>1. z \in Nat
      OBVIOUS
    <2>2. /\ Ending(z, n) \in Bytes /\ Len(Ending(z, n)) = z + 9
          /\ Ending(z, n)[1] = Marker
          /\ \A k \in 2..(z + 1) : Ending(z, n)[k] = 0
          /\ \A k \in (z + 2)..(z + 9) : Ending(z, n)[k] = LengthBytes(8 * n)[k - (z + 1)]
      BY <2>1, EndingIs
    <2>. QED
      BY <1>7, <2>2
  <1>12. ASSUME NEW k \in 1..m PROVE Padding(g)[k] = e[k]
    <2>1. Padding(g)[k] = IF k > z + 1 THEN l[k - (z + 1)] ELSE IF k = 1 THEN Marker ELSE 0
      BY <1>8, <1>9
    <2>2. CASE k > z + 1
      <3>1. k \in (z + 2)..(z + 9)
        BY <1>9, <2>2
      <3>. QED
        BY <1>11, <2>1, <2>2, <3>1
    <2>3. CASE ~(k > z + 1)
      <3>1. k = 1 \/ k \in 2..(z + 1)
        BY <1>9, <2>3
      <3>. QED
        BY <1>11, <2>1, <2>3, <3>1
    <2>. QED
      BY <2>2, <2>3
  <1>13. Padding(g) = e
    BY <1>9, <1>10, <1>11, <1>12, Same
  <1>. QED
    BY <1>3, <1>4, <1>11, <1>13

\* When no byte waits, the state is the blocks of everything fed.
LEMMA WholeHeld ==
    ASSUME NEW g, NEW seed \in Nat, NEW x, Holds(g, seed, x), Len(x) % 64 = 0
    PROVE  g.state = Blocks(x)
  <1>1. PICK w, t : Fed(g, seed, w, t) /\ x = w \o t
    BY DEF Holds
  <1>2. PICK c \in Nat, r \in 0..63 : /\ c = g.completed /\ r = Len(t) /\ g.numPending = r
                                      /\ Len(w) = 64 * (c + seed)
    <2>1. /\ g.completed \in Nat /\ Len(w) = 64 * (g.completed + seed)
          /\ Len(t) \in 0..63 /\ g.numPending = Len(t)
      BY <1>1, HeldIsText
    <2>. QED
      BY <2>1
  <1>3. Len(x) \in Nat /\ c + seed \in Nat /\ Len(x) = 64 * (c + seed) + r
    <2>1. Len(w \o t) = Len(w) + Len(t) /\ Len(w \o t) \in Nat
      BY <1>1, HeldIsText
    <2>2. Len(x) \in Nat /\ Len(x) = 64 * (c + seed) + r
      BY <1>1, <1>2, <2>1
    <2>3. c + seed \in Nat
      OBVIOUS
    <2>. QED
      BY <2>2, <2>3
  <1>4. r = 0
    BY <1>3, WholeOf
  <1>5. x = w
    <2>1. w \in Bytes /\ t \in Bytes
      BY <1>1, HeldIsText
    <2>2. t = <<>> /\ w \o <<>> = w
      BY <1>2, <1>4, <2>1, NoBytes
    <2>. QED
      BY <1>1, <2>2
  <1>. QED
    BY <1>1, <1>5 DEF Fed

\* A padded message is whole blocks.
LEMMA PaddedWhole ==
    ASSUME NEW x, x \in Bytes, NEW length \in Nat
    PROVE  /\ Sha256PadWithLen(x, length) \in Bytes
           /\ Sha256BlockLen(Len(x)) \in Nat
           /\ Len(Sha256PadWithLen(x, length)) = 64 * Sha256BlockLen(Len(x))
           /\ Len(Sha256PadWithLen(x, length)) % 64 = 0
           /\ Len(Sha256PadWithLen(x, length)) = Len(x) + (ZeroPadLen(Len(x)) + 9)
  <1>1. PICK n \in Nat : n = Len(x)
    BY ByteSeq
  <1>2. PICK q \in Nat, r \in 0..63 : n = 64 * q + r
    BY Divided
  <1>3. PICK z \in 0..63 : z = ZeroPadLen(n) /\ z = (IF r < 56 THEN 55 - r ELSE 119 - r)
    BY <1>2, ZerosToPad
  <1>4. PICK k \in Nat : k = Sha256BlockLen(n) /\ k = (IF r < 56 THEN q + 1 ELSE q + 2)
    <2>1. CASE r < 56
      <3>1. /\ n + 1 + 8 + 63 \in Nat /\ q + 1 \in Nat /\ r + 8 \in 0..63
            /\ n + 1 + 8 + 63 = 64 * (q + 1) + (r + 8)
        BY <1>2, <2>1
      <3>2. (n + 1 + 8 + 63) \div 64 = q + 1
        BY <3>1, WholeOf
      <3>. QED
        BY <2>1, <3>1, <3>2 DEF Sha256BlockLen
    <2>2. CASE ~(r < 56)
      <3>1. /\ n + 1 + 8 + 63 \in Nat /\ q + 2 \in Nat /\ r - 56 \in 0..63
            /\ n + 1 + 8 + 63 = 64 * (q + 2) + (r - 56)
        BY <1>2, <2>2
      <3>2. (n + 1 + 8 + 63) \div 64 = q + 2
        BY <3>1, WholeOf
      <3>. QED
        BY <2>2, <3>1, <3>2 DEF Sha256BlockLen
    <2>. QED
      BY <2>1, <2>2
  <1>5. PICK e : e = Ending(z, length) /\ e \in Bytes /\ Len(e) = z + 9
    <2>1. z \in Nat
      OBVIOUS
    <2>2. Ending(z, length) \in Bytes /\ Len(Ending(z, length)) = z + 9
      BY <2>1, EndingIs
    <2>. QED
      BY <2>2
  <1>6. PICK p : p = Sha256PadWithLen(x, length) /\ p = x \o e
    BY <1>1, <1>3, <1>5, PaddedIs
  <1>7. p \in Bytes /\ Len(p) = n + (z + 9)
    <2>1. x \o e \in Bytes /\ Len(x \o e) = Len(x) + Len(e)
      BY <1>5, Joined
    <2>. QED
      BY <1>1, <1>5, <1>6, <2>1
  <1>8. n + (z + 9) = 64 * k
    <2>1. CASE r < 56
      BY <1>2, <1>3, <1>4, <2>1
    <2>2. CASE ~(r < 56)
      BY <1>2, <1>3, <1>4, <2>2
    <2>. QED
      BY <2>1, <2>2
  <1>9. (64 * k) % 64 = 0
    OBVIOUS
  <1>. QED
    BY <1>1, <1>3, <1>4, <1>6, <1>7, <1>8, <1>9

\* finalize gives the host's digest.
LEMMA Finalized ==
    ASSUME NEW g, NEW seed \in Nat, NEW w, NEW t, Fed(g, seed, w, t)
    PROVE  seed = 0 => Update(g, Padding(g)).state = Digest(w \o t)
  <1>1. PICK x : x = w \o t /\ x \in Bytes /\ Holds(g, seed, x)
    BY HeldIsText DEF Holds
  <1>2. PICK n \in Nat : n = Len(x)
    BY <1>1, ByteSeq
  <1>3. Sha256PadWithLen(x, n) \in Bytes /\ Len(Sha256PadWithLen(x, n)) % 64 = 0
    BY <1>1, PaddedWhole
  <1>4. PICK e : e = Ending(ZeroPadLen(n), n) /\ Sha256PadWithLen(x, n) = x \o e
    BY <1>1, <1>2, PaddedIs
  <1>5. e \in Bytes
    <2>1. ZeroPadLen(n) \in Nat
      BY DEF ZeroPadLen
    <2>. QED
      BY <1>4, <2>1, EndingIs
  <1>6. seed = 0 => Padding(g) = e
    BY <1>1, <1>2, <1>4, GadgetPads
  <1>7. Holds(Update(g, e), seed, x \o e)
    BY <1>1, <1>5, Absorbed
  <1>8. Update(g, e).state = Blocks(x \o e)
    BY <1>3, <1>4, <1>7, WholeHeld
  <1>9. Digest(x) = Blocks(x \o e)
    BY <1>2, <1>4 DEF Digest
  <1>. QED
    BY <1>1, <1>6, <1>8, <1>9

LEMMA FewWait ==
    ASSUME NEW g, NEW seed, NEW w, NEW t, Fed(g, seed, w, t)
    PROVE  t \in Bytes /\ Len(t) \in 0..63 /\ g.numPending = Len(t)
  <1>1. t \in Bytes /\ Len(t) < 64 /\ g.numPending = Len(t)
    BY DEF Fed, Begins
  <1>2. PICK n \in Nat : n = Len(t)
    BY <1>1, ByteSeq
  <1>3. n < 64
    BY <1>1, <1>2
  <1>4. n \in 0..63
    BY <1>3
  <1>. QED
    BY <1>1, <1>2, <1>4

\* The bytes that wait are read back from the buffer.
LEMMA Waiting ==
    ASSUME NEW g, NEW seed \in Nat, NEW w, NEW t, Fed(g, seed, w, t)
    PROVE  SubSeq(g.pending, 1, g.numPending) = t
  <1>1. t \in Bytes /\ Len(t) \in 0..63
    BY FewWait
  <1>2. g.numPending = Len(t) /\ Begins(g.pending, t)
    BY DEF Fed
  <1>3. PICK p : p = g.pending /\ p \in Bytes /\ Len(p) = 64 /\ \A i \in 1..Len(t) : p[i] = t[i]
    BY <1>2 DEF Begins
  <1>4. PICK n \in Nat : n = Len(t) /\ n <= Len(p)
    <2>1. PICK n \in 0..63 : n = Len(t)
      BY <1>1
    <2>2. n \in Nat /\ n <= 64
      OBVIOUS
    <2>3. n <= Len(p)
      BY <1>3, <2>2
    <2>. QED
      BY <2>1, <2>2, <2>3
  <1>5. SubSeq(p, 1, n) \in Bytes /\ Len(SubSeq(p, 1, n)) = n /\ \A i \in 1..n : SubSeq(p, 1, n)[i] = p[i]
    BY <1>3, <1>4, CutInTwo
  <1>6. SubSeq(p, 1, n) = t
    <2>1. \A i \in 1..n : SubSeq(p, 1, n)[i] = t[i]
      BY <1>3, <1>4, <1>5
    <2>. QED
      BY <1>1, <1>4, <1>5, <2>1, Same
  <1>. QED
    BY <1>2, <1>3, <1>4, <1>6

\* The host's own way from the state after the whole blocks.
LEMMA FinalizedNative ==
    ASSUME NEW g, NEW seed \in Nat, NEW w, NEW t, Fed(g, seed, w, t)
    PROVE  /\ FinalizesInOneBlock(t) => FinalizeWithState(g.state, t, Len(w \o t)) = Digest(w \o t)
           /\ ~FinalizesInOneBlock(t) => g.numPending >= 56
  <1>1. PICK r \in 0..63 : r = Len(t) /\ g.numPending = r
    BY FewWait
  <1>2. w \in Bytes /\ t \in Bytes /\ Len(w) % 64 = 0 /\ g.state = Blocks(w)
    BY DEF Fed, Begins
  <1>3. PICK n \in Nat : n = Len(w \o t)
    BY HeldIsText
  <1>4. ZeroPadLen(n) = ZeroPadLen(r) /\ ZeroPadLen(r) \in Nat
        /\ ZeroPadLen(r) = IF r < 56 THEN 55 - r ELSE 119 - r
    <2>1. PICK c \in Nat : Len(w) = 64 * c /\ n = 64 * c + r
      <3>1. PICK c \in Nat, s \in 0..63 : Len(w) = 64 * c + s /\ c = Len(w) \div 64
        BY <1>2, ByteSeq, Divided
      <3>2. s = 0
        BY <1>2, <3>1, WholeOf
      <3>3. Len(w \o t) = Len(w) + Len(t)
        BY HeldIsText
      <3>. QED
        BY <1>1, <1>3, <3>1, <3>2, <3>3
    <2>2. /\ ZeroPadLen(64 * c + r) = IF r < 56 THEN 55 - r ELSE 119 - r
          /\ ZeroPadLen(64 * c + r) \in 0..63
      BY ZerosToPad
    <2>3. /\ ZeroPadLen(64 * 0 + r) = IF r < 56 THEN 55 - r ELSE 119 - r
      BY ZerosToPad
    <2>4. 64 * 0 + r = r
      OBVIOUS
    <2>. QED
      BY <2>1, <2>2, <2>3, <2>4
  <1>5. ASSUME FinalizesInOneBlock(t)
        PROVE  FinalizeWithState(g.state, t, n) = Digest(w \o t)
    <2>1. PICK e : e = Ending(ZeroPadLen(r), n) /\ Sha256PadWithLen(t, n) = t \o e
                   /\ Sha256PadWithLen(w \o t, n) = (w \o t) \o e
      <3>1. w \o t \in Bytes
        BY <1>2, Joined
      <3>. QED
        BY <1>1, <1>2, <1>3, <1>4, <3>1, PaddedIs
    <2>2. e \in Bytes
      BY <1>4, <2>1, EndingIs
    <2>3. PICK b : b = t \o e /\ b \in Bytes
      BY <1>2, <2>2, Joined
    <2>4. Len(b) = 64
      <3>1. Len(Sha256PadWithLen(t, 0)) = 64
        BY <1>5 DEF FinalizesInOneBlock
      <3>2. \A l \in Nat : Len(Sha256PadWithLen(t, l)) = Len(t) + (ZeroPadLen(Len(t)) + 9)
        BY <1>2, PaddedWhole
      <3>3. Len(Sha256PadWithLen(t, n)) = Len(Sha256PadWithLen(t, 0))
        BY <3>2
      <3>. QED
        BY <2>1, <2>3, <3>1, <3>3
    <2>5. (w \o t) \o e = w \o b
      BY <1>2, <2>2, <2>3, Regrouped
    <2>6. Blocks(w \o b) = Blocks(w) \o <<b>>
      BY <1>2, <2>3, <2>4, BlocksJoined, FewBytes
    <2>7. Append(Blocks(w), b) = Blocks(w) \o <<b>>
      BY <1>2, <2>3, BlocksAre, AppendIsConcat
    <2>8. Digest(w \o t) = Blocks(w \o b)
      BY <1>3, <2>1, <2>5 DEF Digest
    <2>. QED
      BY <1>2, <2>1, <2>3, <2>6, <2>7, <2>8 DEF FinalizeWithState, UpdateState
  <1>6. ASSUME ~FinalizesInOneBlock(t), r < 56
        PROVE  FALSE
    <2>1. \A l \in Nat : Len(Sha256PadWithLen(t, l)) = Len(t) + (ZeroPadLen(Len(t)) + 9)
      BY <1>2, PaddedWhole
    <2>2. Len(Sha256PadWithLen(t, 0)) = r + ((55 - r) + 9)
      BY <1>1, <1>4, <1>6, <2>1
    <2>. QED
      BY <1>6, <2>2 DEF FinalizesInOneBlock
  <1>. QED
    BY <1>1, <1>3, <1>5, <1>6

-----------------------------------------------------------------------------
(* The digests of a gadget that is fed.                                    *)

LEMMA Allocated ==
    ASSUME NEW m \in Midstates
    PROVE  Holds(NewGadget(Blocks(SubSeq(Text, 1, 64 * m))), m, SubSeq(Text, 1, 64 * m))
  <1>1. Text \in Bytes /\ m \in Nat /\ 64 * m <= Len(Text)
    BY ShaTextAssumption, ShaMidstatesAssumption DEF Bytes
  <1>2. PICK n \in Nat : n = 64 * m /\ n <= Len(Text)
    BY <1>1
  <1>3. PICK x : x = SubSeq(Text, 1, n) /\ x \in Bytes /\ Len(x) = n
    BY <1>1, <1>2, CutInTwo
  <1>4. Len(x) % 64 = 0
    BY <1>1, <1>2, <1>3
  <1>5. <<>> \in Bytes /\ Len(<<>>) = 0 /\ x \o <<>> = x
    BY <1>3, NoBytes
  <1>6. Zeros(64) \in Bytes /\ Len(Zeros(64)) = 64
    <2>1. 64 \in Nat
      OBVIOUS
    <2>2. \A z \in Nat : Zeros(z) \in Bytes /\ Len(Zeros(z)) = z
      BY ZerosAre
    <2>. QED
      BY <2>1, <2>2
  <1>7. PICK g : g = NewGadget(Blocks(x))
    OBVIOUS
  <1>8. g.state = Blocks(x) /\ g.completed = 0 /\ g.pending = Zeros(64) /\ g.numPending = 0
    BY <1>7 DEF NewGadget
  <1>9. Begins(g.pending, <<>>)
    BY <1>5, <1>6, <1>8 DEF Begins
  <1>10. 64 * (0 + m) = Len(x) /\ 0 \in Nat
    BY <1>1, <1>2, <1>3
  <1>11. Len(<<>>) < 64
    BY <1>5
  <1>12. Fed(g, m, x, <<>>)
    BY <1>3, <1>4, <1>5, <1>8, <1>9, <1>10, <1>11 DEF Fed
  <1>. QED
    BY <1>2, <1>3, <1>5, <1>7, <1>12 DEF Holds

-----------------------------------------------------------------------------
(* A padded buffer, byte by byte.                                          *)

LEMMA Word16 ==
    ASSUME NEW n \in Nat
    PROVE  n \in U16 <=> n < 65536
  <1>1. PICK m \in Nat : m = MaxU16 /\ m + 1 = 65536
    BY DEF MaxU16
  <1>2. n \in 0..m <=> n < 65536
    BY <1>1
  <1>. QED
    BY <1>1, <1>2 DEF U16

LEMMA OfWord16 ==
    ASSUME NEW u \in U16
    PROVE  u \in Nat /\ u < 65536
  <1>1. PICK m \in Nat : m = MaxU16 /\ m + 1 = 65536
    BY DEF MaxU16
  <1>2. \A v \in 0..m : v \in Nat /\ v < 65536
    BY <1>1
  <1>. QED
    BY <1>1, <1>2 DEF U16

\* The padding of pad bytes ends in block `last`.
Ends(pad, last) == 64 * last <= pad + 8 /\ pad < 64 * last + 56

LEMMA EndsIn ==
    ASSUME NEW pad \in Nat, NEW last \in Nat
    PROVE  last = Sha256BlockLen(pad) - 1 <=> Ends(pad, last)
  <1>1. PICK q \in Nat, r \in 0..63 : pad = 64 * q + r
    BY Divided
  <1>2. Sha256BlockLen(pad) = IF r < 56 THEN q + 1 ELSE q + 2
    <2>1. CASE r < 56
      <3>1. /\ pad + 1 + 8 + 63 \in Nat /\ q + 1 \in Nat /\ r + 8 \in 0..63
            /\ pad + 1 + 8 + 63 = 64 * (q + 1) + (r + 8)
        BY <1>1, <2>1
      <3>. QED
        BY <2>1, <3>1, WholeOf DEF Sha256BlockLen
    <2>2. CASE ~(r < 56)
      <3>1. /\ pad + 1 + 8 + 63 \in Nat /\ q + 2 \in Nat /\ r - 56 \in 0..63
            /\ pad + 1 + 8 + 63 = 64 * (q + 2) + (r - 56)
        BY <1>1, <2>2
      <3>. QED
        BY <2>2, <3>1, WholeOf DEF Sha256BlockLen
    <2>. QED
      BY <2>1, <2>2
  <1>3. ASSUME Ends(pad, last) PROVE last = Sha256BlockLen(pad) - 1
    BY <1>1, <1>2, <1>3 DEF Ends
  <1>4. ASSUME last = Sha256BlockLen(pad) - 1 PROVE Ends(pad, last)
    BY <1>1, <1>2, <1>4 DEF Ends
  <1>. QED
    BY <1>3, <1>4

\* Three bytes are the digits of a number, base 256.
LEMMA LengthDigits ==
    ASSUME NEW a \in Byte, NEW b \in Byte, NEW c \in Byte, NEW n \in Nat, n < 16777216
    PROVE  65536 * a + 256 * b + c = n <=>
              a = (n \div 65536) % 256 /\ b = (n \div 256) % 256 /\ c = n % 256
  <1>1. a \in 0..255 /\ b \in 0..255 /\ c \in 0..255
    BY DEF Byte
  <1>2. ASSUME 65536 * a + 256 * b + c = n
        PROVE  a = (n \div 65536) % 256 /\ b = (n \div 256) % 256 /\ c = n % 256
    <2>1. n \div 65536 = a
      BY <1>1, <1>2
    <2>2. n \div 256 = 256 * a + b
      BY <1>1, <1>2
    <2>3. n % 256 = c
      BY <1>1, <1>2
    <2>4. a % 256 = a
      BY <1>1
    <2>5. (256 * a + b) % 256 = b
      BY <1>1
    <2>. QED
      BY <2>1, <2>2, <2>3, <2>4, <2>5
  <1>3. ASSUME a = (n \div 65536) % 256, b = (n \div 256) % 256, c = n % 256
        PROVE  65536 * a + 256 * b + c = n
    <2>1. PICK h \in Nat : h = n \div 256 /\ n = 256 * h + c
      BY <1>3
    <2>2. PICK i \in Nat : i = h \div 256 /\ h = 256 * i + b
      BY <1>3, <2>1
    <2>3. i = n \div 65536 /\ i < 256
      BY <1>1, <2>1, <2>2
    <2>4. a = i
      BY <1>3, <2>3
    <2>. QED
      BY <1>1, <2>1, <2>2, <2>4
  <1>. QED
    BY <1>2, <1>3

\* What the bytes after the message are.
Layout(p, last, total, pad) ==
    /\ p[pad + 1] = Marker
    /\ \A i \in (pad + 2)..(64 * last + 56) : p[i] = 0
    /\ \A j \in 1..8 : p[64 * last + 56 + j] = LengthBytes(8 * total)[j]

LEMMA PaddedLayout ==
    ASSUME NEW x, x \in Bytes, NEW length \in Nat, NEW last \in Nat, Ends(Len(x), last)
    PROVE  /\ Sha256PadWithLen(x, length) \in Bytes
           /\ Len(Sha256PadWithLen(x, length)) = 64 * (last + 1)
           /\ \A i \in 1..Len(x) : Sha256PadWithLen(x, length)[i] = x[i]
           /\ Layout(Sha256PadWithLen(x, length), last, length, Len(x))
  <1>1. PICK n \in Nat : n = Len(x)
    BY ByteSeq
  <1>2. 64 * last <= n + 8 /\ n < 64 * last + 56
    BY <1>1 DEF Ends
  <1>3. PICK z \in Nat : z = ZeroPadLen(n) /\ n + z + 1 = 64 * last + 56
    <2>1. PICK q \in Nat, r \in 0..63 : n = 64 * q + r
      BY Divided
    <2>2. ZeroPadLen(n) = IF r < 56 THEN 55 - r ELSE 119 - r
      BY <2>1, ZerosToPad
    <2>3. CASE r < 56
      <3>1. last = q
        BY <1>2, <2>1, <2>3
      <3>. QED
        BY <2>1, <2>2, <2>3, <3>1
    <2>4. CASE ~(r < 56)
      <3>1. last = q + 1
        BY <1>2, <2>1, <2>4
      <3>. QED
        BY <2>1, <2>2, <2>4, <3>1
    <2>. QED
      BY <2>3, <2>4
  <1>4. PICK l : l = LengthBytes(8 * length)
    OBVIOUS
  <1>5. PICK e : e = Ending(z, length) /\ e \in Bytes /\ Len(e) = z + 9 /\ e[1] = Marker
                 /\ (\A k \in 2..(z + 1) : e[k] = 0)
                 /\ \A k \in (z + 2)..(z + 9) : e[k] = l[k - (z + 1)]
    <2>1. /\ Ending(z, length) \in Bytes /\ Len(Ending(z, length)) = z + 9
          /\ Ending(z, length)[1] = Marker
          /\ \A k \in 2..(z + 1) : Ending(z, length)[k] = 0
          /\ \A k \in (z + 2)..(z + 9) : Ending(z, length)[k] = LengthBytes(8 * length)[k - (z + 1)]
      BY EndingIs
    <2>. QED
      BY <1>4, <2>1
  <1>6. PICK p : p = Sha256PadWithLen(x, length) /\ p = x \o e
    BY <1>1, <1>3, <1>5, PaddedIs
  <1>7. /\ p \in Bytes /\ Len(p) = n + (z + 9)
        /\ \A i \in 1..(n + (z + 9)) : p[i] = IF i <= n THEN x[i] ELSE e[i - n]
    <2>1. /\ x \o e \in Bytes /\ Len(x \o e) = Len(x) + Len(e)
          /\ \A i \in 1..(Len(x) + Len(e)) : (x \o e)[i] = IF i <= Len(x) THEN x[i] ELSE e[i - Len(x)]
      BY <1>5, Joined
    <2>. QED
      BY <1>1, <1>5, <1>6, <2>1
  <1>a. n + z + 1 = 64 * last + 56
    BY <1>3
  <1>8. Len(p) = 64 * (last + 1)
    <2>1. n + (z + 9) = 64 * (last + 1)
      BY <1>a
    <2>. QED
      BY <1>7, <2>1
  <1>9. \A i \in 1..n : p[i] = x[i]
    BY <1>7
  <1>10. p[n + 1] = Marker
    <2>1. n + 1 \in 1..(n + (z + 9)) /\ ~(n + 1 <= n) /\ (n + 1) - n = 1
      OBVIOUS
    <2>. QED
      BY <1>5, <1>7, <2>1
  <1>11. ASSUME NEW i \in (n + 2)..(64 * last + 56) PROVE p[i] = 0
    <2>1. i \in 1..(n + (z + 9)) /\ ~(i <= n) /\ i - n \in 2..(z + 1)
      BY <1>3
    <2>2. p[i] = e[i - n]
      BY <1>7, <2>1
    <2>. QED
      BY <1>5, <2>1, <2>2
  <1>12. ASSUME NEW j \in 1..8 PROVE p[64 * last + 56 + j] = l[j]
    <2>1. PICK i \in 1..(n + (z + 9)) :
             /\ i = 64 * last + 56 + j /\ ~(i <= n) /\ i - n \in (z + 2)..(z + 9)
             /\ (i - n) - (z + 1) = j
      <3>1. /\ 64 * last + 56 + j \in 1..(n + (z + 9)) /\ ~(64 * last + 56 + j <= n)
            /\ (64 * last + 56 + j) - n \in (z + 2)..(z + 9)
            /\ ((64 * last + 56 + j) - n) - (z + 1) = j
        BY <1>a
      <3>. QED
        BY <3>1
    <2>2. p[i] = e[i - n]
      BY <1>7, <2>1
    <2>3. e[i - n] = l[(i - n) - (z + 1)]
      BY <1>5, <2>1
    <2>. QED
      BY <2>1, <2>2, <2>3
  <1>13. Layout(p, last, length, n)
    BY <1>4, <1>10, <1>11, <1>12 DEF Layout
  <1>. QED
    BY <1>1, <1>6, <1>7, <1>8, <1>9, <1>13

\* What the code asserts of a buffer and its witnesses.
Buffer(data, last, total, pad) ==
    /\ data \in Bytes /\ Len(data) % 64 = 0 /\ Len(data) \in U16
    /\ last \in U16 /\ total \in U16 /\ pad \in U16

LEMMA BufferBlocks ==
    ASSUME NEW data, NEW last, NEW total, NEW pad, Buffer(data, last, total, pad)
    PROVE  /\ last \in Nat /\ total \in Nat /\ pad \in Nat /\ total < 65536 /\ last < 65536
           /\ MaxBlocks(data) \in Nat /\ Len(data) = 64 * MaxBlocks(data)
  <1>1. data \in Bytes /\ Len(data) % 64 = 0
    BY DEF Buffer
  <1>2. last \in U16 /\ total \in U16 /\ pad \in U16
    BY DEF Buffer
  <1>3. \A u \in U16 : u \in Nat /\ u < 65536
    BY OfWord16
  <1>4. Len(data) \in Nat
    BY <1>1, ByteSeq
  <1>5. PICK m \in Nat, r \in 0..63 : m = Len(data) \div 64 /\ Len(data) = 64 * m + r
    BY <1>4, Divided
  <1>6. r = 0
    BY <1>1, <1>4, <1>5, WholeOf
  <1>7. Len(data) = 64 * m
    BY <1>5, <1>6
  <1>8. m = MaxBlocks(data)
    BY <1>5 DEF MaxBlocks
  <1>. QED
    BY <1>2, <1>3, <1>7, <1>8

LEMMA PositionMeans ==
    ASSUME NEW pad \in Nat, NEW last \in Nat
    PROVE  PositionOk(pad, last) <=> Ends(pad, last)
  BY DEF PositionOk, Ends

LEMMA PaddingLenMeans ==
    ASSUME NEW pad \in Nat, NEW last \in Nat, Ends(pad, last)
    PROVE  /\ PaddingLenOk(pad, last) /\ PaddingLen(pad, last) \in 1..64
           /\ pad + PaddingLen(pad, last) = 64 * last + 56
  <1>1. 64 * last <= pad + 8 /\ pad < 64 * last + 56
    BY DEF Ends
  <1>2. PICK k \in 1..64 : k = PaddingLen(pad, last) /\ k = 64 * last + 56 - pad
    <2>1. 64 * last + 56 - pad \in 1..64
      BY <1>1
    <2>. QED
      BY <2>1 DEF PaddingLen
  <1>a. k = 64 * last + 56 - pad
    BY <1>2
  <1>b. k \in U16 /\ 0 < k /\ k < 65
    <2>1. k \in Nat /\ 1 <= k /\ k <= 64
      BY <1>2
    <2>2. k < 65536
      BY <2>1
    <2>. QED
      BY <2>1, <2>2, Word16
  <1>3. pad + k = 64 * last + 56
    BY <1>a
  <1>4. (k < 57) <=> pad >= 64 * last
    BY <1>a
  <1>. QED
    BY <1>2, <1>b, <1>3, <1>4 DEF PaddingLenOk, InLastBlock

LengthWritten(data, last, total) ==
    \A j \in 1..8 : data[64 * last + 56 + j] = LengthBytes(8 * total)[j]

LEMMA LengthMeans ==
    ASSUME NEW data, NEW last \in Nat, NEW total \in Nat, total < 65536,
           data \in Bytes, 64 * (last + 1) <= Len(data)
    PROVE  LengthEncoded(data, last, total) <=> LengthWritten(data, last, total)
  <1>f. PICK f : f = LengthField(data, last)
    OBVIOUS
  <1>1. \A j \in 1..8 : f[j] = data[64 * last + 56 + j]
    BY <1>f DEF LengthField
  <1>n. PICK n \in Nat : n = 8 * total
    OBVIOUS
  <1>l. PICK l : l = LengthBytes(n)
    OBVIOUS
  <1>2. /\ \A j \in 1..5 : l[j] = 0
        /\ l[6] = (n \div 65536) % 256 /\ l[7] = (n \div 256) % 256 /\ l[8] = n % 256
    <2>1. BigEndian(l, n)
      BY <1>l, LengthBytesAre
    <2>. QED
      BY <2>1 DEF BigEndian
  <1>3. f[6] \in Byte /\ f[7] \in Byte /\ f[8] \in Byte
    <2>1. PICK h \in Nat : h = Len(data)
      BY ByteSeq
    <2>2. 64 * (last + 1) <= h
      BY <2>1
    <2>3. \A j \in 1..8 : 64 * last + 56 + j \in 1..h
      BY <2>2
    <2>4. \A i \in 1..h : data[i] \in Byte
      BY <2>1, ByteSeq
    <2>5. ASSUME NEW j \in 1..8 PROVE f[j] \in Byte
      <3>1. PICK i \in 1..h : i = 64 * last + 56 + j
        BY <2>3
      <3>2. f[j] = data[i]
        BY <1>f, <3>1 DEF LengthField
      <3>. QED
        BY <2>4, <3>2
    <2>. QED
      BY <2>5
  <1>4. 65536 * f[6] + 256 * f[7] + f[8] = n <=> f[6] = l[6] /\ f[7] = l[7] /\ f[8] = l[8]
    <2>1. PICK a \in Byte, b \in Byte, c \in Byte : a = f[6] /\ b = f[7] /\ c = f[8]
      BY <1>3
    <2>2. n < 16777216
      BY <1>n
    <2>3. 65536 * a + 256 * b + c = n <=>
             a = (n \div 65536) % 256 /\ b = (n \div 256) % 256 /\ c = n % 256
      BY <2>2, LengthDigits
    <2>. QED
      BY <1>2, <2>1, <2>3
  <1>5. LengthEncoded(data, last, total) <=>
           (\A j \in 1..5 : f[j] = 0) /\ 65536 * f[6] + 256 * f[7] + f[8] = n
    BY <1>f, <1>n DEF LengthEncoded
  <1>6. (\A j \in 1..8 : f[j] = l[j]) <=> (\A j \in 1..5 : f[j] = 0) /\ f[6] = l[6] /\ f[7] = l[7] /\ f[8] = l[8]
    BY <1>2
  <1>7. (\A j \in 1..8 : f[j] = l[j]) <=> \A j \in 1..8 : data[64 * last + 56 + j] = LengthBytes(8 * total)[j]
    BY <1>1, <1>n, <1>l
  <1>. QED
    BY <1>4, <1>5, <1>6, <1>7 DEF LengthWritten

LEMMA RegionMeans ==
    ASSUME NEW data, NEW last \in Nat, NEW pad \in Nat, Ends(pad, last),
           data \in Bytes, 64 * (last + 1) <= Len(data)
    PROVE  PadRegionOk(data, pad, PaddingLen(pad, last)) <=>
              data[pad + 1] = Marker /\ \A i \in (pad + 2)..(64 * last + 56) : data[i] = 0
  <1>1. PICK k \in 1..64 : k = PaddingLen(pad, last) /\ pad + k = 64 * last + 56
    BY PaddingLenMeans
  <1>2. PICK n \in Nat : n = Len(data) /\ 64 * (last + 1) <= n
    BY ByteSeq
  <1>a. pad + k = 64 * last + 56
    BY <1>1
  <1>b. 64 * (last + 1) <= n
    BY <1>2
  <1>3. SliceOk(data, pad, k)
    <2>1. pad <= n - 1 /\ pad + k <= n
      BY <1>a, <1>b
    <2>. QED
      BY <1>2, <2>1 DEF SliceOk
  <1>s. PICK s : s = PadRegion(data, pad, k)
    OBVIOUS
  <1>4. ASSUME NEW h \in 1..64, h <= k
        PROVE  s[h] = data[pad + h]
    BY <1>s, <1>4 DEF PadRegion
  <1>z. ASSUME NEW h \in 1..64, ~(h <= k)
        PROVE  s[h] = 0
    BY <1>s, <1>z DEF PadRegion
  <1>5. s[1] = data[pad + 1]
    <2>1. 1 \in 1..64 /\ 1 <= k
      OBVIOUS
    <2>. QED
      BY <1>4, <2>1
  <1>6. ASSUME \A i \in 2..64 : s[i] = 0, NEW i \in (pad + 2)..(64 * last + 56)
        PROVE  data[i] = 0
    <2>1. PICK h \in 2..64 : h = i - pad /\ h <= k /\ pad + h = i
      <3>1. i - pad \in 2..64 /\ i - pad <= k /\ pad + (i - pad) = i
        BY <1>a
      <3>. QED
        BY <3>1
    <2>2. s[h] = data[pad + h]
      <3>1. h \in 1..64 /\ h <= k
        BY <2>1
      <3>. QED
        BY <1>4, <3>1
    <2>. QED
      BY <1>6, <2>1, <2>2
  <1>7. ASSUME \A i \in (pad + 2)..(64 * last + 56) : data[i] = 0, NEW h \in 2..64
        PROVE  s[h] = 0
    <2>1. CASE h <= k
      <3>1. pad + h \in (pad + 2)..(64 * last + 56)
        BY <1>a, <2>1
      <3>2. h \in 1..64
        OBVIOUS
      <3>3. data[pad + h] = 0
        BY <1>7, <3>1
      <3>. QED
        BY <1>4, <2>1, <3>2, <3>3
    <2>2. CASE ~(h <= k)
      <3>1. h \in 1..64
        OBVIOUS
      <3>. QED
        BY <1>z, <2>2, <3>1
    <2>. QED
      BY <2>1, <2>2
  <1>8. (\A h \in 2..64 : s[h] = 0) <=> \A i \in (pad + 2)..(64 * last + 56) : data[i] = 0
    BY <1>6, <1>7
  <1>9. PadRegionOk(data, pad, k) <=> s[1] = Marker /\ \A h \in 2..64 : s[h] = 0
    BY <1>3, <1>s DEF PadRegionOk
  <1>. QED
    BY <1>1, <1>5, <1>8, <1>9

Filled(data, last, total, pad) ==
    /\ Ends(pad, last) /\ 64 * (last + 1) <= Len(data)
    /\ Layout(data, last, total, pad)
    /\ TrailingZeros(data, last)

\* The verifier's constraints, put together.
LEMMA VerifierReads ==
    ASSUME NEW data, NEW last, NEW total, NEW pad, Buffer(data, last, total, pad)
    PROVE  PaddingOk(data, last, total, pad) <=> Filled(data, last, total, pad)
  <1>1. last \in Nat /\ total \in Nat /\ pad \in Nat /\ total < 65536
    BY BufferBlocks
  <1>2. PICK m \in Nat : Len(data) = 64 * m /\ MaxBlocks(data) = m
    <2>1. MaxBlocks(data) \in Nat /\ Len(data) = 64 * MaxBlocks(data)
      BY BufferBlocks
    <2>. QED
      BY <2>1
  <1>3. data \in Bytes /\ Len(data) % 64 = 0
    BY DEF Buffer
  <1>4. last \in 0..(MaxBlocks(data) - 1) <=> 64 * (last + 1) <= Len(data)
    <2>1. last \in 0..(m - 1) <=> 64 * (last + 1) <= 64 * m
      BY <1>1
    <2>. QED
      BY <1>2, <2>1
  <1>5. PositionOk(pad, last) <=> Ends(pad, last)
    BY <1>1, PositionMeans
  <1>6. ASSUME Ends(pad, last), 64 * (last + 1) <= Len(data)
        PROVE  LengthEncoded(data, last, total) /\ PaddingLenOk(pad, last)
                  /\ PadRegionOk(data, pad, PaddingLen(pad, last))
               <=> Layout(data, last, total, pad)
    <2>1. PaddingLenOk(pad, last)
      BY <1>1, <1>6, PaddingLenMeans
    <2>2. LengthEncoded(data, last, total) <=> LengthWritten(data, last, total)
      BY <1>1, <1>3, <1>6, LengthMeans
    <2>3. PadRegionOk(data, pad, PaddingLen(pad, last)) <=>
             data[pad + 1] = Marker /\ \A i \in (pad + 2)..(64 * last + 56) : data[i] = 0
      BY <1>1, <1>3, <1>6, RegionMeans
    <2>. QED
      BY <2>1, <2>2, <2>3 DEF Layout, LengthWritten
  <1>. QED
    BY <1>3, <1>4, <1>5, <1>6 DEF PaddingOk, Filled

\* The layout is of the bytes up to the end of the length, and fixes them.
LEMMA LayoutOfBytes ==
    ASSUME NEW p, NEW d, NEW last \in Nat, NEW pad \in Nat, NEW total \in Nat, Ends(pad, last),
           \A i \in 1..(64 * (last + 1)) : p[i] = d[i], Layout(p, last, total, pad)
    PROVE  Layout(d, last, total, pad)
  <1>1. PICK e \in Nat : e = 64 * (last + 1) /\ pad < 64 * last + 56
    BY DEF Ends
  <1>2. \A i \in 1..e : p[i] = d[i]
    BY <1>1
  <1>3. d[pad + 1] = Marker
    <2>1. pad + 1 \in 1..e
      BY <1>1
    <2>. QED
      BY <1>2, <2>1 DEF Layout
  <1>4. ASSUME NEW i \in (pad + 2)..(64 * last + 56) PROVE d[i] = 0
    <2>1. i \in 1..e
      BY <1>1
    <2>2. p[i] = 0
      BY DEF Layout
    <2>. QED
      BY <1>2, <2>1, <2>2
  <1>5. ASSUME NEW j \in 1..8 PROVE d[64 * last + 56 + j] = LengthBytes(8 * total)[j]
    <2>1. PICK i \in 1..e : i = 64 * last + 56 + j
      <3>1. 64 * last + 56 + j \in 1..e
        BY <1>1
      <3>. QED
        BY <3>1
    <2>2. p[i] = LengthBytes(8 * total)[j]
      BY <2>1 DEF Layout
    <2>3. d[i] = p[i]
      BY <1>2
    <2>. QED
      BY <2>1, <2>2, <2>3
  <1>. QED
    BY <1>3, <1>4, <1>5 DEF Layout

LEMMA LayoutFixes ==
    ASSUME NEW p, NEW d, NEW last \in Nat, NEW pad \in Nat, NEW total \in Nat, Ends(pad, last),
           \A i \in 1..pad : p[i] = d[i], Layout(p, last, total, pad), Layout(d, last, total, pad),
           NEW i \in 1..(64 * (last + 1))
    PROVE  p[i] = d[i]
  <1>1. CASE i <= pad
    <2>1. i \in 1..pad
      BY <1>1
    <2>. QED
      BY <2>1
  <1>2. CASE i = pad + 1
    BY <1>2 DEF Layout
  <1>3. CASE i \in (pad + 2)..(64 * last + 56)
    BY <1>3 DEF Layout
  <1>4. CASE i > 64 * last + 56
    <2>1. PICK j \in 1..8 : i = 64 * last + 56 + j
      <3>1. i - (64 * last + 56) \in 1..8 /\ i = 64 * last + 56 + (i - (64 * last + 56))
        BY <1>4
      <3>. QED
        BY <3>1
    <2>2. p[i] = LengthBytes(8 * total)[j]
      BY <2>1 DEF Layout
    <2>3. d[i] = LengthBytes(8 * total)[j]
      BY <2>1 DEF Layout
    <2>. QED
      BY <2>2, <2>3
  <1>5. i <= pad \/ i = pad + 1 \/ i \in (pad + 2)..(64 * last + 56) \/ i > 64 * last + 56
    OBVIOUS
  <1>. QED
    BY <1>1, <1>2, <1>3, <1>4, <1>5

\* Up to its length a filled buffer is the host's padded message.
LEMMA Fills ==
    ASSUME NEW data, data \in Bytes, NEW last \in Nat, NEW pad \in Nat, NEW total \in Nat,
           Ends(pad, last), 64 * (last + 1) <= Len(data)
    PROVE  /\ SubSeq(data, 1, pad) \in Bytes /\ Len(SubSeq(data, 1, pad)) = pad
           /\ Len(Sha256PadWithLen(SubSeq(data, 1, pad), total)) = 64 * (last + 1)
           /\ Layout(data, last, total, pad) <=>
                 SubSeq(data, 1, 64 * (last + 1)) = Sha256PadWithLen(SubSeq(data, 1, pad), total)
  <1>1. PICK e \in Nat : e = 64 * (last + 1) /\ e <= Len(data)
    OBVIOUS
  <1>2. pad < e
    BY <1>1 DEF Ends
  <1>3. PICK n \in Nat : n = Len(data)
    BY ByteSeq
  <1>4. pad <= Len(data)
    BY <1>1, <1>2, <1>3
  <1>5. PICK x : x = SubSeq(data, 1, pad) /\ x \in Bytes /\ Len(x) = pad
    BY <1>4, CutInTwo
  <1>6. \A i \in 1..pad : x[i] = data[i]
    BY <1>4, <1>5, CutInTwo
  <1>7. PICK a : a = SubSeq(data, 1, e) /\ a \in Bytes /\ Len(a) = e
    BY <1>1, CutInTwo
  <1>8. \A i \in 1..e : a[i] = data[i]
    BY <1>1, <1>7, CutInTwo
  <1>9. PICK p : p = Sha256PadWithLen(x, total)
    OBVIOUS
  <1>10. p \in Bytes /\ Len(p) = e /\ (\A i \in 1..pad : p[i] = x[i]) /\ Layout(p, last, total, pad)
    <2>1. Ends(Len(x), last)
      BY <1>5
    <2>2. /\ Sha256PadWithLen(x, total) \in Bytes
          /\ Len(Sha256PadWithLen(x, total)) = 64 * (last + 1)
          /\ \A i \in 1..Len(x) : Sha256PadWithLen(x, total)[i] = x[i]
          /\ Layout(Sha256PadWithLen(x, total), last, total, Len(x))
      BY <1>5, <2>1, PaddedLayout
    <2>. QED
      BY <1>1, <1>5, <1>9, <2>2
  <1>11. ASSUME Layout(data, last, total, pad) PROVE a = p
    <2>1. \A i \in 1..pad : p[i] = data[i]
      BY <1>6, <1>10
    <2>2. \A i \in 1..e : p[i] = data[i]
      BY <1>1, <1>10, <1>11, <2>1, LayoutFixes
    <2>3. \A i \in 1..e : a[i] = p[i]
      BY <1>8, <2>2
    <2>. QED
      BY <1>7, <1>10, <2>3, Same
  <1>12. ASSUME a = p PROVE Layout(data, last, total, pad)
    <2>1. \A i \in 1..e : p[i] = data[i]
      BY <1>8, <1>12
    <2>. QED
      BY <1>1, <1>10, <2>1, LayoutOfBytes
  <1>. QED
    BY <1>1, <1>5, <1>7, <1>9, <1>10, <1>11, <1>12

\* A buffer is a stretched text when it begins with it and goes on with zeros.
LEMMA StretchMeans ==
    ASSUME NEW p, NEW d, p \in Bytes, d \in Bytes, Len(p) <= Len(d)
    PROVE  d = Stretch(p, Len(d)) <=>
              SubSeq(d, 1, Len(p)) = p /\ \A k \in 1..Len(d) : k > Len(p) => d[k] = 0
  <1>1. PICK m \in Nat, n \in Nat : m = Len(p) /\ n = Len(d) /\ m <= n
    BY ByteSeq
  <1>2. PICK z : z = Zeros(n - m) /\ z \in Bytes /\ Len(z) = n - m /\ \A k \in 1..(n - m) : z[k] = 0
    <2>1. n - m \in Nat
      BY <1>1
    <2>. QED
      BY <2>1, ZerosAre
  <1>3. PICK s : s = Stretch(p, n)
    OBVIOUS
  <1>4. s = p \o z
    <2>1. CASE m < n
      BY <1>1, <1>2, <1>3, <2>1 DEF Stretch
    <2>2. CASE ~(m < n)
      <3>1. Len(z) = 0
        BY <1>1, <1>2, <2>2
      <3>2. p \o z = p
        BY <1>2, <3>1, NoBytes
      <3>. QED
        BY <1>1, <1>3, <2>2, <3>2 DEF Stretch
    <2>. QED
      BY <2>1, <2>2
  <1>5. /\ s \in Bytes /\ Len(s) = n
        /\ \A i \in 1..n : s[i] = IF i <= m THEN p[i] ELSE z[i - m]
    <2>1. /\ p \o z \in Bytes /\ Len(p \o z) = Len(p) + Len(z)
          /\ \A i \in 1..(Len(p) + Len(z)) : (p \o z)[i] = IF i <= Len(p) THEN p[i] ELSE z[i - Len(p)]
      BY <1>2, Joined
    <2>2. Len(p) + Len(z) = n
      <3>1. m + (n - m) = n
        OBVIOUS
      <3>. QED
        BY <1>1, <1>2, <3>1
    <2>. QED
      BY <1>1, <1>4, <2>1, <2>2
  <1>6. \A i \in 1..m : s[i] = p[i]
    BY <1>1, <1>5
  <1>7. ASSUME NEW i \in 1..n, i > m PROVE s[i] = 0
    <2>1. ~(i <= m) /\ i - m \in 1..(n - m)
      BY <1>1, <1>7
    <2>. QED
      BY <1>2, <1>5, <2>1
  <1>8. PICK a : a = SubSeq(d, 1, m) /\ a \in Bytes /\ Len(a) = m
    <2>1. m <= Len(d)
      BY <1>1
    <2>2. SubSeq(d, 1, m) \in Bytes /\ Len(SubSeq(d, 1, m)) = m
      BY <2>1, CutInTwo
    <2>. QED
      BY <2>2
  <1>9. \A i \in 1..m : a[i] = d[i]
    BY <1>1, <1>8, CutInTwo
  <1>10. ASSUME d = s PROVE a = p /\ \A k \in 1..n : k > m => d[k] = 0
    <2>1. \A i \in 1..m : a[i] = p[i]
      BY <1>6, <1>9, <1>10
    <2>2. a = p
      BY <1>1, <1>8, <2>1, Same
    <2>. QED
      BY <1>7, <1>10, <2>2
  <1>11. ASSUME a = p, \A k \in 1..n : k > m => d[k] = 0 PROVE d = s
    <2>1. ASSUME NEW i \in 1..n PROVE d[i] = s[i]
      <3>1. CASE i <= m
        <4>1. i \in 1..m
          BY <3>1
        <4>. QED
          BY <1>6, <1>9, <1>11, <4>1
      <3>2. CASE i > m
        BY <1>7, <1>11, <3>2
      <3>3. i <= m \/ i > m
        BY <1>1
      <3>. QED
        BY <3>1, <3>2, <3>3
    <2>. QED
      BY <1>1, <1>5, <2>1, Same
  <1>. QED
    BY <1>1, <1>3, <1>8, <1>10, <1>11

\* The host's filling of a buffer.
HostFills(data, last, total, pad) ==
    /\ pad <= Len(data) /\ last = Sha256BlockLen(pad) - 1
    /\ data = Stretch(Sha256PadWithLen(SubSeq(data, 1, pad), total), Len(data))

LEMMA FilledByHost ==
    ASSUME NEW data, NEW last, NEW total, NEW pad, Buffer(data, last, total, pad)
    PROVE  Filled(data, last, total, pad) <=> HostFills(data, last, total, pad)
  <1>1. last \in Nat /\ total \in Nat /\ pad \in Nat
    BY BufferBlocks
  <1>2. data \in Bytes
    BY DEF Buffer
  <1>3. PICK n \in Nat : n = Len(data)
    BY <1>2, ByteSeq
  <1>4. PICK e \in Nat : e = 64 * (last + 1)
    BY <1>1
  <1>5. PICK x : x = SubSeq(data, 1, pad)
    OBVIOUS
  <1>6. PICK p : p = Sha256PadWithLen(x, total)
    OBVIOUS
  <1>7. TrailingZeros(data, last) <=> \A k \in 1..n : k > e => data[k] = 0
    BY <1>3, <1>4 DEF TrailingZeros
  <1>8. ASSUME Ends(pad, last), e <= n
        PROVE  /\ Layout(data, last, total, pad) /\ TrailingZeros(data, last) <=> data = Stretch(p, n)
               /\ pad <= n
    <2>1. 64 * (last + 1) <= Len(data)
      BY <1>3, <1>4, <1>8
    <2>2. /\ x \in Bytes /\ Len(p) = e
          /\ Layout(data, last, total, pad) <=> SubSeq(data, 1, e) = p
      <3>1. /\ SubSeq(data, 1, pad) \in Bytes
            /\ Len(Sha256PadWithLen(SubSeq(data, 1, pad), total)) = 64 * (last + 1)
            /\ Layout(data, last, total, pad) <=>
                  SubSeq(data, 1, 64 * (last + 1)) = Sha256PadWithLen(SubSeq(data, 1, pad), total)
        BY <1>1, <1>2, <1>8, <2>1, Fills
      <3>. QED
        BY <1>4, <1>5, <1>6, <3>1
    <2>3. p \in Bytes
      BY <1>1, <1>6, <2>2, PaddedWhole
    <2>4. Len(p) <= Len(data)
      BY <1>3, <1>8, <2>2
    <2>5. data = Stretch(p, Len(data)) <=>
             SubSeq(data, 1, Len(p)) = p /\ \A k \in 1..Len(data) : k > Len(p) => data[k] = 0
      BY <1>2, <2>3, <2>4, StretchMeans
    <2>6. data = Stretch(p, n) <=> SubSeq(data, 1, e) = p /\ \A k \in 1..n : k > e => data[k] = 0
      BY <1>3, <2>2, <2>5
    <2>7. pad <= n
      BY <1>1, <1>4, <1>8 DEF Ends
    <2>. QED
      BY <1>7, <2>2, <2>6, <2>7
  <1>9. last = Sha256BlockLen(pad) - 1 <=> Ends(pad, last)
    BY <1>1, EndsIn
  <1>10. ASSUME pad <= n, Ends(pad, last), data = Stretch(p, n) PROVE e <= n
    <2>1. x \in Bytes /\ Len(x) = pad
      BY <1>1, <1>2, <1>3, <1>5, <1>10, CutInTwo
    <2>2. Ends(Len(x), last)
      BY <1>10, <2>1
    <2>3. p \in Bytes /\ Len(p) = e
      BY <1>1, <1>4, <1>6, <2>1, <2>2, PaddedLayout
    <2>4. SUFFICES ASSUME e > n PROVE FALSE
      BY <1>3, <1>4
    <2>5. Stretch(p, n) = p
      BY <1>3, <2>3, <2>4 DEF Stretch
    <2>. QED
      BY <1>3, <1>10, <2>3, <2>4, <2>5
  <1>11. Filled(data, last, total, pad) <=>
            Ends(pad, last) /\ e <= n /\ Layout(data, last, total, pad) /\ TrailingZeros(data, last)
    BY <1>3, <1>4 DEF Filled
  <1>12. HostFills(data, last, total, pad) <=> pad <= n /\ Ends(pad, last) /\ data = Stretch(p, n)
    BY <1>3, <1>5, <1>6, <1>9 DEF HostFills
  <1>. QED
    BY <1>8, <1>10, <1>11, <1>12

LEMMA FirstOf ==
    ASSUME NEW S, NEW s \in Seq(S), NEW u \in Seq(S)
    PROVE  SubSeq(s \o u, 1, Len(s)) = s
  <1>1. PICK n \in Nat : n = Len(s)
    BY LenProperties
  <1>2. /\ s \o u \in Seq(S)
        /\ \A i \in 1..n : (s \o u)[i] = s[i] /\ (s \o u)[i] \in S
    <2>1. /\ s \o u \in Seq(S) /\ Len(s \o u) = Len(s) + Len(u)
          /\ \A i \in 1..(Len(s) + Len(u)) : (s \o u)[i] = IF i <= Len(s) THEN s[i] ELSE u[i - Len(s)]
      BY ConcatProperties
    <2>2. Len(u) \in Nat
      BY LenProperties
    <2>3. \A i \in 1..n : i \in 1..(Len(s) + Len(u)) /\ i <= Len(s) /\ i \in 1..Len(s)
      BY <1>1, <2>2
    <2>4. \A i \in 1..n : s[i] \in S
      BY <1>1, ElementOfSeq
    <2>. QED
      BY <2>1, <2>3, <2>4
  <1>3. PICK z : z = s \o u /\ \A i \in 1..n : z[i] = s[i] /\ z[i] \in S
    BY <1>2
  <1>4. /\ SubSeq(z, 1, n) \in Seq(S) /\ Len(SubSeq(z, 1, n)) = IF 1 <= n THEN n - 1 + 1 ELSE 0
        /\ \A i \in 1..(n - 1 + 1) : SubSeq(z, 1, n)[i] = z[1 + i - 1]
    <2>1. 1 \in Int /\ n \in Int
      OBVIOUS
    <2>2. \A i \in 1..n : z[i] \in S
      BY <1>3
    <2>. QED
      BY <2>1, <2>2, SubSeqProperties
  <1>5. Len(SubSeq(z, 1, n)) = n /\ \A i \in 1..n : SubSeq(z, 1, n)[i] = z[i]
    BY <1>4
  <1>6. \A i \in 1..n : SubSeq(z, 1, n)[i] = s[i]
    BY <1>3, <1>5
  <1>7. SubSeq(z, 1, n) = s
    BY <1>1, <1>4, <1>5, <1>6, SeqEqual
  <1>. QED
    BY <1>1, <1>3, <1>7

\* The state after block `last` is that of the padded message.
LEMMA Digested ==
    ASSUME NEW data, NEW last, NEW total, NEW pad, Buffer(data, last, total, pad),
           Filled(data, last, total, pad)
    PROVE  SubSeq(Blocks(data), 1, last + 1) = Blocks(Sha256PadWithLen(SubSeq(data, 1, pad), total))
  <1>1. last \in Nat /\ total \in Nat /\ pad \in Nat
    BY BufferBlocks
  <1>2. data \in Bytes /\ Ends(pad, last) /\ 64 * (last + 1) <= Len(data) /\ Layout(data, last, total, pad)
    BY DEF Buffer, Filled
  <1>3. PICK e \in Nat : e = 64 * (last + 1) /\ e <= Len(data)
    BY <1>1, <1>2
  <1>4. PICK a, b : a = SubSeq(data, 1, e) /\ b = SubSeq(data, e + 1, Len(data))
    OBVIOUS
  <1>5. a \in Bytes /\ Len(a) = e /\ b \in Bytes /\ data = a \o b
    BY <1>2, <1>3, <1>4, CutInTwo
  <1>6. a = Sha256PadWithLen(SubSeq(data, 1, pad), total)
    BY <1>1, <1>2, <1>3, <1>4, Fills
  <1>7. e % 64 = 0 /\ e \div 64 = last + 1
    <2>1. last + 1 \in Nat /\ 0 \in 0..63 /\ e = 64 * (last + 1) + 0
      BY <1>1, <1>3
    <2>. QED
      BY <2>1, WholeOf
  <1>8. Blocks(data) = Blocks(a) \o Blocks(b)
    BY <1>5, <1>7, BlocksJoined
  <1>9. Blocks(a) \in Seq(Bytes) /\ Blocks(b) \in Seq(Bytes) /\ Len(Blocks(a)) = last + 1
    BY <1>5, <1>7, BlocksAre
  <1>10. SubSeq(Blocks(a) \o Blocks(b), 1, Len(Blocks(a))) = Blocks(a)
    BY <1>9, FirstOf
  <1>. QED
    BY <1>6, <1>8, <1>9, <1>10

LEMMA NothingWaits ==
    ASSUME NEW g, NEW seed \in Nat, NEW x, Holds(g, seed, x), g.numPending = 0
    PROVE  x \in Bytes /\ Len(x) % 64 = 0 /\ g.state = Blocks(x)
  <1>1. PICK w, t : Fed(g, seed, w, t) /\ x = w \o t
    BY DEF Holds
  <1>2. w \in Bytes /\ t \in Bytes /\ Len(t) = 0 /\ Len(w) % 64 = 0 /\ g.state = Blocks(w)
    BY <1>1 DEF Fed, Begins
  <1>3. x = w
    BY <1>1, <1>2, NoBytes
  <1>. QED
    BY <1>2, <1>3

\* A message after whole blocks is padded as it is without them.
LEMMA PaddedAfter ==
    ASSUME NEW w, NEW x, w \in Bytes, x \in Bytes, Len(w) % 64 = 0, NEW length \in Nat
    PROVE  /\ Sha256PadWithLen(w \o x, length) = w \o Sha256PadWithLen(x, length)
           /\ Blocks(Sha256PadWithLen(w \o x, length)) = Blocks(w) \o Blocks(Sha256PadWithLen(x, length))
  <1>1. PICK n \in Nat : n = Len(x)
    BY ByteSeq
  <1>2. PICK c \in Nat : Len(w) = 64 * c
    <2>1. PICK m \in Nat : m = Len(w)
      BY ByteSeq
    <2>2. PICK c \in Nat, s \in 0..63 : c = m \div 64 /\ m = 64 * c + s
      BY Divided
    <2>3. s = 0
      BY <2>1, <2>2, WholeOf
    <2>. QED
      BY <2>1, <2>2, <2>3
  <1>3. w \o x \in Bytes /\ Len(w \o x) = 64 * c + n
    BY <1>1, <1>2, Joined
  <1>4. PICK z \in Nat : z = ZeroPadLen(n) /\ z = ZeroPadLen(64 * c + n)
    <2>1. PICK q \in Nat, r \in 0..63 : n = 64 * q + r
      BY Divided
    <2>2. /\ ZeroPadLen(64 * q + r) = IF r < 56 THEN 55 - r ELSE 119 - r
          /\ ZeroPadLen(64 * q + r) \in 0..63
      BY ZerosToPad
    <2>3. PICK h \in Nat : h = c + q
      OBVIOUS
    <2>4. /\ ZeroPadLen(64 * h + r) = IF r < 56 THEN 55 - r ELSE 119 - r
      BY ZerosToPad
    <2>5. 64 * c + n = 64 * h + r
      BY <2>1, <2>3
    <2>. QED
      BY <2>1, <2>2, <2>4, <2>5
  <1>5. PICK e : e = Ending(z, length) /\ e \in Bytes
    BY EndingIs
  <1>6. Sha256PadWithLen(x, length) = x \o e
    BY <1>1, <1>4, <1>5, PaddedIs
  <1>7. Sha256PadWithLen(w \o x, length) = (w \o x) \o e
    BY <1>3, <1>4, <1>5, PaddedIs
  <1>e. e \in Bytes
    BY <1>5
  <1>8. (w \o x) \o e = w \o (x \o e)
    BY <1>e, Regrouped
  <1>9. x \o e \in Bytes
    BY <1>5, Joined
  <1>10. Blocks(w \o (x \o e)) = Blocks(w) \o Blocks(x \o e)
    BY <1>9, BlocksJoined
  <1>. QED
    BY <1>6, <1>7, <1>8, <1>10

LEMMA MessageHeld ==
    ASSUME NEW data, NEW last, NEW total, NEW pad, Buffer(data, last, total, pad),
           Filled(data, last, total, pad)
    PROVE  SubSeq(data, 1, pad) \in Bytes /\ Len(SubSeq(data, 1, pad)) = pad
  <1>1. last \in Nat /\ total \in Nat /\ pad \in Nat
    BY BufferBlocks
  <1>2. data \in Bytes /\ Ends(pad, last) /\ 64 * (last + 1) <= Len(data)
    BY DEF Buffer, Filled
  <1>3. PICK n \in Nat : n = Len(data) /\ 64 * (last + 1) <= n
    BY <1>2, ByteSeq
  <1>4. pad < 64 * last + 56
    BY <1>2 DEF Ends
  <1>5. pad <= n
    BY <1>1, <1>3, <1>4
  <1>. QED
    BY <1>1, <1>2, <1>3, <1>5, CutInTwo

\* A buffer the verifier accepts: its digests.
LEMMA SuffixDigest ==
    ASSUME NEW g, NEW seed \in Nat, NEW x, Holds(g, seed, x), g.numPending = 0,
           NEW data, NEW last, NEW total, NEW pad, Buffer(data, last, total, pad),
           Filled(data, last, total, pad), total = Len(x) + pad
    PROVE  DigestWithPad(g.state, data, last) = Digest(x \o SubSeq(data, 1, pad))
  <1>1. x \in Bytes /\ Len(x) % 64 = 0 /\ g.state = Blocks(x)
    BY NothingWaits
  <1>2. last \in Nat /\ total \in Nat /\ pad \in Nat
    BY BufferBlocks
  <1>3. data \in Bytes /\ Ends(pad, last) /\ 64 * (last + 1) <= Len(data)
    BY DEF Buffer, Filled
  <1>4. PICK y : y = SubSeq(data, 1, pad) /\ y \in Bytes /\ Len(y) = pad
    BY MessageHeld
  <1>5. SubSeq(Blocks(data), 1, last + 1) = Blocks(Sha256PadWithLen(y, total))
    BY <1>4, Digested
  <1>6. x \o y \in Bytes /\ Len(x \o y) = total
    <2>1. x \o y \in Bytes /\ Len(x \o y) = Len(x) + Len(y)
      BY <1>1, <1>4, Joined
    <2>. QED
      BY <1>4, <2>1
  <1>7. Blocks(Sha256PadWithLen(x \o y, total)) = Blocks(x) \o Blocks(Sha256PadWithLen(y, total))
    BY <1>1, <1>2, <1>4, PaddedAfter
  <1>. QED
    BY <1>1, <1>4, <1>5, <1>6, <1>7 DEF Digest, DigestWithPad

LEMMA FullDigest ==
    ASSUME NEW data, NEW last, NEW total, NEW pad, Buffer(data, last, total, pad),
           Filled(data, last, total, pad), total = pad
    PROVE  DigestWithPad(H, data, last) = Digest(SubSeq(data, 1, pad))
  <1>2. last \in Nat /\ total \in Nat /\ pad \in Nat
    BY BufferBlocks
  <1>3. data \in Bytes /\ Ends(pad, last) /\ 64 * (last + 1) <= Len(data)
    BY DEF Buffer, Filled
  <1>4. PICK y : y = SubSeq(data, 1, pad) /\ y \in Bytes /\ Len(y) = pad
    BY MessageHeld
  <1>5. SubSeq(Blocks(data), 1, last + 1) = Blocks(Sha256PadWithLen(y, total))
    BY <1>4, Digested
  <1>6. Sha256PadWithLen(y, total) \in Bytes
    BY <1>2, <1>4, PaddedWhole
  <1>7. Blocks(Sha256PadWithLen(y, total)) \in Seq(Bytes)
    BY <1>6, BlocksAre
  <1>8. <<>> \o Blocks(Sha256PadWithLen(y, total)) = Blocks(Sha256PadWithLen(y, total))
    BY <1>7, ConcatEmptySeq
  <1>. QED
    BY <1>4, <1>5, <1>8 DEF Digest, DigestWithPad, H

\* The two verifiers accept what the host fills, with its witnesses.
LEMMA VerifiedIsHosts ==
    ASSUME NEW args \in Buffers
    PROVE  /\ Buffer(args.data, args.last, args.total, args.pad)
           /\ PadVerifierOk(args.data, args.last, args.prefix, args.total, args.pad)
                 /\ DigestWithPadOk(args.data, args.last)
              <=> HostPadding(args)
           /\ args.prefix = 0 =>
                 (PadVerifierFullOk(args.data, args.last, args.total, args.pad)
                     /\ DigestWithPadOk(args.data, args.last)
                  <=> HostPadding(args))
           /\ HostPadding(args) => /\ Filled(args.data, args.last, args.total, args.pad)
                                   /\ args.total = 64 * args.prefix + args.pad
  <1>1. PICK d, l, f, n, p : d = args.data /\ l = args.last /\ f = args.prefix /\ n = args.total /\ p = args.pad
    OBVIOUS
  <1>2. Buffer(d, l, n, p) /\ f \in U16
    BY <1>1, ShaBuffersAssumption DEF Buffer, Bytes
  <1>3. PaddingOk(d, l, n, p) <=> HostFills(d, l, n, p)
    BY <1>2, VerifierReads, FilledByHost
  <1>4. HostFills(d, l, n, p) => Filled(d, l, n, p)
    BY <1>2, FilledByHost
  <1>5. HostPadding(args) <=> HostFills(d, l, n, p) /\ n = 64 * f + p
    BY <1>1 DEF HostPadding, HostFills
  <1>6. PaddingOk(d, l, n, p) => DigestWithPadOk(d, l)
    BY DEF PaddingOk, DigestWithPadOk
  <1>7. PadVerifierOk(d, l, f, n, p) <=> PaddingOk(d, l, n, p) /\ n = 64 * f + p
    BY DEF PadVerifierOk
  <1>8. f = 0 => (PadVerifierFullOk(d, l, n, p) <=> PaddingOk(d, l, n, p) /\ n = 64 * f + p)
    <2>1. p \in Nat /\ n \in Nat
      BY <1>2, BufferBlocks
    <2>2. f = 0 => (n = 64 * f + p <=> p = n)
      BY <2>1
    <2>. QED
      BY <2>2 DEF PadVerifierFullOk
  <1>. QED
    BY <1>1, <1>2, <1>3, <1>4, <1>5, <1>6, <1>7, <1>8

-----------------------------------------------------------------------------
(* Every step.                                                             *)

\* Until it has given a digest, the gadget holds the bytes it was fed.
ShaInv ==
    /\ shaSeed \in Nat
    /\ shaCall = "none" => Holds(sha, shaSeed, shaIn)
    /\ DigestIsOfTheMessage
    /\ PadVerifierExact

LEMMA ShaInitInv == ShaInit => ShaInv
  <1>. SUFFICES ASSUME ShaInit PROVE ShaInv
    OBVIOUS
  <1>1. /\ shaSeed \in Midstates /\ shaIn = SubSeq(Text, 1, 64 * shaSeed)
        /\ sha = NewGadget(Blocks(shaIn)) /\ shaCall = "none"
    BY DEF ShaInit
  <1>2. shaSeed \in Nat
    BY <1>1, ShaMidstatesAssumption
  <1>3. Holds(sha, shaSeed, shaIn)
    BY <1>1, Allocated
  <1>4. DigestIsOfTheMessage /\ PadVerifierExact
    BY <1>1 DEF DigestIsOfTheMessage, PadVerifierExact
  <1>. QED
    BY <1>2, <1>3, <1>4 DEF ShaInv

LEMMA HeldIsBytes ==
    ASSUME NEW g, NEW seed, NEW x, Holds(g, seed, x)
    PROVE  x \in Bytes
  <1>1. PICK w, t : Fed(g, seed, w, t) /\ x = w \o t
    BY DEF Holds
  <1>2. w \in Bytes /\ t \in Bytes
    BY <1>1 DEF Fed, Begins
  <1>. QED
    BY <1>1, <1>2, Joined

LEMMA UpdateKeeps == ShaInv /\ ShaUpdate => ShaInv'
  <1>. SUFFICES ASSUME ShaInv, ShaUpdate PROVE ShaInv'
    OBVIOUS
  <1>1. shaCall = "none" /\ UNCHANGED <<shaOut, shaCall, shaArgs, shaSeed>>
    BY DEF ShaUpdate
  <1>2. PICK n \in ChunkLens :
            /\ Len(shaIn) + n <= Len(Text)
            /\ sha' = Update(sha, SubSeq(Text, Len(shaIn) + 1, Len(shaIn) + n))
            /\ shaIn' = shaIn \o SubSeq(Text, Len(shaIn) + 1, Len(shaIn) + n)
    BY DEF ShaUpdate
  <1>3. shaSeed \in Nat /\ Holds(sha, shaSeed, shaIn)
    BY <1>1 DEF ShaInv
  <1>4. shaIn \in Bytes
    BY <1>3, HeldIsBytes
  <1>5. PICK c : c = SubSeq(Text, Len(shaIn) + 1, Len(shaIn) + n) /\ c \in Bytes
    <2>1. n \in Nat /\ Text \in Bytes
      BY ShaTextAssumption DEF Bytes
    <2>2. PICK k \in Nat : k = Len(shaIn)
      BY <1>4, ByteSeq
    <2>3. k + 1 \in Nat \ {0} /\ k + n \in Nat /\ k + n <= Len(Text) /\ k + 1 <= (k + n) + 1
      BY <1>2, <2>1, <2>2
    <2>4. SubSeq(Text, k + 1, k + n) \in Bytes
      BY <2>1, <2>3, Cut
    <2>. QED
      BY <2>2, <2>4
  <1>6. sha' = Update(sha, c) /\ shaIn' = shaIn \o c
    BY <1>2, <1>5
  <1>7. Holds(Update(sha, c), shaSeed, shaIn \o c)
    BY <1>3, <1>5, Absorbed
  <1>8. Holds(sha', shaSeed', shaIn') /\ shaSeed' \in Nat
    BY <1>1, <1>3, <1>6, <1>7
  <1>9. DigestIsOfTheMessage' /\ PadVerifierExact'
    BY <1>1 DEF DigestIsOfTheMessage, PadVerifierExact
  <1>. QED
    BY <1>8, <1>9 DEF ShaInv

LEMMA FinalizeKeeps == ShaInv /\ ShaFinalize => ShaInv'
  <1>. SUFFICES ASSUME ShaInv, ShaFinalize PROVE ShaInv'
    OBVIOUS
  <1>1. /\ shaCall = "none" /\ shaCall' = "finalize"
        /\ shaOut' = Update(sha, Padding(sha)).state
        /\ shaIn' = shaIn /\ shaSeed' = shaSeed
    BY DEF ShaFinalize
  <1>2. shaSeed \in Nat /\ Holds(sha, shaSeed, shaIn)
    BY <1>1 DEF ShaInv
  <1>3. PICK w, t : Fed(sha, shaSeed, w, t) /\ shaIn = w \o t
    BY <1>2 DEF Holds
  <1>4. shaSeed = 0 => Update(sha, Padding(sha)).state = Digest(w \o t)
    BY <1>2, <1>3, Finalized
  <1>5. shaSeed' = 0 => shaOut' = Digest(shaIn')
    BY <1>1, <1>3, <1>4
  <1>6. DigestIsOfTheMessage' /\ PadVerifierExact'
    BY <1>1, <1>5 DEF DigestIsOfTheMessage, PadVerifierExact
  <1>. QED
    BY <1>1, <1>2, <1>6 DEF ShaInv

LEMMA NativeKeeps == ShaInv /\ ShaFinalizeNative => ShaInv'
  <1>. SUFFICES ASSUME ShaInv, ShaFinalizeNative PROVE ShaInv'
    OBVIOUS
  <1>1. shaCall = "none" /\ sha' = sha /\ shaIn' = shaIn /\ shaSeed' = shaSeed
    BY DEF ShaFinalizeNative
  <1>2. shaSeed \in Nat /\ Holds(sha, shaSeed, shaIn)
    BY <1>1 DEF ShaInv
  <1>3. PICK w, t : Fed(sha, shaSeed, w, t) /\ shaIn = w \o t
    BY <1>2 DEF Holds
  <1>4. PICK r : r = SubSeq(sha.pending, 1, sha.numPending)
    OBVIOUS
  <1>5. r = t
    BY <1>2, <1>3, <1>4, Waiting
  <1>6. \/ /\ FinalizesInOneBlock(r) /\ shaCall' = "native"
           /\ shaOut' = FinalizeWithState(sha.state, r, Len(shaIn))
        \/ ~FinalizesInOneBlock(r) /\ shaCall' = "panic"
    BY <1>4 DEF ShaFinalizeNative
  <1>7. /\ FinalizesInOneBlock(t) => FinalizeWithState(sha.state, t, Len(w \o t)) = Digest(w \o t)
        /\ ~FinalizesInOneBlock(t) => sha.numPending >= 56
    BY <1>2, <1>3, FinalizedNative
  <1>8. CASE FinalizesInOneBlock(r)
    <2>1. shaCall' = "native" /\ shaOut' = Digest(shaIn')
      BY <1>1, <1>3, <1>5, <1>6, <1>7, <1>8
    <2>2. DigestIsOfTheMessage' /\ PadVerifierExact'
      BY <2>1 DEF DigestIsOfTheMessage, PadVerifierExact
    <2>. QED
      BY <1>1, <1>2, <2>1, <2>2 DEF ShaInv
  <1>9. CASE ~FinalizesInOneBlock(r)
    <2>1. shaCall' = "panic" /\ sha'.numPending >= 56
      BY <1>1, <1>5, <1>6, <1>7, <1>9
    <2>2. DigestIsOfTheMessage' /\ PadVerifierExact'
      BY <2>1 DEF DigestIsOfTheMessage, PadVerifierExact
    <2>. QED
      BY <1>1, <1>2, <2>1, <2>2 DEF ShaInv
  <1>. QED
    BY <1>8, <1>9

LEMMA DigestKeeps == ShaInv /\ ShaDigest => ShaInv'
  <1>. SUFFICES ASSUME ShaInv, ShaDigest PROVE ShaInv'
    OBVIOUS
  <1>1. shaCall = "none" /\ sha.numPending = 0 /\ shaIn' = shaIn /\ shaSeed' = shaSeed
    BY DEF ShaDigest
  <1>2. shaSeed \in Nat /\ Holds(sha, shaSeed, shaIn)
    BY <1>1 DEF ShaInv
  <1>3. PICK args \in Buffers :
            DigestSuffix(args) \/ (args.prefix = 0 /\ DigestFull(args))
    BY DEF ShaDigest
  <1>4. shaArgs' = args
    BY <1>3 DEF DigestSuffix, DigestFull
  <1>5. PICK d, l, f, n, p : d = args.data /\ l = args.last /\ f = args.prefix /\ n = args.total /\ p = args.pad
    OBVIOUS
  <1>6. Buffer(d, l, n, p)
    BY <1>5, VerifiedIsHosts
  <1>7. HostPadding(args) => Filled(d, l, n, p) /\ n = 64 * f + p
    BY <1>5, VerifiedIsHosts
  <1>8. CASE DigestSuffix(args)
    <2>1. PadVerifierOk(d, l, f, n, p) /\ DigestWithPadOk(d, l) <=> HostPadding(args)
      BY <1>5, VerifiedIsHosts
    <2>2. CASE HostPadding(args)
      <3>1. shaCall' = "suffix" /\ shaOut' = DigestWithPad(sha.state, d, l)
        BY <1>5, <1>8, <2>1, <2>2 DEF DigestSuffix
      <3>2. ASSUME 64 * f = Len(shaIn)
            PROVE  shaOut' = Digest(shaIn \o SubSeq(d, 1, p))
        <4>1. n = Len(shaIn) + p
          BY <1>7, <2>2, <3>2
        <4>. QED
          BY <1>1, <1>2, <1>6, <1>7, <2>2, <3>1, <4>1, SuffixDigest
      <3>3. Held' = SubSeq(d, 1, p)
        BY <1>4, <1>5 DEF Held
      <3>4. 64 * shaArgs'.prefix = Len(shaIn') => shaOut' = Digest(shaIn' \o Held')
        BY <1>1, <1>4, <1>5, <3>2, <3>3
      <3>5. HostPadding(shaArgs')
        BY <1>4, <2>2
      <3>6. DigestIsOfTheMessage' /\ PadVerifierExact'
        BY <3>1, <3>4, <3>5 DEF DigestIsOfTheMessage, PadVerifierExact
      <3>. QED
        BY <1>1, <1>2, <3>1, <3>6 DEF ShaInv
    <2>3. CASE ~HostPadding(args)
      <3>1. shaCall' = "refused"
        BY <1>5, <1>8, <2>1, <2>3 DEF DigestSuffix
      <3>2. ~HostPadding(shaArgs')
        BY <1>4, <2>3
      <3>3. DigestIsOfTheMessage' /\ PadVerifierExact'
        BY <3>1, <3>2 DEF DigestIsOfTheMessage, PadVerifierExact
      <3>. QED
        BY <1>1, <1>2, <3>1, <3>3 DEF ShaInv
    <2>. QED
      BY <2>2, <2>3
  <1>9. CASE args.prefix = 0 /\ DigestFull(args)
    <2>1. PadVerifierFullOk(d, l, n, p) /\ DigestWithPadOk(d, l) <=> HostPadding(args)
      BY <1>5, <1>9, VerifiedIsHosts
    <2>2. CASE HostPadding(args)
      <3>1. shaCall' = "full" /\ shaOut' = DigestWithPad(H, d, l)
        BY <1>5, <1>9, <2>1, <2>2 DEF DigestFull
      <3>2. n = p
        <4>1. p \in Nat /\ f = 0 /\ n = 64 * f + p
          BY <1>5, <1>6, <1>7, <1>9, <2>2, BufferBlocks
        <4>. QED
          BY <4>1
      <3>3. shaOut' = Digest(SubSeq(d, 1, p))
        BY <1>6, <1>7, <2>2, <3>1, <3>2, FullDigest
      <3>4. shaOut' = Digest(Held')
        BY <1>4, <1>5, <3>3 DEF Held
      <3>5. HostPadding(shaArgs')
        BY <1>4, <2>2
      <3>6. DigestIsOfTheMessage' /\ PadVerifierExact'
        BY <3>1, <3>4, <3>5 DEF DigestIsOfTheMessage, PadVerifierExact
      <3>. QED
        BY <1>1, <1>2, <3>1, <3>6 DEF ShaInv
    <2>3. CASE ~HostPadding(args)
      <3>1. shaCall' = "refused"
        BY <1>5, <1>9, <2>1, <2>3 DEF DigestFull
      <3>2. ~HostPadding(shaArgs')
        BY <1>4, <2>3
      <3>3. DigestIsOfTheMessage' /\ PadVerifierExact'
        BY <3>1, <3>2 DEF DigestIsOfTheMessage, PadVerifierExact
      <3>. QED
        BY <1>1, <1>2, <3>1, <3>3 DEF ShaInv
    <2>. QED
      BY <2>2, <2>3
  <1>. QED
    BY <1>3, <1>8, <1>9

LEMMA ShaStepInv == ShaInv /\ [ShaNext]_shaVars => ShaInv'
  <1>. SUFFICES ASSUME ShaInv, [ShaNext]_shaVars PROVE ShaInv'
    OBVIOUS
  <1>1. CASE ShaNext
    BY <1>1, UpdateKeeps, FinalizeKeeps, NativeKeeps, DigestKeeps DEF ShaNext
  <1>2. CASE UNCHANGED shaVars
    BY <1>2 DEF shaVars, ShaInv, DigestIsOfTheMessage, PadVerifierExact, Held
  <1>. QED
    BY <1>1, <1>2

\* For every text and every way to cut it into updates, and for every padded
\* buffer: the digest the gadget gives, by its own padding, by the host's from
\* its state or by a checked buffer, is the host's digest of the message
\* (finalize, update_with_state and the two digest_*_with_pad_checked).
THEOREM Digests == ShaSpec => []DigestIsOfTheMessage
  <1>1. ShaInv => DigestIsOfTheMessage
    BY DEF ShaInv
  <1>. QED
    BY ShaInitInv, ShaStepInv, <1>1, PTL DEF ShaSpec

\* The verifier of a padding accepts a buffer, of any content and length below
\* 2^16, exactly when the host's padding of the message in it has filled it,
\* with the witnesses the host gives (enforce_sha2_pad_verifier).
THEOREM Verifies == ShaSpec => []PadVerifierExact
  <1>1. ShaInv => PadVerifierExact
    BY DEF ShaInv
  <1>. QED
    BY ShaInitInv, ShaStepInv, <1>1, PTL DEF ShaSpec


-----------------------------------------------------------------------------
(* Induction and powers.                                                   *)

\* Division with remainder.
LEMMA DivMod ==
    ASSUME NEW a \in Nat, NEW b \in Nat \ {0}
    PROVE  /\ a \div b \in Nat /\ a % b \in 0..(b - 1)
           /\ a = b * (a \div b) + (a % b)
  OBVIOUS

\* A nonempty set of naturals has a least member. It stands in for the library's
\* induction, whose theorems take an operator.
LEMMA Least ==
    ASSUME NEW T \in SUBSET Nat, T # {}
    PROVE  \E b \in T : \A k \in T : b <= k
  <1>. DEFINE Upto == {0..b : b \in T}
              R == StrictSubsetOrdering(Nat)
              S == FiniteSubsetsOf(Nat)
  <1>1. IsWellFoundedOn(R, S)
    BY FS_StrictSubsetOrderingWellFounded
  <1>2. Upto \subseteq S
    <2>1. ASSUME NEW b \in T PROVE IsFiniteSet(0..b) /\ 0..b \subseteq Nat
      BY <2>1, FS_Interval
    <2>. QED
      BY <2>1 DEF FiniteSubsetsOf
  <1>3. Upto # {}
    OBVIOUS
  <1>4. \E c \in Upto : \A d \in Upto : ~(<<d, c>> \in R)
    <2>. HIDE DEF R, S, Upto
    <2>. QED
    BY <1>1, <1>2, <1>3, WFMin
  <1>5. PICK b \in T : \A k \in T : ~(<<0..k, 0..b>> \in R)
    BY <1>4
  <1>6. ASSUME NEW k \in T, k < b PROVE FALSE
    <2>1. 0..k \subseteq 0..b /\ 0..k # 0..b
      <3>1. b \in 0..b /\ b \notin 0..k
         BY <1>6
      <3>. QED
         BY <1>6, <3>1
    <2>2. <<0..k, 0..b>> \in R
      BY <2>1 DEF StrictSubsetOrdering
    <2>. QED
      BY <1>5, <2>2
  <1>. QED
    BY <1>6

\* Induction over the naturals, with the set of those for which a fact holds.
LEMMA Induct ==
    ASSUME NEW T, 0 \in T, \A n \in Nat : n \in T => n + 1 \in T
    PROVE  Nat \subseteq T
  <1>. SUFFICES ASSUME NEW z \in Nat, z \notin T PROVE FALSE
    OBVIOUS
  <1>1. PICK b \in Nat \ T : \A k \in Nat \ T : b <= k
    BY Least
  <1>2. b # 0 /\ b - 1 \in Nat
    BY <1>1
  <1>3. b - 1 \in T
    BY <1>1, <1>2
  <1>. QED
    BY <1>1, <1>2, <1>3

-----------------------------------------------------------------------------
(* Powers, one factor at a time.                                           *)

\* f holds the powers of b up to the e-th.
IsPower(f, e, b) == f = [k \in 0..e |-> IF k = 0 THEN 1 ELSE f[k - 1] * b]

\* Two functions of the recursion agree.
LEMMA PowerUnique ==
    ASSUME NEW b, NEW n \in Nat, NEW e \in Nat, NEW f, NEW g,
           IsPower(f, n, b), IsPower(g, e, b), NEW j \in Nat, j <= n, j <= e
    PROVE  f[j] = g[j]
  <1>. DEFINE T == {k \in Nat : k <= n /\ k <= e => f[k] = g[k]}
  <1>1. 0 \in T
    BY DEF IsPower
  <1>2. ASSUME NEW k \in Nat, k \in T PROVE k + 1 \in T
    <2>. SUFFICES ASSUME k + 1 <= n, k + 1 <= e PROVE f[k + 1] = g[k + 1]
      OBVIOUS
    <2>1. f[k] = g[k]
      BY <1>2
    <2>2. f[k + 1] = f[k] * b
      BY DEF IsPower
    <2>3. g[k + 1] = g[k] * b
      BY DEF IsPower
    <2>. QED
      BY <2>1, <2>2, <2>3
  <1>. HIDE DEF T
  <1>3. Nat \subseteq T
    BY <1>1, <1>2, Induct
  <1>. QED
    BY <1>3 DEF T

\* The recursion of NatPower has a solution.
LEMMA PowerExists == ASSUME NEW b, NEW e \in Nat PROVE \E f : IsPower(f, e, b)
  <1>. DEFINE T == {k \in Nat : \E f : IsPower(f, k, b)}
  <1>1. 0 \in T
    <2>. DEFINE f == [k \in 0..0 |-> 1]
    <2>1. IsPower(f, 0, b)
      BY DEF IsPower
    <2>. QED
      BY <2>1
  <1>2. ASSUME NEW k \in Nat, k \in T PROVE k + 1 \in T
    <2>1. PICK f : IsPower(f, k, b)
      BY <1>2
    <2>. DEFINE g == [j \in 0..(k + 1) |-> IF j <= k THEN f[j] ELSE f[k] * b]
    <2>2. ASSUME NEW j \in 0..(k + 1)
          PROVE g[j] = IF j = 0 THEN 1 ELSE g[j - 1] * b
      <3>1. CASE j <= k
        BY <2>1, <3>1 DEF IsPower
      <3>2. CASE j = k + 1
        <4>1. g[j] = f[k] * b /\ j # 0 /\ j - 1 = k
          BY <3>2
        <4>2. g[k] = f[k]
          OBVIOUS
        <4>. QED
          BY <4>1, <4>2
      <3>. QED
        BY <3>1, <3>2
    <2>3. IsPower(g, k + 1, b)
      BY <2>2 DEF IsPower
    <2>. QED
      BY <2>3
  <1>. HIDE DEF T
  <1>3. Nat \subseteq T
    BY <1>1, <1>2, Induct
  <1>. QED
    BY <1>3 DEF T

\* NatPower is the last value of any such function.
LEMMA PowerLast ==
    ASSUME NEW b, NEW e \in Nat, NEW f, IsPower(f, e, b)
    PROVE  NatPower(b, e) = f[e]
  <1>. DEFINE S(g) == g = [k \in 0..e |-> IF k = 0 THEN 1 ELSE g[k - 1] * b]
              power == CHOOSE g : S(g)
  <1>1. NatPower(b, e) = power[e]
    BY DEF NatPower
  <1>2. S(f)
    BY DEF IsPower
  <1>3. S(power)
    <2>. HIDE DEF S
    <2>. QED
      BY <1>2
  <1>4. IsPower(power, e, b)
    <2>. HIDE DEF power
    <2>. QED
      BY <1>3 DEF IsPower
  <1>. HIDE DEF S, power
  <1>5. power[e] = f[e]
    BY <1>4, PowerUnique
  <1>. QED
    BY <1>1, <1>5

\* What NatPower means.
LEMMA PowerStep ==
    ASSUME NEW b, NEW e \in Nat
    PROVE  NatPower(b, 0) = 1 /\ NatPower(b, e + 1) = NatPower(b, e) * b
  <1>1. NatPower(b, 0) = 1
    <2>1. PICK f : IsPower(f, 0, b)
      BY PowerExists
    <2>2. NatPower(b, 0) = f[0]
      BY <2>1, PowerLast
    <2>. QED
      BY <2>1, <2>2 DEF IsPower
  <1>2. PICK f : IsPower(f, e + 1, b)
    BY PowerExists
  <1>3. PICK g : IsPower(g, e, b)
    BY PowerExists
  <1>4. f[e] = g[e]
    BY <1>2, <1>3, PowerUnique
  <1>5. f[e + 1] = f[e] * b
    BY <1>2 DEF IsPower
  <1>6. NatPower(b, e + 1) = f[e + 1] /\ NatPower(b, e) = g[e]
    BY <1>2, <1>3, PowerLast
  <1>. QED
    BY <1>1, <1>4, <1>5, <1>6

\* A power of a positive number is positive.
LEMMA PowerType ==
    ASSUME NEW b \in Nat \ {0}, NEW e \in Nat PROVE NatPower(b, e) \in Nat \ {0}
  <1>. DEFINE T == {k \in Nat : NatPower(b, k) \in Nat \ {0}}
  <1>1. 0 \in T
    BY PowerStep
  <1>2. ASSUME NEW k \in Nat, k \in T PROVE k + 1 \in T
    <2>. DEFINE q == NatPower(b, k)
    <2>1. q \in Nat \ {0} /\ NatPower(b, k + 1) = q * b
      BY <1>2, PowerStep
    <2>. HIDE DEF q
    <2>2. q * b \in Nat \ {0}
      BY <2>1
    <2>. QED
      BY <2>1, <2>2
  <1>. HIDE DEF T
  <1>3. Nat \subseteq T
    BY <1>1, <1>2, Induct
  <1>. QED
    BY <1>3 DEF T

\* Halving once more.
LEMMA HalveAgain ==
    ASSUME NEW x \in Nat, NEW a \in Nat \ {0}
    PROVE  x \div (a * 2) = (x \div a) \div 2
  <1>1. PICK q \in Nat, r \in 0..(a - 1) : q = x \div a /\ x = a * q + r
    <2>1. x \div a \in Nat /\ x % a \in 0..(a - 1) /\ x = a * (x \div a) + (x % a)
      BY DivMod
    <2>. QED
      BY <2>1
  <1>2. PICK u \in Nat, b \in 0..1 : u = q \div 2 /\ q = 2 * u + b
    <2>1. q \div 2 \in Nat /\ q % 2 \in 0..1 /\ q = 2 * (q \div 2) + (q % 2)
      OBVIOUS
    <2>. QED
      BY <2>1
  <1>c. PICK c \in Nat \ {0} : c = a * 2
    OBVIOUS
  <1>3. PICK s \in 0..(c - 1) : s = a * b + r
    <2>1. b = 0 \/ b = 1
      BY <1>2
    <2>2. a * b = 0 \/ a * b = a
      BY <2>1
    <2>3. a * b + r \in 0..(c - 1)
      BY <1>c, <2>2
    <2>. QED
      BY <2>3
  <1>4. x = c * u + s
    <2>1. a * q = a * (2 * u) + a * b
      BY <1>2
    <2>2. a * (2 * u) = c * u
      BY <1>c
    <2>. QED
      BY <1>1, <1>3, <2>1, <2>2
  <1>5. x \div c = u
    BY <1>4
  <1>. QED
    BY <1>1, <1>2, <1>5, <1>c

-----------------------------------------------------------------------------
(* Words of 32 bits.                                                       *)

Word == [Bit32 -> BOOLEAN]

\* The bits of a half, the most significant first.
BitOf(w, k) == IF w[k] THEN 1 ELSE 0
IsHalf(n, w, from, e) == n = [k \in 0..e |-> IF k = 0 THEN 0 ELSE 2 * n[k - 1] + BitOf(w, from + 16 - k)]

LEMMA HalfExists == ASSUME NEW w, NEW from \in Nat, NEW e \in Nat PROVE \E n : IsHalf(n, w, from, e)
  <1>. DEFINE T == {k \in Nat : \E n : IsHalf(n, w, from, k)}
  <1>1. 0 \in T
    <2>. DEFINE n == [k \in 0..0 |-> 0]
    <2>1. IsHalf(n, w, from, 0)
      BY DEF IsHalf
    <2>. QED
      BY <2>1
  <1>2. ASSUME NEW k \in Nat, k \in T PROVE k + 1 \in T
    <2>1. PICK n : IsHalf(n, w, from, k)
      BY <1>2
    <2>. DEFINE g == [j \in 0..(k + 1) |-> IF j <= k THEN n[j] ELSE 2 * n[k] + BitOf(w, from + 16 - (k + 1))]
    <2>2. ASSUME NEW j \in 0..(k + 1)
          PROVE g[j] = IF j = 0 THEN 0 ELSE 2 * g[j - 1] + BitOf(w, from + 16 - j)
      <3>1. CASE j <= k
        BY <2>1, <3>1 DEF IsHalf
      <3>2. CASE j = k + 1
        <4>1. g[j] = 2 * n[k] + BitOf(w, from + 16 - j) /\ j # 0 /\ j - 1 = k
          BY <3>2
        <4>2. g[k] = n[k]
          OBVIOUS
        <4>. QED
          BY <4>1, <4>2
      <3>. QED
        BY <3>1, <3>2
    <2>3. IsHalf(g, w, from, k + 1)
      BY <2>2 DEF IsHalf
    <2>. QED
      BY <2>3
  <1>. HIDE DEF T
  <1>3. Nat \subseteq T
    BY <1>1, <1>2, Induct
  <1>. QED
    BY <1>3 DEF T

LEMMA HalfIs ==
    ASSUME NEW w, NEW from \in Nat
    PROVE  \E n : IsHalf(n, w, from, 16) /\ Half(w, from) = n[16]
  <1>. DEFINE S(g) == g = [k \in 0..16 |-> IF k = 0 THEN 0 ELSE 2 * g[k - 1] + (IF w[from + 16 - k] THEN 1 ELSE 0)]
              n == CHOOSE g : S(g)
  <1>1. Half(w, from) = n[16]
    BY DEF Half
  <1>2. PICK f : IsHalf(f, w, from, 16)
    BY HalfExists
  <1>3. S(f)
    BY <1>2 DEF IsHalf, BitOf
  <1>4. S(n)
    <2>. HIDE DEF S
    <2>. QED
      BY <1>3
  <1>5. IsHalf(n, w, from, 16)
    <2>. HIDE DEF n
    <2>. QED
      BY <1>4 DEF IsHalf, BitOf
  <1>. QED
    BY <1>1, <1>5

\* A half is a number.
LEMMA HalfType == ASSUME NEW w, NEW from \in Nat PROVE Half(w, from) \in Nat
  <1>1. PICK n : IsHalf(n, w, from, 16) /\ Half(w, from) = n[16]
    BY HalfIs
  <1>. DEFINE T == {k \in Nat : k <= 16 => n[k] \in Nat}
  <1>2. 0 \in T
    BY <1>1 DEF IsHalf
  <1>3. ASSUME NEW k \in Nat, k \in T PROVE k + 1 \in T
    <2>. SUFFICES ASSUME k + 1 <= 16 PROVE n[k + 1] \in Nat
      OBVIOUS
    <2>1. n[k] \in Nat
      BY <1>3
    <2>2. n[k + 1] = 2 * n[k] + BitOf(w, from + 16 - (k + 1))
      BY <1>1 DEF IsHalf
    <2>3. BitOf(w, from + 16 - (k + 1)) \in {0, 1}
      BY DEF BitOf
    <2>. QED
      BY <2>1, <2>2, <2>3
  <1>. HIDE DEF T
  <1>4. Nat \subseteq T
    BY <1>2, <1>3, Induct
  <1>. QED
    BY <1>1, <1>4 DEF T

\* It is the number whose bits it reads.
LEMMA HalfReads ==
    ASSUME NEW w, NEW from \in Nat, NEW v \in Nat, v \div NatPower(2, 16) = 0,
           \A j \in 0..15 : BitOf(w, from + j) = (v \div NatPower(2, j)) % 2
    PROVE  Half(w, from) = v
  <1>1. PICK n : IsHalf(n, w, from, 16) /\ Half(w, from) = n[16]
    BY HalfIs
  <1>. DEFINE T == {k \in Nat : k <= 16 => n[k] = v \div NatPower(2, 16 - k)}
  <1>2. 0 \in T
    <2>1. n[0] = 0 /\ 16 - 0 = 16
      BY <1>1 DEF IsHalf
    <2>. QED
      BY <2>1
  <1>3. ASSUME NEW k \in Nat, k \in T PROVE k + 1 \in T
    <2>. SUFFICES ASSUME k + 1 <= 16 PROVE n[k + 1] = v \div NatPower(2, 16 - (k + 1))
      OBVIOUS
    <2>j. PICK j \in 0..15 : j = 16 - (k + 1) /\ j + 1 = 16 - k /\ from + 16 - (k + 1) = from + j
      OBVIOUS
    <2>a. PICK a \in Nat \ {0} : a = NatPower(2, j)
      <3>0. j \in Nat /\ 2 \in Nat \ {0}
        OBVIOUS
      <3>1. NatPower(2, j) \in Nat \ {0}
        BY <3>0, PowerType
      <3>. QED
        BY <3>1
    <2>b. NatPower(2, j + 1) = a * 2
      BY <2>a, PowerStep
    <2>q. PICK q \in Nat : q = v \div a
      BY DivMod
    <2>1. n[k + 1] = 2 * n[k] + BitOf(w, from + 16 - (k + 1))
      BY <1>1 DEF IsHalf
    <2>2. n[k] = q \div 2
      <3>1. n[k] = v \div NatPower(2, 16 - k)
        BY <1>3
      <3>2. v \div (a * 2) = (v \div a) \div 2
        BY HalveAgain
      <3>. QED
        BY <2>b, <2>j, <2>q, <3>1, <3>2
    <2>3. BitOf(w, from + 16 - (k + 1)) = q % 2
      BY <2>a, <2>j, <2>q
    <2>4. q = 2 * (q \div 2) + (q % 2)
      OBVIOUS
    <2>5. n[k + 1] = q
      BY <2>1, <2>2, <2>3, <2>4
    <2>. QED
      BY <2>5, <2>a, <2>j, <2>q
  <1>. HIDE DEF T
  <1>4. Nat \subseteq T
    BY <1>2, <1>3, Induct
  <1>5. n[16] = v \div NatPower(2, 0)
    <2>1. 16 - 16 = 0 /\ 16 \in Nat
      OBVIOUS
    <2>2. n[16] = v \div NatPower(2, 16 - 16)
      BY <1>4 DEF T
    <2>. QED
      BY <2>1, <2>2
  <1>6. v \div NatPower(2, 0) = v
    <2>1. NatPower(2, 0) = 1 /\ v \div 1 = v
      BY PowerStep
    <2>. QED
      BY <2>1
  <1>. QED
    BY <1>1, <1>5, <1>6

\* The two halves a word is made of.
LEMMA WordType == ASSUME NEW halves PROVE Word32(halves) \in Word
  BY DEF Word32, Word

LEMMA HalvesBack ==
    ASSUME NEW hi \in Nat, NEW lo \in Nat, hi \div NatPower(2, 16) = 0, lo \div NatPower(2, 16) = 0
    PROVE  Half(Word32(<<hi, lo>>), 16) = hi /\ Half(Word32(<<hi, lo>>), 0) = lo
  <1>w. PICK w : w = Word32(<<hi, lo>>)
    OBVIOUS
  <1>0. \A j \in 0..15 : NatPower(2, j) \in Nat \ {0}
    BY PowerType
  <1>1. ASSUME NEW j \in 0..15 PROVE BitOf(w, j) = (lo \div NatPower(2, j)) % 2
    <2>1. j \in Bit32 /\ j < 16 /\ j % 16 = j
      BY DEF Bit32
    <2>b. PICK b \in 0..1 : b = (lo \div NatPower(2, j)) % 2
      <3>1. lo \div NatPower(2, j) \in Nat
        BY <1>0, DivMod
      <3>2. (lo \div NatPower(2, j)) % 2 \in 0..1
        BY <3>1
      <3>. QED
        BY <3>2
    <2>2. w[j] <=> b = 1
      BY <1>w, <2>1, <2>b DEF Word32
    <2>. QED
      BY <2>b, <2>2 DEF BitOf
  <1>2. ASSUME NEW j \in 0..15 PROVE BitOf(w, 16 + j) = (hi \div NatPower(2, j)) % 2
    <2>1. 16 + j \in Bit32 /\ ~(16 + j < 16) /\ (16 + j) % 16 = j
      BY DEF Bit32
    <2>b. PICK b \in 0..1 : b = (hi \div NatPower(2, j)) % 2
      <3>1. hi \div NatPower(2, j) \in Nat
        BY <1>0, DivMod
      <3>2. (hi \div NatPower(2, j)) % 2 \in 0..1
        BY <3>1
      <3>. QED
        BY <3>2
    <2>2. w[16 + j] <=> b = 1
      BY <1>w, <2>1, <2>b DEF Word32
    <2>. QED
      BY <2>b, <2>2 DEF BitOf
  <1>3. Half(w, 0) = lo
    <2>1. \A j \in 0..15 : BitOf(w, 0 + j) = (lo \div NatPower(2, j)) % 2
      BY <1>1
    <2>. QED
      BY <2>1, HalfReads
  <1>4. Half(w, 16) = hi
    BY <1>2, HalfReads
  <1>. QED
    BY <1>w, <1>3, <1>4

\* Sixteen bits.
LEMMA Sixteen == NatPower(2, 16) = 65536
  <1>1. \A e \in Nat : NatPower(2, e + 1) = NatPower(2, e) * 2
    BY PowerStep
  <1>2. NatPower(2, 0) = 1
    BY PowerStep
  <1>3. NatPower(2, 4) = 16
    <2>1. NatPower(2, 1) = 2
      <3>1. NatPower(2, 0 + 1) = NatPower(2, 0) * 2
        BY <1>1
      <3>. QED
        BY <1>2, <3>1, SMT
    <2>2. NatPower(2, 2) = 4
      <3>1. NatPower(2, 1 + 1) = NatPower(2, 1) * 2
        BY <1>1
      <3>. QED
        BY <2>1, <3>1, SMT
    <2>3. NatPower(2, 3) = 8
      <3>1. NatPower(2, 2 + 1) = NatPower(2, 2) * 2
        BY <1>1
      <3>. QED
        BY <2>2, <3>1, SMT
    <2>4. NatPower(2, 4) = 16
      <3>1. NatPower(2, 3 + 1) = NatPower(2, 3) * 2
        BY <1>1
      <3>. QED
        BY <2>3, <3>1, SMT
    <2>. QED
      BY <2>4, SMT
  <1>4. NatPower(2, 8) = 256
    <2>1. NatPower(2, 5) = 32
      <3>1. NatPower(2, 4 + 1) = NatPower(2, 4) * 2
        BY <1>1
      <3>. QED
        BY <1>3, <3>1, SMT
    <2>2. NatPower(2, 6) = 64
      <3>1. NatPower(2, 5 + 1) = NatPower(2, 5) * 2
        BY <1>1
      <3>. QED
        BY <2>1, <3>1, SMT
    <2>3. NatPower(2, 7) = 128
      <3>1. NatPower(2, 6 + 1) = NatPower(2, 6) * 2
        BY <1>1
      <3>. QED
        BY <2>2, <3>1, SMT
    <2>4. NatPower(2, 8) = 256
      <3>1. NatPower(2, 7 + 1) = NatPower(2, 7) * 2
        BY <1>1
      <3>. QED
        BY <2>3, <3>1, SMT
    <2>. QED
      BY <2>4, SMT
  <1>5. NatPower(2, 12) = 4096
    <2>1. NatPower(2, 9) = 512
      <3>1. NatPower(2, 8 + 1) = NatPower(2, 8) * 2
        BY <1>1
      <3>. QED
        BY <1>4, <3>1, SMT
    <2>2. NatPower(2, 10) = 1024
      <3>1. NatPower(2, 9 + 1) = NatPower(2, 9) * 2
        BY <1>1
      <3>. QED
        BY <2>1, <3>1, SMT
    <2>3. NatPower(2, 11) = 2048
      <3>1. NatPower(2, 10 + 1) = NatPower(2, 10) * 2
        BY <1>1
      <3>. QED
        BY <2>2, <3>1, SMT
    <2>4. NatPower(2, 12) = 4096
      <3>1. NatPower(2, 11 + 1) = NatPower(2, 11) * 2
        BY <1>1
      <3>. QED
        BY <2>3, <3>1, SMT
    <2>. QED
      BY <2>4, SMT
  <1>6. NatPower(2, 16) = 65536
    <2>1. NatPower(2, 13) = 8192
      <3>1. NatPower(2, 12 + 1) = NatPower(2, 12) * 2
        BY <1>1
      <3>. QED
        BY <1>5, <3>1, SMT
    <2>2. NatPower(2, 14) = 16384
      <3>1. NatPower(2, 13 + 1) = NatPower(2, 13) * 2
        BY <1>1
      <3>. QED
        BY <2>1, <3>1, SMT
    <2>3. NatPower(2, 15) = 32768
      <3>1. NatPower(2, 14 + 1) = NatPower(2, 14) * 2
        BY <1>1
      <3>. QED
        BY <2>2, <3>1, SMT
    <2>4. NatPower(2, 16) = 65536
      <3>1. NatPower(2, 15 + 1) = NatPower(2, 15) * 2
        BY <1>1
      <3>. QED
        BY <2>3, <3>1, SMT
    <2>. QED
      BY <2>4, SMT
  <1>. QED
    BY <1>6, SMT

\* Sums of halves.
IsRun(s, n, words, from) == s = [i \in 0..n |-> IF i = 0 THEN 0 ELSE s[i - 1] + Half(words[i], from)]

LEMMA RunExists == ASSUME NEW words, NEW from, NEW e \in Nat PROVE \E s : IsRun(s, e, words, from)
  <1>. DEFINE T == {k \in Nat : \E s : IsRun(s, k, words, from)}
  <1>1. 0 \in T
    <2>. DEFINE s == [k \in 0..0 |-> 0]
    <2>1. IsRun(s, 0, words, from)
      BY DEF IsRun
    <2>. QED
      BY <2>1
  <1>2. ASSUME NEW k \in Nat, k \in T PROVE k + 1 \in T
    <2>1. PICK s : IsRun(s, k, words, from)
      BY <1>2
    <2>. DEFINE g == [j \in 0..(k + 1) |-> IF j <= k THEN s[j] ELSE s[k] + Half(words[k + 1], from)]
    <2>2. ASSUME NEW j \in 0..(k + 1)
          PROVE g[j] = IF j = 0 THEN 0 ELSE g[j - 1] + Half(words[j], from)
      <3>1. CASE j <= k
        BY <2>1, <3>1 DEF IsRun
      <3>2. CASE j = k + 1
        <4>1. g[j] = s[k] + Half(words[j], from) /\ j # 0 /\ j - 1 = k
          BY <3>2
        <4>2. g[k] = s[k]
          OBVIOUS
        <4>. QED
          BY <4>1, <4>2
      <3>. QED
        BY <3>1, <3>2
    <2>3. IsRun(g, k + 1, words, from)
      BY <2>2 DEF IsRun
    <2>. QED
      BY <2>3
  <1>. HIDE DEF T
  <1>3. Nat \subseteq T
    BY <1>1, <1>2, Induct
  <1>. QED
    BY <1>3 DEF T

\* The word with such sums.
Carried(high, low) == Word32(<<(high + low \div 65536) % 65536, low % 65536>>)

LEMMA AddIs ==
    ASSUME NEW words, NEW n \in Nat, Len(words) = n
    PROVE  \E low, high : /\ IsRun(low, n, words, 0) /\ IsRun(high, n, words, 16)
                          /\ WrappingAdd(words) = Carried(high[n], low[n])
  <1>. DEFINE S(g, from) == g = [i \in 0..n |-> IF i = 0 THEN 0 ELSE g[i - 1] + Half(words[i], from)]
              run(from) == CHOOSE g : S(g, from)
  <1>1. WrappingAdd(words) = Carried(run(16)[n], run(0)[n])
    BY SMT DEF WrappingAdd, Carried
  <1>2. ASSUME NEW from PROVE IsRun(run(from), n, words, from)
    <2>1. PICK f : IsRun(f, n, words, from)
      BY RunExists
    <2>2. S(f, from)
      BY <2>1 DEF IsRun
    <2>3. S(run(from), from)
      <3>. HIDE DEF S
      <3>. QED
        BY <2>2
    <2>. HIDE DEF run
    <2>. QED
      BY <2>3 DEF IsRun
  <1>. HIDE DEF run
  <1>. QED
    BY <1>1, <1>2

\* The halves of a sum.
LEMMA CarriedHalves ==
    ASSUME NEW high \in Nat, NEW low \in Nat
    PROVE  /\ Half(Carried(high, low), 0) = low % 65536
           /\ Half(Carried(high, low), 16) = (high + low \div 65536) % 65536
  <1>1. PICK p \in Nat, q \in Nat : /\ p = (high + low \div 65536) % 65536 /\ p < 65536
                                    /\ q = low % 65536 /\ q < 65536
    <2>1. low \div 65536 \in Nat
      BY SMT
    <2>2. (high + low \div 65536) % 65536 \in Nat /\ (high + low \div 65536) % 65536 < 65536
      BY <2>1, SMT
    <2>3. low % 65536 \in Nat /\ low % 65536 < 65536
      BY SMT
    <2>. QED
      BY <2>2, <2>3, SMT
  <1>2. p \div 65536 = 0 /\ q \div 65536 = 0
    BY <1>1, SMT
  <1>3. p \div NatPower(2, 16) = 0 /\ q \div NatPower(2, 16) = 0
    BY <1>2, Sixteen, SMT
  <1>4. Half(Word32(<<p, q>>), 16) = p /\ Half(Word32(<<p, q>>), 0) = q
    BY <1>3, HalvesBack, SMT
  <1>. QED
    BY <1>1, <1>4, SMT DEF Carried

LEMMA AddTwo ==
    ASSUME NEW x, NEW y
    PROVE  WrappingAdd(<<x, y>>) = Carried(Half(x, 16) + Half(y, 16), Half(x, 0) + Half(y, 0))
  <1>w. PICK words : words = <<x, y>>
    OBVIOUS
  <1>1. Len(words) = 2 /\ words[1] = x /\ words[2] = y
    BY <1>w
  <1>2. PICK low, high : /\ IsRun(low, 2, words, 0) /\ IsRun(high, 2, words, 16)
                         /\ WrappingAdd(words) = Carried(high[2], low[2])
    BY <1>1, AddIs
  <1>3. ASSUME NEW s, NEW from \in Nat, IsRun(s, 2, words, from)
        PROVE  s[2] = Half(x, from) + Half(y, from)
    <2>1. s[0] = 0 /\ s[1] = s[0] + Half(words[1], from) /\ s[2] = s[1] + Half(words[2], from)
      BY <1>3 DEF IsRun
    <2>2. Half(x, from) \in Nat /\ Half(y, from) \in Nat
      BY HalfType
    <2>. QED
      BY <1>1, <2>1, <2>2
  <1>4. high[2] = Half(x, 16) + Half(y, 16) /\ low[2] = Half(x, 0) + Half(y, 0)
    BY <1>2, <1>3
  <1>. QED
    BY <1>w, <1>2, <1>4

LEMMA AddThree ==
    ASSUME NEW x, NEW y, NEW z
    PROVE  WrappingAdd(<<x, y, z>>) = Carried(Half(x, 16) + Half(y, 16) + Half(z, 16),
                                              Half(x, 0) + Half(y, 0) + Half(z, 0))
  <1>w. PICK words : words = <<x, y, z>>
    OBVIOUS
  <1>1. Len(words) = 3 /\ words[1] = x /\ words[2] = y /\ words[3] = z
    BY <1>w
  <1>2. PICK low, high : /\ IsRun(low, 3, words, 0) /\ IsRun(high, 3, words, 16)
                         /\ WrappingAdd(words) = Carried(high[3], low[3])
    BY <1>1, AddIs
  <1>3. ASSUME NEW s, NEW from \in Nat, IsRun(s, 3, words, from)
        PROVE  s[3] = Half(x, from) + Half(y, from) + Half(z, from)
    <2>1. /\ s[0] = 0 /\ s[1] = s[0] + Half(words[1], from) /\ s[2] = s[1] + Half(words[2], from)
          /\ s[3] = s[2] + Half(words[3], from)
      BY <1>3 DEF IsRun
    <2>2. Half(x, from) \in Nat /\ Half(y, from) \in Nat /\ Half(z, from) \in Nat
      BY HalfType
    <2>. QED
      BY <1>1, <2>1, <2>2
  <1>4. /\ high[3] = Half(x, 16) + Half(y, 16) + Half(z, 16)
        /\ low[3] = Half(x, 0) + Half(y, 0) + Half(z, 0)
    BY <1>2, <1>3
  <1>. QED
    BY <1>w, <1>2, <1>4

LEMMA AddFive ==
    ASSUME NEW u, NEW v, NEW x, NEW y, NEW z
    PROVE  WrappingAdd(<<u, v, x, y, z>>) =
               Carried(Half(u, 16) + Half(v, 16) + Half(x, 16) + Half(y, 16) + Half(z, 16),
                       Half(u, 0) + Half(v, 0) + Half(x, 0) + Half(y, 0) + Half(z, 0))
  <1>w. PICK words : words = <<u, v, x, y, z>>
    OBVIOUS
  <1>1. Len(words) = 5 /\ words[1] = u /\ words[2] = v /\ words[3] = x /\ words[4] = y /\ words[5] = z
    BY <1>w
  <1>2. PICK low, high : /\ IsRun(low, 5, words, 0) /\ IsRun(high, 5, words, 16)
                         /\ WrappingAdd(words) = Carried(high[5], low[5])
    BY <1>1, AddIs
  <1>3. ASSUME NEW s, NEW from \in Nat, IsRun(s, 5, words, from)
        PROVE  s[5] = Half(u, from) + Half(v, from) + Half(x, from) + Half(y, from) + Half(z, from)
    <2>1. /\ s[0] = 0 /\ s[1] = s[0] + Half(words[1], from) /\ s[2] = s[1] + Half(words[2], from)
          /\ s[3] = s[2] + Half(words[3], from) /\ s[4] = s[3] + Half(words[4], from)
          /\ s[5] = s[4] + Half(words[5], from)
      BY <1>3 DEF IsRun
    <2>2. /\ Half(u, from) \in Nat /\ Half(v, from) \in Nat /\ Half(x, from) \in Nat
          /\ Half(y, from) \in Nat /\ Half(z, from) \in Nat
      BY HalfType
    <2>. QED
      BY <1>1, <2>1, <2>2
  <1>4. /\ high[5] = Half(u, 16) + Half(v, 16) + Half(x, 16) + Half(y, 16) + Half(z, 16)
        /\ low[5] = Half(u, 0) + Half(v, 0) + Half(x, 0) + Half(y, 0) + Half(z, 0)
    BY <1>2, <1>3
  <1>. QED
    BY <1>w, <1>2, <1>4

\* The circuit's choice is the host's.
LEMMA ChoicesAgree ==
    ASSUME NEW e \in Word, NEW f \in Word, NEW g \in Word
    PROVE  ChSelector(e, f, g) = Ch(e, f, g)
  <1>1. ASSUME NEW p \in BOOLEAN, NEW q \in BOOLEAN, NEW r \in BOOLEAN
        PROVE  (IF p THEN q ELSE r) = ((p /\ q) # ((~p) /\ r))
    <2>1. CASE p = TRUE
      BY <2>1
    <2>2. CASE p = FALSE
      BY <2>2
    <2>. QED
      BY <2>1, <2>2
  <1>2. ASSUME NEW k \in Bit32
        PROVE  (IF e[k] THEN f[k] ELSE g[k]) = ((e[k] /\ f[k]) # ((~e[k]) /\ g[k]))
    <2>1. e[k] \in BOOLEAN /\ f[k] \in BOOLEAN /\ g[k] \in BOOLEAN
      BY DEF Word
    <2>. QED
      BY <1>1, <2>1
  <1>3. \A k \in Bit32 : Xor(And(e, f), And(Not(e), g))[k] = ((e[k] /\ f[k]) # ((~e[k]) /\ g[k]))
    BY DEF Xor, And, Not
  <1>4. Xor(And(e, f), And(Not(e), g)) = [k \in Bit32 |-> Xor(And(e, f), And(Not(e), g))[k]]
    BY DEF Xor
  <1>5. ChSelector(e, f, g) = [k \in Bit32 |-> Xor(And(e, f), And(Not(e), g))[k]]
    BY <1>2, <1>3 DEF ChSelector
  <1>. QED
    BY <1>4, <1>5 DEF Ch

\* So is its majority.
LEMMA MajoritiesAgree ==
    ASSUME NEW a \in Word, NEW b \in Word, NEW c \in Word
    PROVE  Ma(a, b, c) = Maj(a, b, c)
  <1>1. ASSUME NEW p \in BOOLEAN, NEW q \in BOOLEAN, NEW r \in BOOLEAN
        PROVE  ((p /\ q) # (r /\ (p # q))) = ((p /\ q) # ((p /\ r) # (q /\ r)))
    <2>1. CASE p = TRUE /\ q = TRUE
      BY <2>1
    <2>2. CASE p = TRUE /\ q = FALSE
      BY <2>2
    <2>3. CASE p = FALSE /\ q = TRUE
      BY <2>3
    <2>4. CASE p = FALSE /\ q = FALSE
      BY <2>4
    <2>. QED
      BY <2>1, <2>2, <2>3, <2>4
  <1>2. ASSUME NEW k \in Bit32
        PROVE  ((a[k] /\ b[k]) # (c[k] /\ (a[k] # b[k]))) = ((a[k] /\ b[k]) # ((a[k] /\ c[k]) # (b[k] /\ c[k])))
    <2>1. a[k] \in BOOLEAN /\ b[k] \in BOOLEAN /\ c[k] \in BOOLEAN
      BY DEF Word
    <2>. QED
      BY <1>1, <2>1
  <1>3. \A k \in Bit32 : Ma(a, b, c)[k] = ((a[k] /\ b[k]) # (c[k] /\ (a[k] # b[k])))
    BY DEF Ma, Xor, And
  <1>4. \A k \in Bit32 : Maj(a, b, c)[k] = ((a[k] /\ b[k]) # ((a[k] /\ c[k]) # (b[k] /\ c[k])))
    BY DEF Maj, Xor, And
  <1>5. Ma(a, b, c) = [k \in Bit32 |-> Ma(a, b, c)[k]]
    BY DEF Ma, Xor
  <1>6. Maj(a, b, c) = [k \in Bit32 |-> Maj(a, b, c)[k]]
    BY DEF Maj, Xor
  <1>. QED
    BY <1>2, <1>3, <1>4, <1>5, <1>6

LEMMA AddType == ASSUME NEW words PROVE WrappingAdd(words) \in Word
  <1>. DEFINE run(from) == CHOOSE g : g = [i \in 0..Len(words) |-> IF i = 0 THEN 0 ELSE g[i - 1] + Half(words[i], from)]
  <1>1. PICK high, low : high = run(16)[Len(words)] /\ low = run(0)[Len(words)]
    OBVIOUS
  <1>2. WrappingAdd(words) = Carried(run(16)[Len(words)], run(0)[Len(words)])
    BY SMT DEF WrappingAdd, Carried
  <1>. HIDE DEF run
  <1>3. WrappingAdd(words) = Carried(high, low)
    BY <1>1, <1>2
  <1>4. Carried(high, low) \in Word
    BY WordType DEF Carried
  <1>. QED
    BY <1>3, <1>4

LEMMA QuotientIs ==
    ASSUME NEW n \in Nat \ {0}, NEW x \in Nat, NEW q \in Nat, NEW r \in Nat, r < n, x = n * q + r
    PROVE  x \div n = q /\ x % n = r
  <1>1. PICK p \in Nat, t \in Nat : p = x \div n /\ t = x % n /\ x = n * p + t /\ t < n
    <2>1. x \div n \in Nat /\ x % n \in 0..(n - 1) /\ x = n * (x \div n) + (x % n)
      BY DivMod
    <2>. QED
      BY <2>1
  <1>2. n * p + t = n * q + r
    BY <1>1
  <1>3. p <= q
    <2>1. ASSUME p >= q + 1 PROVE FALSE
      <3>1. PICK j \in Nat : p = q + 1 + j
        <4>1. p - (q + 1) \in Nat /\ p = q + 1 + (p - (q + 1))
          BY <2>1
        <4>. QED
          BY <4>1
      <3>2. n * p = n * q + n + n * j
        BY <3>1
      <3>3. n * j \in Nat /\ n * q \in Nat
        OBVIOUS
      <3>. QED
        BY <1>1, <1>2, <3>2, <3>3
    <2>. QED
      BY <2>1
  <1>4. q <= p
    <2>1. ASSUME q >= p + 1 PROVE FALSE
      <3>1. PICK j \in Nat : q = p + 1 + j
        <4>1. q - (p + 1) \in Nat /\ q = p + 1 + (q - (p + 1))
          BY <2>1
        <4>. QED
          BY <4>1
      <3>2. n * q = n * p + n + n * j
        BY <3>1
      <3>3. n * j \in Nat /\ n * p \in Nat
        OBVIOUS
      <3>. QED
        BY <1>1, <1>2, <3>2, <3>3
    <2>. QED
      BY <2>1
  <1>5. p = q
    BY <1>3, <1>4
  <1>6. n * p = n * q /\ n * q \in Nat
    BY <1>5
  <1>. QED
    BY <1>1, <1>2, <1>5, <1>6

LEMMA RemainderShift ==
    ASSUME NEW n \in Nat \ {0}, NEW x \in Nat, NEW y \in Nat, NEW u \in Nat, y = n * u + x
    PROVE  x % n = y % n
  <1>1. PICK q \in Nat, r \in Nat : q = x \div n /\ r = x % n /\ x = n * q + r /\ r < n
    <2>1. x \div n \in Nat /\ x % n \in 0..(n - 1) /\ x = n * (x \div n) + (x % n)
      BY DivMod
    <2>. QED
      BY <2>1
  <1>2. PICK k \in Nat : k = u + q
    OBVIOUS
  <1>3. y = n * k + r
    <2>1. n * k = n * u + n * q /\ n * u \in Nat /\ n * q \in Nat
      BY <1>2
    <2>. QED
      BY <1>1, <2>1
  <1>4. y % n = r
    BY <1>1, <1>3, QuotientIs
  <1>. QED
    BY <1>1, <1>4

\* Reducing before adding changes nothing.
Reduces(n, a, b, c, d, f, g) ==
    f = (a + b \div n) % n /\ g = b % n =>
        /\ (g + d) % n = (b + d) % n
        /\ (f + c + (g + d) \div n) % n = (a + c + (b + d) \div n) % n

LEMMA CarryTwice ==
    ASSUME NEW n \in Nat \ {0}, NEW a \in Nat, NEW b \in Nat, NEW c \in Nat, NEW d \in Nat, NEW f \in Nat, NEW g \in Nat
    PROVE  Reduces(n, a, b, c, d, f, g)
  <1>1. SUFFICES ASSUME f = (a + b \div n) % n, g = b % n
                 PROVE  /\ (g + d) % n = (b + d) % n
                        /\ (f + c + (g + d) \div n) % n = (a + c + (b + d) \div n) % n
    BY DEF Reduces
  <1>2. PICK q \in Nat : q = b \div n /\ b = n * q + g
    <2>1. b \div n \in Nat /\ b = n * (b \div n) + (b % n)
      BY DivMod
    <2>. QED
      BY <1>1, <2>1
  <1>3. PICK u \in Nat : a + q = n * u + f
    <2>1. PICK e \in Nat : e = a + q
      OBVIOUS
    <2>2. e \div n \in Nat /\ e = n * (e \div n) + (e % n)
      BY DivMod
    <2>3. e % n = f
      BY <1>1, <1>2, <2>1
    <2>4. a + q = n * (e \div n) + f
      BY <2>1, <2>2, <2>3
    <2>. QED
      BY <2>2, <2>4
  <1>4. PICK s \in Nat, t \in Nat : s = (g + d) \div n /\ t = (g + d) % n /\ g + d = n * s + t /\ t < n
    <2>1. PICK e \in Nat : e = g + d
      OBVIOUS
    <2>2. e \div n \in Nat /\ e % n \in 0..(n - 1) /\ e = n * (e \div n) + (e % n)
      BY DivMod
    <2>. QED
      BY <2>1, <2>2
  <1>5. (b + d) \div n = q + s /\ (b + d) % n = t
    <2>1. PICK k \in Nat : k = q + s
      OBVIOUS
    <2>2. b + d = n * k + t
      <3>1. n * k = n * q + n * s /\ n * q \in Nat /\ n * s \in Nat
        BY <2>1
      <3>. QED
        BY <1>2, <1>4, <3>1
    <2>3. PICK y \in Nat : y = b + d
      OBVIOUS
    <2>4. y \div n = k /\ y % n = t
      BY <1>4, <2>2, <2>3, QuotientIs
    <2>. QED
      BY <2>1, <2>3, <2>4
  <1>6. (f + c + s) % n = (a + c + (q + s)) % n
    <2>1. PICK x \in Nat, y \in Nat : x = f + c + s /\ y = a + c + (q + s)
      OBVIOUS
    <2>2. y = n * u + x
      <3>1. n * u \in Nat
        OBVIOUS
      <3>. QED
        BY <1>3, <2>1, <3>1
    <2>3. x % n = y % n
      BY <2>2, RemainderShift
    <2>. QED
      BY <2>1, <2>3
  <1>. QED
    BY <1>4, <1>5, <1>6

\* Adding three words at once, or two of them first.
LEMMA AddInTwo ==
    ASSUME NEW t, NEW x, NEW y
    PROVE  WrappingAdd(<<t, x, y>>) = WrappingAdd(<<t, WrappingAdd(<<y, x>>)>>)
  <1>1. PICK a \in Nat, b \in Nat : a = Half(y, 16) + Half(x, 16) /\ b = Half(y, 0) + Half(x, 0)
    <2>1. Half(y, 16) \in Nat /\ Half(x, 16) \in Nat /\ Half(y, 0) \in Nat /\ Half(x, 0) \in Nat
      BY HalfType
    <2>. QED
      BY <2>1
  <1>2. PICK c \in Nat, d \in Nat : c = Half(t, 16) /\ d = Half(t, 0)
    BY HalfType
  <1>3. PICK z : z = WrappingAdd(<<y, x>>)
    OBVIOUS
  <1>4. z = Carried(a, b)
    BY <1>1, <1>3, AddTwo
  <1>5. Half(z, 16) = (a + b \div 65536) % 65536 /\ Half(z, 0) = b % 65536
    BY <1>4, CarriedHalves, SMT
  <1>6. PICK p \in Nat, q \in Nat : p = (a + b \div 65536) % 65536 /\ q = b % 65536
    <2>1. b \div 65536 \in Nat
      BY SMT
    <2>2. (a + b \div 65536) % 65536 \in Nat /\ b % 65536 \in Nat
      BY <2>1, SMT
    <2>. QED
      BY <2>2, SMT
  <1>7. Half(z, 16) = p /\ Half(z, 0) = q
    BY <1>5, <1>6, SMT
  <1>8. Carried(p + c, q + d) = Carried(a + c, b + d)
    <2>1. PICK n \in Nat \ {0} : n = 65536
      BY SMT
    <2>2. p = (a + b \div n) % n /\ q = b % n
      BY <1>6, <2>1, SMT
    <2>3. PICK r, s, v, w : r = (q + d) \div n /\ s = (q + d) % n /\ v = (b + d) \div n /\ w = (b + d) % n
      OBVIOUS
    <2>4. s = w /\ (p + c + r) % n = (a + c + v) % n
      <3>1. /\ (q + d) % n = (b + d) % n
            /\ (p + c + (q + d) \div n) % n = (a + c + (b + d) \div n) % n
        <4>1. Reduces(n, a, b, c, d, p, q)
          BY CarryTwice
        <4>. QED
          BY <2>2, <4>1 DEF Reduces
      <3>. QED
        BY <2>3, <3>1
    <2>5. Carried(p + c, q + d) = Word32(<<(p + c + r) % n, s>>)
      BY <2>1, <2>3, SMT DEF Carried
    <2>6. Carried(a + c, b + d) = Word32(<<(a + c + v) % n, w>>)
      BY <2>1, <2>3, SMT DEF Carried
    <2>. QED
      BY <2>4, <2>5, <2>6
  <1>9. WrappingAdd(<<t, z>>) = Carried(p + c, q + d)
    <2>1. WrappingAdd(<<t, z>>) = Carried(c + p, d + q)
      BY <1>2, <1>7, AddTwo
    <2>2. c + p = p + c /\ d + q = q + d
      OBVIOUS
    <2>. QED
      BY <2>1, <2>2
  <1>10. WrappingAdd(<<t, x, y>>) = Carried(a + c, b + d)
    <2>1. WrappingAdd(<<t, x, y>>) = Carried(Half(t, 16) + Half(x, 16) + Half(y, 16),
                                             Half(t, 0) + Half(x, 0) + Half(y, 0))
      BY AddThree
    <2>2. Half(y, 16) \in Nat /\ Half(x, 16) \in Nat /\ Half(y, 0) \in Nat /\ Half(x, 0) \in Nat
      BY HalfType
    <2>3. Half(t, 16) + Half(x, 16) + Half(y, 16) = a + c
      BY <1>1, <1>2, <2>2
    <2>4. Half(t, 0) + Half(x, 0) + Half(y, 0) = b + d
      BY <1>1, <1>2, <2>2
    <2>. QED
      BY <2>1, <2>3, <2>4
  <1>. QED
    BY <1>3, <1>8, <1>9, <1>10

LEMMA AddSwaps ==
    ASSUME NEW x, NEW y
    PROVE  WrappingAdd(<<x, y>>) = WrappingAdd(<<y, x>>)
  <1>1. Half(y, 16) \in Nat /\ Half(x, 16) \in Nat /\ Half(y, 0) \in Nat /\ Half(x, 0) \in Nat
    BY HalfType
  <1>2. Half(x, 16) + Half(y, 16) = Half(y, 16) + Half(x, 16) /\ Half(x, 0) + Half(y, 0) = Half(y, 0) + Half(x, 0)
    BY <1>1
  <1>3. WrappingAdd(<<x, y>>) = Carried(Half(x, 16) + Half(y, 16), Half(x, 0) + Half(y, 0))
    BY AddTwo
  <1>4. WrappingAdd(<<y, x>>) = Carried(Half(y, 16) + Half(x, 16), Half(y, 0) + Half(x, 0))
    BY AddTwo
  <1>. QED
    BY <1>2, <1>3, <1>4

LEMMA FiveSwap ==
    ASSUME NEW u, NEW v, NEW x, NEW y, NEW z
    PROVE  WrappingAdd(<<u, v, x, y, z>>) = WrappingAdd(<<u, x, v, y, z>>)
  <1>1. PICK a \in Nat, b \in Nat, c \in Nat, d \in Nat, e \in Nat :
            /\ a = Half(u, 16) /\ b = Half(v, 16) /\ c = Half(x, 16) /\ d = Half(y, 16) /\ e = Half(z, 16)
    BY HalfType
  <1>2. PICK p \in Nat, q \in Nat, r \in Nat, s \in Nat, t \in Nat :
            /\ p = Half(u, 0) /\ q = Half(v, 0) /\ r = Half(x, 0) /\ s = Half(y, 0) /\ t = Half(z, 0)
    BY HalfType
  <1>3. WrappingAdd(<<u, v, x, y, z>>) = Carried(a + b + c + d + e, p + q + r + s + t)
    BY <1>1, <1>2, AddFive
  <1>4. WrappingAdd(<<u, x, v, y, z>>) = Carried(a + c + b + d + e, p + r + q + s + t)
    BY <1>1, <1>2, AddFive
  <1>5. a + b + c + d + e = a + c + b + d + e /\ p + q + r + s + t = p + r + q + s + t
    OBVIOUS
  <1>. QED
    BY <1>3, <1>4, <1>5

\* A round of the circuit is a round of the host.
LEMMA RoundsAgree ==
    ASSUME NEW h, \A i \in 1..8 : h[i] \in Word, NEW k, NEW w
    PROVE  CircuitRound(h, k, w) = HostRound(h, k, w)
  <1>1. PICK choice, majority, big0, big1 :
            /\ choice = Ch(h[5], h[6], h[7]) /\ majority = Maj(h[1], h[2], h[3])
            /\ big0 = BigSigma0(h[1]) /\ big1 = BigSigma1(h[5])
    OBVIOUS
  <1>2. ChSelector(h[5], h[6], h[7]) = choice
    BY <1>1, ChoicesAgree
  <1>3. Ma(h[1], h[2], h[3]) = majority
    BY <1>1, MajoritiesAgree
  <1>4. PICK t : t = WrappingAdd(<<h[8], choice, big1, k, w>>)
    OBVIOUS
  <1>5. t = WrappingAdd(<<h[8], big1, choice, k, w>>)
    BY <1>4, FiveSwap
  <1>6. CircuitRound(h, k, w) = <<WrappingAdd(<<t, majority, big0>>), h[1], h[2], h[3],
                                  WrappingAdd(<<t, h[4]>>), h[5], h[6], h[7]>>
    BY <1>1, <1>2, <1>3, <1>4 DEF CircuitRound
  <1>7. HostRound(h, k, w) = <<WrappingAdd(<<t, WrappingAdd(<<big0, majority>>)>>), h[1], h[2], h[3],
                               WrappingAdd(<<h[4], t>>), h[5], h[6], h[7]>>
    BY <1>1, <1>5 DEF HostRound
  <1>8. WrappingAdd(<<t, majority, big0>>) = WrappingAdd(<<t, WrappingAdd(<<big0, majority>>)>>)
    BY AddInTwo
  <1>9. WrappingAdd(<<t, h[4]>>) = WrappingAdd(<<h[4], t>>)
    BY AddSwaps
  <1>. QED
    BY <1>6, <1>7, <1>8, <1>9

LEMMA RoundType ==
    ASSUME NEW h, \A i \in 1..8 : h[i] \in Word, NEW k, NEW w
    PROVE  \A i \in 1..8 : HostRound(h, k, w)[i] \in Word
  <1>1. PICK a, e : HostRound(h, k, w) = <<a, h[1], h[2], h[3], e, h[5], h[6], h[7]>> /\ a \in Word /\ e \in Word
    <2>1. PICK t, u : HostRound(h, k, w) = <<WrappingAdd(<<t, u>>), h[1], h[2], h[3], WrappingAdd(<<h[4], t>>), h[5], h[6], h[7]>>
      BY DEF HostRound
    <2>2. WrappingAdd(<<t, u>>) \in Word /\ WrappingAdd(<<h[4], t>>) \in Word
      BY AddType
    <2>. QED
      BY <2>1, <2>2
  <1>. QED
    BY <1>1

\* What makes SidesCompressAlike inductive: the eight words are words.
RoundsInv ==
    /\ SidesCompressAlike
    /\ \A s \in Sides : \A i \in 1..8 : working[s][i] \in Word

LEMMA RoundsInvStart == RoundsInit => RoundsInv
  <1>. SUFFICES ASSUME NEW in \in CompressInputs, RoundsStart(in, TRUE) PROVE RoundsInv
    BY DEF RoundsInit
  <1>1. PICK start : start = WordsOf(StateOf(in))
    OBVIOUS
  <1>2. working = [s \in Sides |-> start]
    BY <1>1 DEF RoundsStart
  <1>3. \A i \in 1..8 : start[i] \in Word
    <2>1. \A i \in 1..8 : start[i] = Word32(StateOf(in)[i])
      BY <1>1, CompressAssumption DEF WordsOf
    <2>. QED
      BY <2>1, WordType
  <1>. QED
    BY <1>2, <1>3 DEF RoundsInv, SidesCompressAlike, Sides

LEMMA RoundsInvRound == RoundsInv /\ Round => RoundsInv'
  <1>. SUFFICES ASSUME RoundsInv, Round PROVE RoundsInv'
    OBVIOUS
  <1>1. PICK k, w : working' = [s \in Sides |-> IF s = "circuit" THEN CircuitRound(working[s], k, w)
                                                ELSE HostRound(working[s], k, w)]
    BY DEF Round
  <1>2. PICK h : h = working["host"] /\ h = working["circuit"]
    BY DEF RoundsInv, SidesCompressAlike
  <1>3. \A i \in 1..8 : h[i] \in Word
    BY <1>2 DEF RoundsInv, Sides
  <1>4. PICK g : g = HostRound(h, k, w)
    OBVIOUS
  <1>5. CircuitRound(h, k, w) = g
    BY <1>3, <1>4, RoundsAgree
  <1>6. working'["circuit"] = g /\ working'["host"] = g
    BY <1>1, <1>2, <1>4, <1>5 DEF Sides
  <1>7. \A i \in 1..8 : g[i] \in Word
    BY <1>3, <1>4, RoundType
  <1>. QED
    BY <1>6, <1>7 DEF RoundsInv, SidesCompressAlike, Sides

LEMMA RoundsInvAdd == RoundsInv /\ AddToState => RoundsInv'
  <1>. SUFFICES ASSUME RoundsInv, AddToState PROVE RoundsInv'
    OBVIOUS
  <1>1. PICK v : working' = [s \in Sides |-> [i \in 1..8 |-> WrappingAdd(<<working[s][i], v[i]>>)]]
    BY DEF AddToState
  <1>2. PICK g : g = [i \in 1..8 |-> WrappingAdd(<<working["host"][i], v[i]>>)]
    OBVIOUS
  <1>3. working'["circuit"] = g /\ working'["host"] = g
    BY <1>1, <1>2 DEF RoundsInv, SidesCompressAlike, Sides
  <1>4. \A i \in 1..8 : g[i] \in Word
    <2>1. \A i \in 1..8 : g[i] = WrappingAdd(<<working["host"][i], v[i]>>)
      BY <1>2
    <2>. QED
      BY <2>1, AddType
  <1>. QED
    BY <1>3, <1>4 DEF RoundsInv, SidesCompressAlike, Sides

\* SidesCompressAlike: whatever the state and the block, and after every round, the
\* circuit and the host hold the same eight words.
THEOREM CompressionsAgree == RoundsSpec => []SidesCompressAlike
  <1>1. RoundsInit => RoundsInv
    BY RoundsInvStart
  <1>2. RoundsInv /\ [RoundsNext]_roundVars => RoundsInv'
    <2>. SUFFICES ASSUME RoundsInv, [RoundsNext]_roundVars PROVE RoundsInv'
      OBVIOUS
    <2>1. CASE ExtendSchedule
      BY <2>1 DEF ExtendSchedule, RoundsInv, SidesCompressAlike
    <2>2. CASE Round
      BY <2>2, RoundsInvRound
    <2>3. CASE AddToState
      BY <2>3, RoundsInvAdd
    <2>4. CASE UNCHANGED roundVars
      BY <2>4 DEF roundVars, RoundsInv, SidesCompressAlike
    <2>. QED
      BY <2>1, <2>2, <2>3, <2>4 DEF RoundsNext
  <1>3. RoundsInv => SidesCompressAlike
    BY DEF RoundsInv
  <1>. QED
    BY <1>1, <1>2, <1>3, PTL DEF RoundsSpec
=============================================================================
