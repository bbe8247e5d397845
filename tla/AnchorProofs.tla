---------------------------- MODULE AnchorProofs ----------------------------
(***************************************************************************)
(* For every prime field, size of the anchor, set of identities and        *)
(* random number that the assumptions admit: the solver of linear          *)
(* systems is exact, the search for a selection decides as the algebra     *)
(* of AnchorProtocol does, and a batch of proofs closes exactly when       *)
(* holders of different registered slots made it.                          *)
(***************************************************************************)
EXTENDS AnchorSearch, FiniteSetTheorems, SequenceTheorems, TLAPS

-----------------------------------------------------------------------------
(* The field. Residues, and induction over the naturals.                   *)

\* The types of the field and of its two constants.
LEMMA PrimeType == P \in Nat /\ P > 1 /\ P \in Int /\ 0 \in GF /\ 1 \in GF /\ GF \subseteq Int
  BY PrimeAssumption DEF GF

\* What div and mod mean.
LEMMA Division ==
    ASSUME NEW x \in Int, NEW p \in Int, p > 0
    PROVE  x = p * (x \div p) + (x % p) /\ x \div p \in Int /\ x % p \in 0..(p - 1)
  OBVIOUS

\* The residue of an integer is in the field.
LEMMA Remainder ==
    ASSUME NEW x \in Int
    PROVE  x % P \in GF /\ x \div P \in Int /\ x = P * (x \div P) + (x % P)
  <1>1. P \in Int /\ P > 0
    BY PrimeAssumption
  <1>2. x = P * (x \div P) + (x % P)
    BY <1>1, Division
  <1>3. x \div P \in Int
    BY <1>1, Division
  <1>4. x % P \in 0..(P - 1)
    BY <1>1, Division
  <1>. QED
    BY <1>2, <1>3, <1>4 DEF GF

\* A member of the field is its own residue.
LEMMA SmallRemainder == ASSUME NEW x \in GF PROVE x % P = x
  <1>. P \in Nat /\ P > 1
    BY PrimeAssumption
  <1>. QED
    BY DEF GF

\* The only multiple of P within P of zero is zero.
LEMMA NearMultiple ==
    ASSUME NEW d \in Int, NEW k \in Int, d = P * k, d < P, -P < d
    PROVE  d = 0
  <1>. P \in Nat /\ P > 1
    BY PrimeAssumption
  <1>1. CASE k = 0
    BY <1>1
  <1>2. CASE k >= 1
    <2>1. P * k >= P * 1
      BY <1>2
    <2>. QED
      BY <2>1
  <1>3. CASE k <= -1
    <2>1. P * k <= P * (-1)
      BY <1>3
    <2>. QED
      BY <2>1
  <1>. QED
    BY <1>1, <1>2, <1>3

\* Integers that differ by a multiple of P have one residue.
LEMMA Congruent ==
    ASSUME NEW x \in Int, NEW y \in Int, NEW k \in Int, x = y + P * k
    PROVE  x % P = y % P
  <1>. P \in Nat /\ P > 1
    BY PrimeAssumption
  <1>. DEFINE q == x \div P  r == y \div P  a == x % P  b == y % P
  <1>1. a \in GF /\ q \in Int /\ x = P * q + a
    BY Remainder
  <1>2. b \in GF /\ r \in Int /\ y = P * r + b
    BY Remainder
  <1>. HIDE DEF q, r, a, b
  <1>. DEFINE d == a - b
  <1>3. d = P * (r + k - q)
    <2>1. a = x - P * q /\ b = y - P * r
      BY <1>1, <1>2 DEF GF
    <2>2. P * (r + k - q) = P * r + P * k - P * q
      BY <1>1, <1>2
    <2>. QED
      BY <2>1, <2>2, <1>1, <1>2
  <1>4. d < P /\ -P < d /\ d \in Int
    BY <1>1, <1>2 DEF GF
  <1>5. r + k - q \in Int
    BY <1>1, <1>2
  <1>6. d = 0
    BY <1>3, <1>4, <1>5, NearMultiple
  <1>7. a = b
    BY <1>1, <1>2, <1>6 DEF GF
  <1>. QED
    BY <1>7 DEF a, b

\* An integer is a residue and a multiple of P.
LEMMA Representative ==
    ASSUME NEW x \in Int
    PROVE  \E a \in GF, k \in Int : a = x % P /\ x = a + P * k
  <1>1. x \div P \in Int /\ x = P * (x \div P) + (x % P) /\ x % P \in Int
    BY Remainder DEF GF
  <1>2. x = (x % P) + P * (x \div P)
    BY <1>1, PrimeType
  <1>. QED
    BY <1>1, <1>2, Remainder

\* A summand may be reduced first.
LEMMA ReduceLeft ==
    ASSUME NEW x \in Int, NEW y \in Int
    PROVE  ((x % P) + y) % P = (x + y) % P
  <1>1. PICK a \in GF, k \in Int : a = x % P /\ x = a + P * k
    BY Representative
  <1>2. x + y \in Int /\ a + y \in Int /\ x + y = (a + y) + P * k
    BY <1>1, PrimeType DEF GF
  <1>3. (x + y) % P = (a + y) % P
    BY <1>2, Congruent
  <1>. QED
    BY <1>1, <1>3

\* And so may what is subtracted.
LEMMA ReduceSubtrahend ==
    ASSUME NEW x \in Int, NEW y \in Int
    PROVE  (x - (y % P)) % P = (x - y) % P
  <1>1. PICK b \in GF, k \in Int : b = y % P /\ y = b + P * k
    BY Representative
  <1>2. x - b \in Int /\ x - y \in Int /\ x - b = (x - y) + P * k
    BY <1>1, PrimeType DEF GF
  <1>3. (x - b) % P = (x - y) % P
    BY <1>2, Congruent
  <1>. QED
    BY <1>1, <1>3

\* The residue of a sum, from the residues of either side.
LEMMA ReduceSum ==
    ASSUME NEW x \in Int, NEW y \in Int
    PROVE  /\ ((x % P) + y) % P = (x + y) % P
           /\ (x + (y % P)) % P = (x + y) % P
           /\ (x - (y % P)) % P = (x - y) % P
           /\ ((x % P) - y) % P = (x - y) % P
  <1>1. x % P \in Int /\ y % P \in Int /\ -y \in Int
    BY Remainder DEF GF
  <1>2. ((x % P) + (-y)) % P = (x + (-y)) % P
    BY <1>1, ReduceLeft
  <1>3. (x % P) + (-y) = (x % P) - y /\ x + (-y) = x - y
    BY <1>1
  <1>4. x + (y % P) = (y % P) + x /\ x + y = y + x
    BY <1>1
  <1>. QED
    BY <1>2, <1>3, <1>4, ReduceLeft, ReduceSubtrahend

\* The residue of a product, from the residues of either side.
LEMMA ReduceProduct ==
    ASSUME NEW x \in Int, NEW y \in Int
    PROVE  /\ ((x % P) * y) % P = (x * y) % P
           /\ (x * (y % P)) % P = (x * y) % P
  <1>. P \in Nat /\ P > 1
    BY PrimeAssumption
  <1>1. ASSUME NEW a \in Int, NEW b \in Int PROVE ((a % P) * b) % P = (a * b) % P
    <2>. DEFINE q == a \div P s == a % P
    <2>2. q \in Int /\ s \in Int /\ a = P * q + s
      BY Remainder DEF GF
    <2>. HIDE DEF q, s
    <2>3. s * b = a * b + P * (-(q * b))
      <3>1. a * b = (P * q) * b + s * b
        BY <2>2
      <3>2. (P * q) * b = P * (q * b)
        BY <2>2
      <3>. QED
        BY <3>1, <3>2, <2>2
    <2>4. s * b \in Int /\ a * b \in Int /\ -(q * b) \in Int
      BY <2>2
    <2>5. (s * b) % P = (a * b) % P
      BY <2>3, <2>4, Congruent
    <2>. QED
      BY <2>5 DEF s
  <1>2. x * y = y * x /\ x * (y % P) = (y % P) * x
    BY Remainder DEF GF
  <1>. QED
    BY <1>1, <1>2

\* The operations stay in the field.
LEMMA FieldTypes ==
    ASSUME NEW x \in Int, NEW y \in Int
    PROVE  Plus(x, y) \in GF /\ Times(x, y) \in GF /\ Minus(x, y) \in GF
  BY Remainder DEF Plus, Times, Minus

\* A nonempty set of naturals has a least member. It stands in for the library's
\* induction, whose theorems take an operator.
LEMMA Least ==
    ASSUME NEW T \in SUBSET Nat, T # {}
    PROVE  \E m \in T : \A k \in T : m <= k
  <1>. DEFINE Upto == {0..m : m \in T}
              R == StrictSubsetOrdering(Nat)
              S == FiniteSubsetsOf(Nat)
  <1>1. IsWellFoundedOn(R, S)
    BY FS_StrictSubsetOrderingWellFounded
  <1>2. Upto \subseteq S
    <2>1. ASSUME NEW m \in T PROVE IsFiniteSet(0..m) /\ 0..m \subseteq Nat
      BY <2>1, FS_Interval
    <2>. QED
      BY <2>1 DEF FiniteSubsetsOf
  <1>3. Upto # {}
    OBVIOUS
  <1>4. \E x \in Upto : \A y \in Upto : ~(<<y, x>> \in R)
    <2>. HIDE DEF R, S, Upto
    <2>. QED
    BY <1>1, <1>2, <1>3, WFMin
  <1>5. PICK m \in T : \A k \in T : ~(<<0..k, 0..m>> \in R)
    BY <1>4
  <1>6. ASSUME NEW k \in T, k < m PROVE FALSE
    <2>1. 0..k \subseteq 0..m /\ 0..k # 0..m
      <3>1. m \in 0..m /\ m \notin 0..k
         BY <1>6
      <3>. QED
         BY <1>6, <3>1
    <2>2. <<0..k, 0..m>> \in R
      BY <2>1 DEF StrictSubsetOrdering
    <2>. QED
      BY <1>5, <2>2
  <1>. QED
    BY <1>6

\* Induction over the naturals, with the set of those for which a fact holds.
LEMMA Induct ==
    ASSUME NEW T, 0 \in T, \A n \in Nat : n \in T => n + 1 \in T
    PROVE  Nat \subseteq T
  <1>. SUFFICES ASSUME NEW z \in Nat, z \notin T PROVE FALSE
    OBVIOUS
  <1>1. PICK m \in Nat \ T : \A k \in Nat \ T : m <= k
    BY Least
  <1>2. m # 0 /\ m - 1 \in Nat
    BY <1>1
  <1>3. m - 1 \in T
    BY <1>1, <1>2
  <1>. QED
    BY <1>1, <1>2, <1>3

-----------------------------------------------------------------------------
(* Inner products, one term at a time.                                     *)

\* f holds the partial sums of the inner product of v and w.
IsSum(f, n, v, w) ==
    f = [i \in 0..n |-> IF i = 0 THEN 0 ELSE Plus(f[i - 1], v[i - 1] * w[i - 1])]

\* Partial sums are determined by the vectors.
LEMMA SumUnique ==
    ASSUME NEW v, NEW w, NEW n \in Nat, NEW m \in Nat, NEW f, NEW g,
           IsSum(f, n, v, w), IsSum(g, m, v, w),
           NEW i \in Nat, i <= n, i <= m
    PROVE  f[i] = g[i]
  <1>. DEFINE T == {k \in Nat : k <= n /\ k <= m => f[k] = g[k]}
  <1>1. 0 \in T
    BY DEF IsSum
  <1>2. ASSUME NEW k \in Nat, k \in T PROVE k + 1 \in T
    <2>. SUFFICES ASSUME k + 1 <= n, k + 1 <= m PROVE f[k + 1] = g[k + 1]
      OBVIOUS
    <2>1. f[k] = g[k]
      BY <1>2
    <2>2. f[k + 1] = Plus(f[k], v[k] * w[k])
      BY DEF IsSum
    <2>3. g[k + 1] = Plus(g[k], v[k] * w[k])
      BY DEF IsSum
    <2>. QED
      BY <2>1, <2>2, <2>3
  <1>. HIDE DEF T
  <1>3. Nat \subseteq T
    BY <1>1, <1>2, Induct
  <1>. QED
    BY <1>3 DEF T

\* Vectors of any length have partial sums.
LEMMA SumExists ==
    ASSUME NEW v, NEW w, NEW n \in Nat
    PROVE  \E f : IsSum(f, n, v, w)
  <1>. DEFINE T == {k \in Nat : \E f : IsSum(f, k, v, w)}
  <1>1. 0 \in T
    <2>. DEFINE f == [i \in 0..0 |-> 0]
    <2>1. IsSum(f, 0, v, w)
      BY DEF IsSum
    <2>. QED
      BY <2>1
  <1>2. ASSUME NEW k \in Nat, k \in T PROVE k + 1 \in T
    <2>1. PICK f : IsSum(f, k, v, w)
      BY <1>2
    <2>. DEFINE g == [i \in 0..(k + 1) |-> IF i <= k THEN f[i] ELSE Plus(f[k], v[k] * w[k])]
    <2>2. ASSUME NEW i \in 0..(k + 1)
          PROVE g[i] = IF i = 0 THEN 0 ELSE Plus(g[i - 1], v[i - 1] * w[i - 1])
      <3>1. CASE i <= k
        BY <2>1, <3>1 DEF IsSum
      <3>2. CASE i = k + 1
        <4>1. g[i] = Plus(f[k], v[k] * w[k]) /\ i # 0 /\ i - 1 = k
          BY <3>2
        <4>2. g[k] = f[k]
          OBVIOUS
        <4>. QED
          BY <4>1, <4>2
      <3>. QED
        BY <3>1, <3>2
    <2>3. IsSum(g, k + 1, v, w)
      BY <2>2 DEF IsSum
    <2>. QED
      BY <2>3
  <1>. HIDE DEF T
  <1>3. Nat \subseteq T
    BY <1>1, <1>2, Induct
  <1>. QED
    BY <1>3 DEF T

\* Dot is the last partial sum.
LEMMA DotIsSum ==
    ASSUME NEW v, NEW w, NEW n \in Nat, NEW f, IsSum(f, n, v, w)
    PROVE  Dot(n, v, w) = f[n]
  <1>. DEFINE S(g) == g = [i \in 0..n |-> IF i = 0 THEN 0 ELSE Plus(g[i - 1], v[i - 1] * w[i - 1])]
              sum == CHOOSE g : S(g)
  <1>1. Dot(n, v, w) = sum[n]
    BY DEF Dot
  <1>2. S(f)
    BY DEF IsSum
  <1>3. S(sum)
    <2>. HIDE DEF S
    <2>. QED
      BY <1>2
  <1>4. IsSum(sum, n, v, w)
    <2>. HIDE DEF sum
    <2>. QED
      BY <1>3 DEF IsSum
  <1>. HIDE DEF S, sum
  <1>5. sum[n] = f[n]
    BY <1>4, SumUnique
  <1>. QED
    BY <1>1, <1>5

\* Dot, one term at a time.
LEMMA DotStep ==
    ASSUME NEW v, NEW w, NEW n \in Nat
    PROVE  /\ Dot(0, v, w) = 0
           /\ Dot(n + 1, v, w) = Plus(Dot(n, v, w), v[n] * w[n])
  <1>1. Dot(0, v, w) = 0
    <2>1. PICK f : IsSum(f, 0, v, w)
      BY SumExists
    <2>2. Dot(0, v, w) = f[0]
      BY <2>1, DotIsSum
    <2>. QED
      BY <2>1, <2>2 DEF IsSum
  <1>2. PICK f : IsSum(f, n + 1, v, w)
    BY SumExists
  <1>3. PICK g : IsSum(g, n, v, w)
    BY SumExists
  <1>4. f[n] = g[n]
    BY <1>2, <1>3, SumUnique
  <1>5. f[n + 1] = Plus(f[n], v[n] * w[n])
    BY <1>2 DEF IsSum
  <1>6. Dot(n + 1, v, w) = f[n + 1] /\ Dot(n, v, w) = g[n]
    BY <1>2, <1>3, DotIsSum
  <1>. QED
    BY <1>1, <1>4, <1>5, <1>6

-----------------------------------------------------------------------------
(* Inner products as sums.                                                 *)

\* v holds integers at the first n places.
IsVector(n, v) == \A i \in 0..(n - 1) : v[i] \in Int

\* An inner product is in the field.
LEMMA DotType ==
    ASSUME NEW n \in Nat, NEW v, NEW w, IsVector(n, v), IsVector(n, w)
    PROVE  Dot(n, v, w) \in GF
  <1>1. CASE n = 0
    BY <1>1, DotStep, PrimeType
  <1>. DEFINE T == {k \in Nat : k <= n => Dot(k, v, w) \in GF}
  <1>2. 0 \in T
    BY DotStep, PrimeType
  <1>3. ASSUME NEW k \in Nat, k \in T PROVE k + 1 \in T
    <2>. SUFFICES ASSUME k + 1 <= n PROVE Dot(k + 1, v, w) \in GF
      OBVIOUS
    <2>1. v[k] \in Int /\ w[k] \in Int
      BY DEF IsVector
    <2>2. Dot(k, v, w) \in GF
      BY <1>3
    <2>. DEFINE d == Dot(k, v, w)  t == v[k] * w[k]
    <2>3. d \in Int
      BY <2>2, PrimeType
    <2>3b. t \in Int
      BY <2>1
    <2>. HIDE DEF d, t
    <2>4. Plus(d, t) \in GF
      BY <2>3, <2>3b, FieldTypes
    <2>. QED
      BY <2>4, DotStep DEF d, t
  <1>. HIDE DEF T
  <1>4. Nat \subseteq T
    BY <1>2, <1>3, Induct
  <1>. QED
    BY <1>4 DEF T

\* Inner products are linear in their terms.
LEMMA DotLinear ==
    ASSUME NEW n \in Nat, NEW c \in Int, NEW v, NEW w, NEW x, NEW y, NEW s, NEW t,
           IsVector(n, v), IsVector(n, w), IsVector(n, x), IsVector(n, y),
           IsVector(n, s), IsVector(n, t),
           \A i \in 0..(n - 1) : (s[i] * t[i]) % P = (v[i] * w[i] + c * (x[i] * y[i])) % P
    PROVE  Dot(n, s, t) = (Dot(n, v, w) + c * Dot(n, x, y)) % P
  <1>. DEFINE T == {k \in Nat : k <= n => Dot(k, s, t) = (Dot(k, v, w) + c * Dot(k, x, y)) % P}
  <1>1. 0 \in T
    <2>1. Dot(0, s, t) = 0 /\ Dot(0, v, w) = 0 /\ Dot(0, x, y) = 0
      BY DotStep
    <2>2. (0 + c * 0) % P = 0
      BY SmallRemainder, PrimeType
    <2>. QED
      BY <2>1, <2>2
  <1>2. ASSUME NEW k \in Nat, k \in T PROVE k + 1 \in T
    <2>. SUFFICES ASSUME k + 1 <= n
                  PROVE  Dot(k + 1, s, t) = (Dot(k + 1, v, w) + c * Dot(k + 1, x, y)) % P
      OBVIOUS
    <2>1. /\ Dot(k, s, t) = (Dot(k, v, w) + c * Dot(k, x, y)) % P
          /\ k \in 0..(n - 1)
      BY <1>2
    <2>2. /\ Dot(k + 1, s, t) = (Dot(k, s, t) + s[k] * t[k]) % P
          /\ Dot(k + 1, v, w) = (Dot(k, v, w) + v[k] * w[k]) % P
          /\ Dot(k + 1, x, y) = (Dot(k, x, y) + x[k] * y[k]) % P
      BY DotStep DEF Plus
    <2>3. /\ s[k] * t[k] \in Int /\ v[k] * w[k] \in Int /\ x[k] * y[k] \in Int
          /\ (s[k] * t[k]) % P = (v[k] * w[k] + c * (x[k] * y[k])) % P
      BY <2>1 DEF IsVector
    <2>4. Dot(k, v, w) \in Int /\ Dot(k, x, y) \in Int
      <3>1. IsVector(k, v) /\ IsVector(k, w) /\ IsVector(k, x) /\ IsVector(k, y)
        BY DEF IsVector
      <3>. QED
        BY <3>1, DotType, PrimeType
    <2>. DEFINE a == Dot(k, v, w)  b == Dot(k, x, y)  p == v[k] * w[k]  q == x[k] * y[k]
                z == s[k] * t[k]
    <2>5. /\ a \in Int /\ b \in Int /\ p \in Int /\ q \in Int /\ z \in Int
          /\ z % P = (p + c * q) % P
      BY <2>3, <2>4
    <2>6. /\ Dot(k + 1, s, t) = (((a + c * b) % P) + z) % P
          /\ Dot(k + 1, v, w) = (a + p) % P /\ Dot(k + 1, x, y) = (b + q) % P
      BY <2>1, <2>2
    <2>. HIDE DEF a, b, p, q, z
    <2>7. (((a + c * b) % P) + z) % P = (((a + p) % P) + c * ((b + q) % P)) % P
      <3>. DEFINE acb == a + c * b  pcq == p + c * q  ap == a + p  bq == b + q
      <3>1. /\ acb \in Int /\ pcq \in Int /\ ap \in Int /\ bq \in Int /\ c * bq \in Int
            /\ z \in Int
        BY <2>5
      <3>2. acb + pcq = ap + c * bq
        BY <2>5
      <3>. HIDE DEF acb, pcq, ap, bq
      <3>3. acb % P \in Int /\ bq % P \in Int /\ z % P \in Int /\ ap % P \in Int
        BY <3>1, Remainder DEF GF
      <3>4. ((acb % P) + z) % P = (acb + z) % P
        BY <3>1, ReduceSum
      <3>5. (acb + z) % P = (acb + (z % P)) % P
        BY <3>1, ReduceSum
      <3>6. (acb + (pcq % P)) % P = (acb + pcq) % P
        BY <3>1, ReduceSum
      <3>7. ((ap % P) + c * (bq % P)) % P = (ap + c * (bq % P)) % P
        <4>1. c * (bq % P) \in Int
          BY <3>3
        <4>. QED
          BY <4>1, <3>1, ReduceSum
      <3>8. (ap + c * (bq % P)) % P = (ap + c * bq) % P
        <4>1. (c * (bq % P)) % P = (c * bq) % P
          BY <3>1, ReduceProduct
        <4>2. c * (bq % P) \in Int
          BY <3>3
        <4>. DEFINE cs == c * (bq % P)  cbq == c * bq
        <4>3. cs \in Int /\ cbq \in Int /\ cs % P = cbq % P
          BY <4>1, <4>2, <3>1
        <4>. HIDE DEF cs, cbq
        <4>4. (ap + cs) % P = (ap + cbq) % P
          BY <4>3, <3>1, ReduceSum
        <4>. QED
          BY <4>4 DEF cs, cbq
      <3>9. z % P = pcq % P
        BY <2>5 DEF pcq
      <3>10. ((acb % P) + z) % P = (ap + c * bq) % P
        BY <3>2, <3>4, <3>5, <3>6, <3>9
      <3>11. ((acb % P) + z) % P = ((ap % P) + c * (bq % P)) % P
        BY <3>7, <3>8, <3>10
      <3>. QED
        BY <3>11 DEF acb, ap, bq
    <2>. QED
      BY <2>6, <2>7
  <1>. HIDE DEF T
  <1>3. Nat \subseteq T
    BY <1>1, <1>2, Induct
  <1>. QED
    BY <1>3 DEF T

\* A sum depends on its terms' residues only.
LEMMA DotSame ==
    ASSUME NEW n \in Nat, NEW v, NEW w, NEW s, NEW t,
           IsVector(n, v), IsVector(n, w), IsVector(n, s), IsVector(n, t),
           \A i \in 0..(n - 1) : (s[i] * t[i]) % P = (v[i] * w[i]) % P
    PROVE  Dot(n, s, t) = Dot(n, v, w)
  <1>1. ASSUME NEW i \in 0..(n - 1)
        PROVE  (s[i] * t[i]) % P = (v[i] * w[i] + 0 * (v[i] * w[i])) % P
    <2>1. v[i] * w[i] \in Int
      BY DEF IsVector
    <2>2. v[i] * w[i] + 0 * (v[i] * w[i]) = v[i] * w[i]
      BY <2>1
    <2>. QED
      BY <2>2
  <1>2. Dot(n, s, t) = (Dot(n, v, w) + 0 * Dot(n, v, w)) % P
    BY <1>1, DotLinear
  <1>3. Dot(n, v, w) \in GF /\ Dot(n, v, w) \in Int
    BY DotType, PrimeType
  <1>4. Dot(n, v, w) + 0 * Dot(n, v, w) = Dot(n, v, w)
    BY <1>3
  <1>. QED
    BY <1>2, <1>3, <1>4, SmallRemainder

\* A sum of which every term but one vanishes is that term.
LEMMA DotSingle ==
    ASSUME NEW n \in Nat, NEW v, NEW w, IsVector(n, v), IsVector(n, w),
           NEW j \in 0..(n - 1), \A i \in 0..(n - 1) : i # j => (v[i] * w[i]) % P = 0
    PROVE  Dot(n, v, w) = (v[j] * w[j]) % P
  <1>. DEFINE z == v[j] * w[j]
              T == {k \in Nat : k <= n => Dot(k, v, w) = IF k <= j THEN 0 ELSE z % P}
  <1>1. 0 \in T
    BY DotStep
  <1>2. ASSUME NEW k \in Nat, k \in T PROVE k + 1 \in T
    <2>. SUFFICES ASSUME k + 1 <= n
                  PROVE  Dot(k + 1, v, w) = IF k + 1 <= j THEN 0 ELSE z % P
      OBVIOUS
    <2>. DEFINE d == Dot(k, v, w)  t == v[k] * w[k]
    <2>1. Dot(k + 1, v, w) = (d + t) % P /\ d = IF k <= j THEN 0 ELSE z % P
      BY <1>2, DotStep DEF Plus
    <2>2. t \in Int /\ z \in Int
      BY DEF IsVector
    <2>3. d \in Int /\ z % P \in GF
      BY <2>1, <2>2, Remainder DEF GF
    <2>4. k # j => t % P = 0
      OBVIOUS
    <2>5. k = j => t = z
      OBVIOUS
    <2>. HIDE DEF d, t, z
    <2>6. (d + t) % P = (d + (t % P)) % P
      BY <2>2, <2>3, ReduceSum
    <2>7. CASE k = j
      <3>1. d = 0 /\ d + t = z
        BY <2>1, <2>2, <2>5, <2>7
      <3>. QED
        BY <2>1, <2>7, <3>1
    <2>8. CASE k < j
      <3>1. d = 0 /\ d + (t % P) = 0
        BY <2>1, <2>4, <2>8
      <3>. QED
        BY <2>1, <2>6, <2>8, <3>1, SmallRemainder, PrimeType
    <2>9. CASE k > j
      <3>1. d = z % P /\ d + (t % P) = d
        BY <2>1, <2>3, <2>4, <2>9
      <3>. QED
        BY <2>1, <2>3, <2>6, <2>9, <3>1, SmallRemainder
    <2>. QED
      BY <2>7, <2>8, <2>9
  <1>. HIDE DEF T, z
  <1>3. Nat \subseteq T
    BY <1>1, <1>2, Induct
  <1>. QED
    BY <1>3 DEF T, z

\* A sum of terms that vanish vanishes.
LEMMA DotZero ==
    ASSUME NEW n \in Nat, NEW v, NEW w, IsVector(n, v), IsVector(n, w),
           \A i \in 0..(n - 1) : (v[i] * w[i]) % P = 0
    PROVE  Dot(n, v, w) = 0
  <1>1. CASE n = 0
    BY <1>1, DotStep
  <1>2. CASE n # 0
    <2>1. 0 \in 0..(n - 1)
      BY <1>2
    <2>2. Dot(n, v, w) = (v[0] * w[0]) % P
      BY <2>1, DotSingle
    <2>. QED
      BY <2>1, <2>2
  <1>. QED
    BY <1>1, <1>2

\* A sum whose first terms vanish is the sum of the others.
LEMMA DotTail ==
    ASSUME NEW n \in Nat, NEW v, NEW w, IsVector(n, v), IsVector(n, w), NEW k \in 0..n,
           \A i \in 0..(k - 1) : (v[i] * w[i]) % P = 0
    PROVE  Dot(n, v, w) = Dot(n - k, [i \in 0..(n - k - 1) |-> v[k + i]],
                                     [i \in 0..(n - k - 1) |-> w[k + i]])
  <1>. DEFINE s == [i \in 0..(n - k - 1) |-> v[k + i]]  t == [i \in 0..(n - k - 1) |-> w[k + i]]
              T == {m \in Nat : m <= n - k => Dot(k + m, v, w) = Dot(m, s, t)}
  <1>1. 0 \in T
    <2>1. IsVector(k, v) /\ IsVector(k, w)
      BY DEF IsVector
    <2>2. Dot(k, v, w) = 0
      BY <2>1, DotZero
    <2>3. Dot(0, s, t) = 0 /\ k + 0 = k
      BY DotStep
    <2>. QED
      BY <2>2, <2>3
  <1>2. ASSUME NEW m \in Nat, m \in T PROVE m + 1 \in T
    <2>. SUFFICES ASSUME m + 1 <= n - k PROVE Dot(k + (m + 1), v, w) = Dot(m + 1, s, t)
      OBVIOUS
    <2>1. Dot(k + m, v, w) = Dot(m, s, t)
      BY <1>2
    <2>2. s[m] = v[k + m] /\ t[m] = w[k + m]
      OBVIOUS
    <2>3. k + m \in Nat /\ k + (m + 1) = (k + m) + 1
      OBVIOUS
    <2>. HIDE DEF s, t
    <2>4. Dot((k + m) + 1, v, w) = Plus(Dot(k + m, v, w), v[k + m] * w[k + m])
      BY <2>3, DotStep
    <2>5. Dot(m + 1, s, t) = Plus(Dot(m, s, t), s[m] * t[m])
      BY DotStep
    <2>. QED
      BY <2>1, <2>2, <2>3, <2>4, <2>5
  <1>. HIDE DEF T, s, t
  <1>3. Nat \subseteq T
    BY <1>1, <1>2, Induct
  <1>4. n - k \in Nat /\ k + (n - k) = n
    OBVIOUS
  <1>5. Dot(k + (n - k), v, w) = Dot(n - k, s, t)
    BY <1>3, <1>4 DEF T
  <1>. QED
    BY <1>4, <1>5 DEF s, t

-----------------------------------------------------------------------------
(* No zero divisors, and inverses.                                         *)

(* The field has no zero divisors. *)

\* The field has no zero divisors: a product below P of numbers below a prime is not a
\* multiple of it.
LEMMA FieldIntegral ==
    ASSUME NEW x \in GF, NEW y \in GF, Times(x, y) = 0
    PROVE  x = 0 \/ y = 0
  <1>. SUFFICES ASSUME x # 0, y # 0 PROVE FALSE
    OBVIOUS
  <1>1. /\ x \in Int /\ y \in Int /\ 0 < x /\ x < P /\ 0 < y /\ y < P
        /\ P \in Int /\ P > 1
    BY PrimeType DEF GF
  <1>. DEFINE T == {d \in Nat : d >= 1 /\ (d * y) % P = 0}
  <1>2. x \in T
    BY <1>1 DEF Times
  <1>3. PICK m \in T : \A k \in T : m <= k
    <2>1. T \in SUBSET Nat /\ T # {}
      BY <1>2
    <2>. HIDE DEF T
    <2>. QED
      BY <2>1, Least
  <1>4. m \in Nat /\ m >= 1 /\ (m * y) % P = 0 /\ m <= x
    BY <1>2, <1>3
  <1>5. m # 1
    BY <1>1, <1>4, SmallRemainder
  <1>6. P % m # 0
    <2>1. m \in 2..(P - 1)
      BY <1>1, <1>4, <1>5
    <2>2. \A d \in 2..(P - 1) : P % d # 0
      BY PrimeAssumption
    <2>. QED
      BY <2>1, <2>2, Zenon
  <1>. DEFINE e == P \div m  r == P % m
  <1>7. P = m * e + r /\ e \in Int /\ r \in 0..(m - 1)
    BY <1>1, <1>4, Division
  <1>. HIDE DEF e, r
  <1>8. (r * y) % P = 0
    <2>. DEFINE my == m * y  ry == r * y
    <2>1. my \in Int /\ ry \in Int
      BY <1>1, <1>4, <1>7
    <2>2. \E k \in Int : my = 0 + P * k
      BY <1>4, <2>1, Representative
    <2>3. PICK k \in Int : my = P * k
      BY <2>2, <1>1
    <2>4. ry = 0 + P * (y - e * k)
      <3>1. P * y = m * e * y + ry
        BY <1>1, <1>4, <1>7
      <3>2. m * e * y = e * my
        BY <1>1, <1>4, <1>7
      <3>3. e * my = P * (e * k)
        BY <1>1, <1>7, <2>3
      <3>4. P * (y - e * k) = P * y - P * (e * k)
        BY <1>1, <1>7
      <3>. HIDE DEF my, ry
      <3>5. P * y \in Int /\ P * (e * k) \in Int
        BY <1>1, <1>7
      <3>. QED
        BY <2>1, <3>1, <3>2, <3>3, <3>4, <3>5
    <2>5. y - e * k \in Int
      BY <1>1, <1>7
    <2>. HIDE DEF ry
    <2>6. ry % P = 0 % P
      BY <2>1, <2>4, <2>5, Congruent
    <2>. QED
      BY <2>6, SmallRemainder, PrimeType DEF ry
  <1>9. r # 0
    BY <1>6 DEF r
  <1>10. r \in T
    BY <1>7, <1>8, <1>9
  <1>. QED
    BY <1>3, <1>4, <1>7, <1>10

\* A difference vanishes only between equals.
LEMMA ZeroDifference ==
    ASSUME NEW x \in GF, NEW y \in GF, Minus(x, y) = 0
    PROVE  x = y
  <1>1. x \in Int /\ y \in Int /\ x - y \in Int /\ x - y < P /\ -P < x - y /\ P \in Int
    BY PrimeType DEF GF
  <1>2. PICK a \in GF, k \in Int : a = (x - y) % P /\ x - y = a + P * k
    BY <1>1, Representative
  <1>3. x - y = P * k
    BY <1>1, <1>2 DEF Minus
  <1>. DEFINE d == x - y
  <1>4. d = 0
    <2>1. d \in Int /\ d = P * k /\ d < P /\ -P < d
      BY <1>1, <1>3
    <2>. HIDE DEF d
    <2>. QED
      BY <2>1, NearMultiple
  <1>. QED
    BY <1>1, <1>4

\* Multiplication distributes over subtraction.
LEMMA TimesMinus ==
    ASSUME NEW x \in Int, NEW y \in Int, NEW z \in Int
    PROVE  Times(x, Minus(y, z)) = Minus(Times(x, y), Times(x, z))
  <1>. DEFINE d == y - z  u == x * y  v == x * z
  <1>1. d \in Int /\ u \in Int /\ v \in Int /\ x * d = u - v
    OBVIOUS
  <1>2. Times(x, Minus(y, z)) = (x * (d % P)) % P /\ Minus(Times(x, y), Times(x, z)) = ((u % P) - (v % P)) % P
    BY DEF Times, Minus
  <1>. HIDE DEF d, u, v
  <1>3. (x * (d % P)) % P = (x * d) % P
    BY <1>1, ReduceProduct
  <1>4. u % P \in Int /\ v % P \in Int
    BY <1>1, Remainder DEF GF
  <1>5. ((u % P) - (v % P)) % P = (u - (v % P)) % P
    BY <1>1, <1>4, ReduceSum
  <1>6. (u - (v % P)) % P = (u - v) % P
    BY <1>1, ReduceSum
  <1>. QED
    BY <1>1, <1>2, <1>3, <1>5, <1>6

\* A factor that is not zero cancels.
LEMMA Cancel ==
    ASSUME NEW x \in GF, NEW y \in GF, NEW z \in GF, x # 0, Times(x, y) = Times(x, z)
    PROVE  y = z
  <1>1. x \in Int /\ y \in Int /\ z \in Int
    BY PrimeType
  <1>2. Times(x, Minus(y, z)) = Minus(Times(x, y), Times(x, z))
    BY <1>1, TimesMinus
  <1>3. Times(x, y) \in GF /\ Minus(y, z) \in GF
    BY <1>1, FieldTypes
  <1>4. Minus(Times(x, y), Times(x, z)) = 0
    <2>. DEFINE t == Times(x, y)
    <2>1. t \in Int
      BY <1>3, PrimeType
    <2>. HIDE DEF t
    <2>2. t - t = 0
      BY <2>1
    <2>3. Minus(t, t) = 0
      BY <2>2, SmallRemainder, PrimeType DEF Minus
    <2>. QED
      BY <2>3 DEF t
  <1>5. Minus(y, z) = 0
    BY <1>2, <1>3, <1>4, FieldIntegral
  <1>. QED
    BY <1>5, ZeroDifference

\* The field is finite.
LEMMA FieldIsFinite == IsFiniteSet(GF)
  <1>1. 0 \in Int /\ P - 1 \in Int
    BY PrimeType
  <1>2. IsFiniteSet(0..(P - 1))
    BY <1>1, FS_Interval
  <1>. QED
    BY <1>2 DEF GF

\* FieldInverse chooses an inverse: multiplication by x is injective on a finite set,
\* hence onto.
LEMMA InverseExists ==
    ASSUME NEW x \in GF, x # 0
    PROVE  FieldInverse(x) \in GF /\ Times(x, FieldInverse(x)) = 1
  <1>. DEFINE f == [y \in GF |-> Times(x, y)]
  <1>1. f \in [GF -> GF]
    BY FieldTypes, PrimeType
  <1>2. \A y, z \in GF : f[y] = f[z] => y = z
    BY Cancel
  <1>3. f \in Injection(GF, GF)
    BY <1>1, <1>2 DEF Injection, IsInjective
  <1>. HIDE DEF f
  <1>4. f \in Surjection(GF, GF)
    BY <1>3, FieldIsFinite, FS_Injection, Zenon
  <1>5. PICK y \in GF : f[y] = 1
    BY <1>4, PrimeType DEF Surjection
  <1>6. Times(x, y) = 1
    BY <1>5 DEF f
  <1>. QED
    BY <1>6 DEF FieldInverse

-----------------------------------------------------------------------------
(* Operations on vectors, and how many vectors there are.                  *)

\* A vector over the field is a vector of integers.
LEMMA FieldVector == ASSUME NEW n \in Nat, NEW v \in [0..(n - 1) -> GF] PROVE IsVector(n, v)
  BY PrimeType DEF IsVector

\* Subtraction as the addition of a multiple.
LEMMA NegateProduct == ASSUME NEW a \in Int, NEW b \in Int PROVE a + (-1) * b = a - b
  OBVIOUS

\* Subtracting a multiple of one row from another.
RowMinus(n, a, b, f) == [i \in 0..(n - 1) |-> Minus(a[i], b[i] * f)]

\* The inner product of a row after the operation.
LEMMA RowOperation ==
    ASSUME NEW n \in Nat, NEW a \in [0..(n - 1) -> GF], NEW b \in [0..(n - 1) -> GF],
           NEW x \in [0..(n - 1) -> GF], NEW f \in Int
    PROVE  Dot(n, RowMinus(n, a, b, f), x) = (Dot(n, a, x) - Dot(n, b, x) * f) % P
  <1>. DEFINE c == RowMinus(n, a, b, f)
  <1>0. /\ \A i \in 0..(n - 1) : c[i] = Minus(a[i], b[i] * f)
        /\ c \in [0..(n - 1) -> GF]
    <2>1. ASSUME NEW i \in 0..(n - 1) PROVE a[i] \in Int /\ b[i] * f \in Int
      <3>1. a[i] \in Int /\ b[i] \in Int
        BY PrimeType
      <3>. QED
        BY <3>1
    <2>2. \A i \in 0..(n - 1) : Minus(a[i], b[i] * f) \in GF
      BY <2>1, FieldTypes
    <2>. QED
      BY <2>2 DEF RowMinus
  <1>. HIDE DEF c
  <1>1. ASSUME NEW i \in 0..(n - 1)
        PROVE  (c[i] * x[i]) % P = (a[i] * x[i] + (-f) * (b[i] * x[i])) % P
    <2>1. a[i] \in Int /\ b[i] \in Int /\ x[i] \in Int /\ c[i] = (a[i] - b[i] * f) % P
      BY <1>0, PrimeType DEF Minus
    <2>. DEFINE A == a[i]  B == b[i]  X == x[i]  d == A - B * f
    <2>2. A \in Int /\ B \in Int /\ X \in Int
      BY <2>1
    <2>3. c[i] = d % P
      BY <2>1
    <2>. HIDE DEF A, B, X
    <2>4. d \in Int
      BY <2>2
    <2>5. d * X = A * X + (-f) * (B * X)
      <3>1. d * X = A * X - (B * f) * X
        BY <2>2
      <3>2. (B * f) * X = f * (B * X)
        BY <2>2
      <3>3. (-f) * (B * X) = -(f * (B * X))
        BY <2>2
      <3>4. A * X \in Int /\ f * (B * X) \in Int
        BY <2>2
      <3>. QED
        BY <3>1, <3>2, <3>3, <3>4
    <2>. HIDE DEF d
    <2>6. ((d % P) * X) % P = (d * X) % P
      BY <2>2, <2>4, ReduceProduct
    <2>. QED
      BY <2>3, <2>5, <2>6 DEF A, B, X
  <1>2. /\ IsVector(n, a) /\ IsVector(n, b) /\ IsVector(n, c) /\ IsVector(n, x) /\ -f \in Int
    BY <1>0, FieldVector
  <1>3. Dot(n, c, x) = (Dot(n, a, x) + (-f) * Dot(n, b, x)) % P
    BY <1>1, <1>2, DotLinear
  <1>4. Dot(n, a, x) \in Int /\ Dot(n, b, x) \in Int
    BY <1>2, DotType, PrimeType
  <1>5. Dot(n, a, x) + (-f) * Dot(n, b, x) = Dot(n, a, x) - Dot(n, b, x) * f
    BY <1>4
  <1>. QED
    BY <1>3, <1>5 DEF c

\* The inner product of a difference.
LEMMA DotMinus ==
    ASSUME NEW n \in Nat, NEW v \in [0..(n - 1) -> GF],
           NEW x \in [0..(n - 1) -> GF], NEW y \in [0..(n - 1) -> GF]
    PROVE  LET z == [i \in 0..(n - 1) |-> Minus(x[i], y[i])]
           IN  z \in [0..(n - 1) -> GF] /\ Dot(n, v, z) = Minus(Dot(n, v, x), Dot(n, v, y))
  <1>. DEFINE z == [i \in 0..(n - 1) |-> Minus(x[i], y[i])]
  <1>1. ASSUME NEW i \in 0..(n - 1)
        PROVE  z[i] \in GF /\ (v[i] * z[i]) % P = (v[i] * x[i] + (-1) * (v[i] * y[i])) % P
    <2>. DEFINE V == v[i]  X == x[i]  Y == y[i]  d == X - Y
    <2>0. V \in Int /\ X \in Int /\ Y \in Int
      BY PrimeType
    <2>1. V \in Int /\ X \in Int /\ Y \in Int /\ d \in Int /\ z[i] = d % P
      BY <2>0 DEF Minus
    <2>. HIDE DEF V, X, Y
    <2>2. V * d = V * X + (-1) * (V * Y)
      <3>1. V * d = V * X - V * Y /\ V * X \in Int /\ V * Y \in Int
        BY <2>1
      <3>. QED
        BY <3>1, NegateProduct
    <2>. HIDE DEF d, z
    <2>3. (V * (d % P)) % P = (V * d) % P
      BY <2>1, ReduceProduct
    <2>4. d % P \in GF
      BY <2>1, Remainder
    <2>. QED
      BY <2>1, <2>2, <2>3, <2>4 DEF V, X, Y
  <1>2. z \in [0..(n - 1) -> GF]
    BY <1>1
  <1>. HIDE DEF z
  <1>3. IsVector(n, v) /\ IsVector(n, x) /\ IsVector(n, y) /\ IsVector(n, z) /\ -1 \in Int
    BY <1>2, FieldVector
  <1>4. Dot(n, v, z) = (Dot(n, v, x) + (-1) * Dot(n, v, y)) % P
    BY <1>1, <1>3, DotLinear
  <1>5. Dot(n, v, x) \in Int /\ Dot(n, v, y) \in Int
    BY <1>3, DotType, PrimeType
  <1>6. Dot(n, v, z) = Minus(Dot(n, v, x), Dot(n, v, y))
    BY <1>4, <1>5, NegateProduct DEF Minus
  <1>. QED
    BY <1>2, <1>6 DEF z

\* Nothing is left of a number less itself.
LEMMA MinusSelf == ASSUME NEW x \in Int PROVE Minus(x, x) = 0
  <1>1. x - x = 0
    OBVIOUS
  <1>. QED
    BY <1>1, SmallRemainder, PrimeType DEF Minus

\* A product with zero vanishes.
LEMMA ProductZero == ASSUME NEW x \in Int PROVE (0 * x) % P = 0 /\ (x * 0) % P = 0
  <1>1. 0 * x = 0 /\ x * 0 = 0
    OBVIOUS
  <1>. QED
    BY <1>1, SmallRemainder, PrimeType

\* What cancels from both sides of an equation.
LEMMA CancelSum ==
    ASSUME NEW x \in GF, NEW y \in GF, NEW k \in Int, (x + k) % P = (y + k) % P
    PROVE  x = y
  <1>1. x \in Int /\ y \in Int
    BY PrimeType
  <1>. DEFINE d == x + k  e == y + k
  <1>2. d \in Int /\ e \in Int /\ d % P = e % P /\ d - k = x /\ e - k = y
    BY <1>1
  <1>. HIDE DEF d, e
  <1>3. ((d % P) - k) % P = (d - k) % P /\ ((e % P) - k) % P = (e - k) % P
    BY <1>2, ReduceSum
  <1>4. x % P = y % P
    BY <1>2, <1>3
  <1>. QED
    BY <1>4, SmallRemainder

\* There are finitely many functions between finite sets.
LEMMA FiniteFunctions ==
    ASSUME NEW S, NEW T, IsFiniteSet(S), IsFiniteSet(T)
    PROVE  IsFiniteSet([S -> T])
  <1>. DEFINE graph == [f \in [S -> T] |-> {<<i, f[i]>> : i \in S}]
  <1>1. graph \in [[S -> T] -> SUBSET (S \X T)]
    OBVIOUS
  <1>2. ASSUME NEW f \in [S -> T], NEW g \in [S -> T], graph[f] = graph[g] PROVE f = g
    <2>1. {<<i, f[i]>> : i \in S} = {<<i, g[i]>> : i \in S}
      BY <1>2
    <2>2. ASSUME NEW i \in S PROVE f[i] = g[i]
      <3>1. <<i, f[i]>> \in {<<k, g[k]>> : k \in S}
        BY <2>1
      <3>2. PICK k \in S : <<i, f[i]>> = <<k, g[k]>>
        BY <3>1
      <3>. QED
        BY <3>2
    <2>. QED
      BY <2>2
  <1>3. graph \in Injection([S -> T], SUBSET (S \X T))
    BY <1>1, <1>2 DEF Injection, IsInjective
  <1>. HIDE DEF graph
  <1>4. IsFiniteSet(SUBSET (S \X T))
    BY FS_Product, FS_SUBSET
  <1>. QED
    BY <1>3, <1>4, FS_Injection

\* There are more vectors with one more place.
LEMMA MoreVectors ==
    ASSUME NEW c \in Nat
    PROVE  /\ IsFiniteSet([0..(c - 1) -> GF]) /\ IsFiniteSet([0..c -> GF])
           /\ Cardinality([0..(c - 1) -> GF]) < Cardinality([0..c -> GF])
  <1>. DEFINE A == [0..c -> GF]  B == [0..(c - 1) -> GF]
              pad == [h \in B |-> [i \in 0..c |-> IF i < c THEN h[i] ELSE 0]]
  <1>1. IsFiniteSet(0..c) /\ IsFiniteSet(0..(c - 1))
    <2>1. 0 \in Int /\ c \in Int /\ c - 1 \in Int
      OBVIOUS
    <2>. QED
      BY <2>1, FS_Interval
  <1>2. IsFiniteSet(A) /\ IsFiniteSet(B)
    BY <1>1, FieldIsFinite, FiniteFunctions
  <1>3. pad \in [B -> A]
    BY PrimeType
  <1>4. ASSUME NEW g \in B, NEW h \in B, pad[g] = pad[h] PROVE g = h
    <2>1. ASSUME NEW i \in 0..(c - 1) PROVE g[i] = h[i]
      <3>1. pad[g][i] = g[i] /\ pad[h][i] = h[i]
        OBVIOUS
      <3>. QED
        BY <3>1, <1>4
    <2>. QED
      BY <2>1
  <1>5. pad \in Injection(B, A)
    BY <1>3, <1>4 DEF Injection, IsInjective
  <1>6. ASSUME pad \in Surjection(B, A) PROVE FALSE
    <2>. DEFINE one == [i \in 0..c |-> 1]
    <2>1. one \in A
      BY PrimeType
    <2>2. PICK h \in B : pad[h] = one
      <3>. HIDE DEF pad, one, A, B
      <3>. QED
        BY <1>6, <2>1 DEF Surjection
    <2>3. pad[h][c] = 0 /\ one[c] = 1
      OBVIOUS
    <2>. QED
      BY <2>2, <2>3
  <1>. HIDE DEF A, B, pad
  <1>7. Cardinality(B) <= Cardinality(A) /\ (Cardinality(B) = Cardinality(A) <=> pad \in Surjection(B, A))
    BY <1>2, <1>5, FS_Injection
  <1>8. Cardinality(A) \in Nat /\ Cardinality(B) \in Nat
    BY <1>2, FS_CardinalityType
  <1>9. Cardinality(B) < Cardinality(A)
    BY <1>6, <1>7, <1>8
  <1>. QED
    BY <1>2, <1>9 DEF A, B

-----------------------------------------------------------------------------
(* The solver: what elimination keeps and establishes.                     *)

\* The arguments of a call (SystemsAssumption, of the system at hand).
SystemOK ==
    /\ system.size \in Nat \ {0}
    /\ \A r, c \in Indices : system.matrix[r][c] \in GF
    /\ system.target \in [Indices -> GF]

\* x satisfies the equations that m and v stand for.
Satisfies(m, v, x) == \A r \in Indices : Dot(Order, m[r], x) = v[r]

\* The first c columns hold a pivot and nothing below it.
Triangular(m, c) ==
    \A i \in 0..(c - 1) : m[i][i] # 0 /\ \A r \in (i + 1)..(Order - 1) : m[r][i] = 0

\* The types of the working matrix, right-hand side and answer.
Shape == rows \in [Indices -> [Indices -> GF]] /\ rhs \in [Indices -> GF] /\ solution \in [Indices -> GF]

\* Row operations keep the solutions.
SameSolutions == \A x \in [Indices -> GF] : x \in Solutions <=> Satisfies(rows, rhs, x)

\* The inductive invariant of the solver: what every stage has established of the rows,
\* the right-hand side and the answer so far.
SolveInv ==
    /\ solveAt \in {"idle", "ready", "eliminate", "substitute", "solved", "singular"}
    /\ solveAt # "idle" => SystemOK
    /\ solveAt \notin {"idle", "ready"} => Shape /\ SameSolutions
    /\ solveAt = "eliminate" =>
        column \in 0..Order /\ Triangular(rows, column) /\ \A i \in Indices : solution[i] = 0
    /\ solveAt = "substitute" =>
        /\ column \in Indices /\ Triangular(rows, Order)
        /\ \A i \in 0..column : solution[i] = 0
        /\ \A r \in (column + 1)..(Order - 1) : Dot(Order, rows[r], solution) = rhs[r]
    /\ solveAt = "solved" => Triangular(rows, Order) /\ Satisfies(rows, rhs, solution)
    /\ solveAt = "singular" =>
        /\ column \in Indices /\ Triangular(rows, column)
        /\ \A r \in column..(Order - 1) : rows[r][column] = 0

\* A system has at least one equation.
LEMMA OrderType == ASSUME SystemOK PROVE Order \in Nat /\ Order > 0 /\ Order \in Int /\ 0 \in Indices
  BY DEF SystemOK, Order, Indices

\* It holds of a call that has not begun.
LEMMA InitSolve == SolveInit => SolveInv
  <1>. SUFFICES ASSUME SolveInit PROVE SolveInv
    OBVIOUS
  <1>1. solveAt = "ready" /\ system \in Systems
    BY DEF SolveInit
  <1>2. SystemOK
    BY <1>1, SystemsAssumption DEF SystemOK, Indices, Order
  <1>. QED
    BY <1>1, <1>2 DEF SolveInv

\* The transposed system is the one the call is about.
LEMMA TransposeStep == ASSUME SolveInv, Transpose PROVE SolveInv'
  <1>1. /\ solveAt = "ready" /\ solveAt' = "eliminate" /\ column' = 0 /\ system' = system
        /\ rows' = [r \in Indices |-> [c \in Indices |-> system.matrix[c][r]]]
        /\ rhs' = system.target /\ solution' = [i \in Indices |-> 0]
    BY DEF Transpose
  <1>2. SystemOK
    BY <1>1 DEF SolveInv
  <1>3. SystemOK' /\ Order' = Order /\ Indices' = Indices /\ Order \in Nat
    BY <1>1, <1>2, OrderType DEF SystemOK, Order, Indices
  <1>4. Shape'
    BY <1>1, <1>2, <1>3, PrimeType DEF Shape, SystemOK
  <1>5. SameSolutions'
    <2>. SUFFICES ASSUME NEW x \in [Indices -> GF]
                  PROVE  x \in Solutions' <=> Satisfies(rows, rhs, x)'
      BY <1>3 DEF SameSolutions
    <2>1. \A r \in Indices : rows'[r] = [c \in Indices |-> system.matrix[c][r]]
      BY <1>1
    <2>2. x \in Solutions' <=> \A r \in Indices : Dot(Order, [c \in Indices |-> system.matrix[c][r]], x) = system.target[r]
      BY <1>1, <1>3 DEF Solutions
    <2>3. Satisfies(rows, rhs, x)' <=> \A r \in Indices : Dot(Order, rows'[r], x) = rhs'[r]
      BY <1>3 DEF Satisfies
    <2>4. ASSUME NEW r \in Indices
          PROVE  /\ Dot(Order, rows'[r], x) = Dot(Order, [c \in Indices |-> system.matrix[c][r]], x)
                 /\ rhs'[r] = system.target[r]
      BY <1>1, <2>1
    <2>. QED
      BY <2>2, <2>3, <2>4
  <1>6. column' \in 0..Order /\ Triangular(rows, column)' /\ \A i \in Indices : solution'[i] = 0
    BY <1>1, <1>3 DEF Triangular
  <1>. QED
    BY <1>1, <1>3, <1>4, <1>5, <1>6 DEF SolveInv

\* A round without a candidate ends the call with the column it failed in.
LEMMA SingularStep == ASSUME SolveInv, Singular PROVE SolveInv'
  <1>1. /\ solveAt = "eliminate" /\ solveAt' = "singular" /\ column < Order /\ Candidates = {}
        /\ UNCHANGED <<system, column, rows, rhs, solution>>
    BY DEF Singular
  <1>2. SystemOK /\ Shape /\ SameSolutions /\ column \in 0..Order /\ Triangular(rows, column)
    BY <1>1 DEF SolveInv
  <1>3. SystemOK' /\ Order' = Order /\ Indices' = Indices /\ Order \in Nat
    BY <1>1, <1>2, OrderType DEF SystemOK, Order, Indices
  <1>4. Shape' /\ SameSolutions' /\ Triangular(rows, column)'
    BY <1>1, <1>2, <1>3 DEF Shape, SameSolutions, Triangular, Solutions, Satisfies
  <1>5. column \in Indices
    BY <1>1, <1>2, <1>3 DEF Indices
  <1>6. \A r \in column..(Order - 1) : rows[r][column] = 0
    BY <1>1 DEF Candidates
  <1>. QED
    BY <1>1, <1>3, <1>4, <1>5, <1>6 DEF SolveInv

\* All columns cleared, substitution begins at the last row.
LEMMA TurnStep == ASSUME SolveInv, Turn PROVE SolveInv'
  <1>1. /\ solveAt = "eliminate" /\ solveAt' = "substitute" /\ column = Order
        /\ column' = Order - 1 /\ UNCHANGED <<system, rows, rhs, solution>>
    BY DEF Turn
  <1>2. /\ SystemOK /\ Shape /\ SameSolutions /\ Triangular(rows, column)
        /\ \A i \in Indices : solution[i] = 0
    BY <1>1 DEF SolveInv
  <1>3. SystemOK' /\ Order' = Order /\ Indices' = Indices /\ Order \in Nat /\ Order > 0
    BY <1>1, <1>2, OrderType DEF SystemOK, Order, Indices
  <1>4. Shape' /\ SameSolutions' /\ Triangular(rows, Order)'
    BY <1>1, <1>2, <1>3 DEF Shape, SameSolutions, Triangular, Solutions, Satisfies
  <1>5. column' \in Indices /\ \A i \in 0..column' : solution[i] = 0
    BY <1>1, <1>2, <1>3 DEF Indices
  <1>6. (column' + 1)..(Order - 1) = {}
    BY <1>1, <1>3
  <1>. QED
    BY <1>1, <1>3, <1>4, <1>5, <1>6 DEF SolveInv

-----------------------------------------------------------------------------
(* A round of elimination.                                                 *)

\* The least member is a member.
LEMMA MinMember ==
    ASSUME NEW S \in SUBSET Nat, S # {}
    PROVE  Min(S) \in S
  <1>1. \E x \in S : \A y \in S : x <= y
    BY Least
  <1>. QED
    BY <1>1 DEF Min

\* A swap and the subtraction of the pivot's row keep the solutions and clear one more
\* column.
LEMMA EliminateStep == ASSUME SolveInv, Eliminate PROVE SolveInv'
  <1>. DEFINE p == Min(Candidates)
              m == Swapped(rows, column, p)
              v == Swapped(rhs, column, p)
              inv == FieldInverse(m[column][column])
              factor(r) == Times(m[r][column], inv)
  <1>1. /\ solveAt = "eliminate" /\ column < Order /\ Candidates # {}
        /\ rows' = [r \in Indices |->
                      IF r <= column THEN m[r]
                      ELSE [c \in Indices |-> IF c < column THEN m[r][c]
                                              ELSE Minus(m[r][c], m[column][c] * factor(r))]]
        /\ rhs' = [r \in Indices |-> IF r <= column THEN v[r] ELSE Minus(v[r], v[column] * factor(r))]
        /\ column' = column + 1
        /\ UNCHANGED <<solveAt, system, solution>>
    BY DEF Eliminate, ClearBelow
  <1>2. /\ SystemOK /\ Shape /\ SameSolutions /\ column \in 0..Order /\ Triangular(rows, column)
        /\ \A i \in Indices : solution[i] = 0
    BY <1>1 DEF SolveInv
  <1>3. SystemOK' /\ Order' = Order /\ Indices' = Indices /\ Order \in Nat /\ Order > 0
    BY <1>1, <1>2, OrderType DEF SystemOK, Order, Indices
  <1>4. column \in Indices /\ column \in Nat /\ Indices = 0..(Order - 1)
    BY <1>1, <1>2, <1>3 DEF Indices
  <1>5. p \in column..(Order - 1) /\ rows[p][column] # 0 /\ p \in Indices
    <2>1. Candidates \in SUBSET Nat
      BY <1>3, <1>4 DEF Candidates
    <2>2. p \in Candidates
      BY <1>1, <2>1, MinMember
    <2>. QED
      BY <2>2, <1>4 DEF Candidates
  <1>6. /\ m \in [Indices -> [Indices -> GF]] /\ v \in [Indices -> GF]
        /\ m[column] = rows[p] /\ v[column] = rhs[p]
        /\ m[p] = rows[column] /\ v[p] = rhs[column]
        /\ \A r \in Indices : r # column /\ r # p => m[r] = rows[r] /\ v[r] = rhs[r]
    BY <1>2, <1>4, <1>5 DEF Swapped, Shape
  <1>. HIDE DEF p, m, v
  <1>7. Triangular(m, column)
    <2>. SUFFICES ASSUME NEW i \in 0..(column - 1)
                  PROVE  m[i][i] # 0 /\ \A r \in (i + 1)..(Order - 1) : m[r][i] = 0
      BY DEF Triangular
    <2>1. i \in Indices /\ i # column /\ i # p /\ i < column
      BY <1>1, <1>3, <1>4, <1>5
    <2>2. m[i] = rows[i]
      BY <1>6, <2>1
    <2>3. rows[i][i] # 0 /\ \A r \in (i + 1)..(Order - 1) : rows[r][i] = 0
      BY <1>2 DEF Triangular
    <2>4. ASSUME NEW r \in (i + 1)..(Order - 1) PROVE m[r][i] = 0
      <3>1. r \in Indices /\ column \in (i + 1)..(Order - 1) /\ p \in (i + 1)..(Order - 1)
        BY <1>3, <1>4, <1>5, <2>1
      <3>2. m[r] = rows[r] \/ m[r] = rows[column] \/ m[r] = rows[p]
        BY <1>6, <3>1
      <3>. QED
        BY <2>3, <3>1, <3>2
    <2>. QED
      BY <2>2, <2>3, <2>4
  <1>8. m[column][column] \in GF /\ m[column][column] # 0
    BY <1>4, <1>5, <1>6
  <1>9. inv \in GF /\ Times(m[column][column], inv) = 1
    BY <1>8, InverseExists
  <1>. HIDE DEF inv
  <1>10. \A r \in Indices : m[r][column] \in Int /\ inv \in Int /\ factor(r) \in GF /\ factor(r) \in Int
    <2>. SUFFICES ASSUME NEW r \in Indices
                  PROVE  m[r][column] \in Int /\ inv \in Int /\ factor(r) \in GF /\ factor(r) \in Int
      OBVIOUS
    <2>1. m[r][column] \in Int /\ inv \in Int
      BY <1>4, <1>6, <1>9, PrimeType
    <2>. QED
      BY <2>1, FieldTypes, PrimeType
  <1>11. /\ \A r \in Indices : r <= column => rows'[r] = m[r] /\ rhs'[r] = v[r]
         /\ \A r \in Indices : r > column =>
                /\ rows'[r] = [c \in Indices |-> IF c < column THEN m[r][c]
                                                 ELSE Minus(m[r][c], m[column][c] * factor(r))]
                /\ rhs'[r] = Minus(v[r], v[column] * factor(r))
    BY <1>1, <1>4
  <1>. HIDE DEF factor
  \* Every place of a row below is the difference: the places before the column are zero.
  <1>12. ASSUME NEW r \in Indices, r > column
         PROVE  /\ rows'[r] \in [Indices -> GF] /\ rhs'[r] \in GF
                /\ \A c \in Indices : rows'[r][c] = Minus(m[r][c], m[column][c] * factor(r))
    <2>1. ASSUME NEW c \in Indices
          PROVE  m[r][c] \in GF /\ m[r][c] \in Int /\ m[column][c] * factor(r) \in Int
      <3>1. m[r][c] \in GF /\ m[column][c] \in GF
        BY <1>4, <1>6
      <3>2. m[r][c] \in Int /\ m[column][c] \in Int
        BY <3>1, PrimeType
      <3>. QED
        BY <1>10, <3>1, <3>2
    <2>2. ASSUME NEW c \in Indices, c < column
          PROVE  m[r][c] = Minus(m[r][c], m[column][c] * factor(r))
      <3>1. m[r][c] = 0 /\ m[column][c] = 0
        BY <1>3, <1>4, <1>7, <1>12, <2>2 DEF Triangular
      <3>2. 0 * factor(r) = 0 /\ 0 - 0 = 0
        BY <1>10
      <3>. QED
        BY <3>1, <3>2, SmallRemainder, PrimeType DEF Minus
    <2>3. rows'[r] = [c \in Indices |-> Minus(m[r][c], m[column][c] * factor(r))]
      BY <1>11, <1>12, <2>2
    <2>4. \A c \in Indices : Minus(m[r][c], m[column][c] * factor(r)) \in GF
      BY <2>1, FieldTypes
    <2>5. v[r] \in Int /\ v[column] * factor(r) \in Int
      <3>1. v[r] \in Int /\ v[column] \in Int
        BY <1>4, <1>6, PrimeType
      <3>. QED
        BY <1>10, <3>1
    <2>6. rhs'[r] \in GF
      BY <1>11, <1>12, <2>5, FieldTypes
    <2>. QED
      BY <2>3, <2>4, <2>6
  <1>13. Shape'
    <2>1. rows' = [r \in Indices |-> rows'[r]] /\ rhs' = [r \in Indices |-> rhs'[r]]
      BY <1>1
    <2>2. \A r \in Indices : rows'[r] \in [Indices -> GF] /\ rhs'[r] \in GF
      BY <1>4, <1>6, <1>11, <1>12
    <2>3. solution' \in [Indices -> GF]
      BY <1>1, <1>2 DEF Shape
    <2>. QED
      BY <1>3, <2>1, <2>2, <2>3 DEF Shape
  <1>14. Triangular(rows, column)'
    <2>. SUFFICES ASSUME NEW i \in 0..column
                  PROVE  rows'[i][i] # 0 /\ \A r \in (i + 1)..(Order - 1) : rows'[r][i] = 0
      <3>1. column' - 1 = column
        BY <1>1, <1>4
      <3>. QED
        BY <1>3, <3>1 DEF Triangular
    <2>1. i \in Indices /\ i <= column
      BY <1>1, <1>3, <1>4
    <2>2. rows'[i][i] # 0
      BY <1>4, <1>7, <1>8, <1>11, <2>1 DEF Triangular
    <2>3. ASSUME NEW r \in (i + 1)..(Order - 1), r <= column PROVE rows'[r][i] = 0
      <3>1. r \in Indices /\ i \in 0..(column - 1)
        BY <1>4, <2>3
      <3>. QED
        BY <1>7, <1>11, <2>3, <3>1 DEF Triangular
    <2>4. ASSUME NEW r \in (i + 1)..(Order - 1), r > column PROVE rows'[r][i] = 0
      <3>1. r \in Indices
        BY <1>4
      <3>2. rows'[r][i] = Minus(m[r][i], m[column][i] * factor(r))
        BY <1>12, <2>1, <2>4, <3>1
      <3>3. CASE i < column
        <4>1. m[r][i] = 0 /\ m[column][i] = 0
          BY <1>3, <1>4, <1>7, <3>3 DEF Triangular
        <4>2. 0 * factor(r) = 0 /\ 0 - 0 = 0
          BY <1>10, <3>1
        <4>. QED
          BY <3>2, <4>1, <4>2, SmallRemainder, PrimeType DEF Minus
      <3>4. CASE i = column
        <4>. DEFINE a == m[r][column]  d == m[column][column]
        <4>1. a \in GF /\ a \in Int /\ d \in GF /\ d \in Int /\ inv \in Int
          BY <1>4, <1>6, <1>10, <3>1, PrimeType
        <4>2. rows'[r][i] = Minus(a, d * Times(a, inv))
          BY <3>2, <3>4 DEF factor
        <4>. HIDE DEF a, d
        <4>3. (d * Times(a, inv)) % P = a
          <5>1. a * inv \in Int /\ d * inv \in Int
            BY <4>1
          <5>2. (d * ((a * inv) % P)) % P = (d * (a * inv)) % P
            BY <4>1, <5>1, ReduceProduct
          <5>3. d * (a * inv) = a * (d * inv)
            BY <4>1
          <5>4. (a * ((d * inv) % P)) % P = (a * (d * inv)) % P
            BY <4>1, <5>1, ReduceProduct
          <5>5. (d * inv) % P = 1
            BY <1>9 DEF Times, d
          <5>6. (a * 1) % P = a
            BY <4>1, SmallRemainder
          <5>. QED
            BY <5>2, <5>3, <5>4, <5>5, <5>6 DEF Times
        <4>4. Minus(a, d * Times(a, inv)) = 0
          <5>. DEFINE e == d * Times(a, inv)
          <5>1. e \in Int
            <6>1. Times(a, inv) \in Int
              BY <4>1, FieldTypes, PrimeType
            <6>. QED
              BY <4>1, <6>1
          <5>2. e % P = a
            BY <4>3
          <5>. HIDE DEF e
          <5>3. (a - (e % P)) % P = (a - e) % P
            BY <4>1, <5>1, ReduceSum
          <5>4. (a - a) % P = 0
            BY <4>1, MinusSelf DEF Minus
          <5>5. Minus(a, e) = 0
            BY <5>2, <5>3, <5>4 DEF Minus
          <5>. QED
            BY <5>5 DEF e
        <4>. QED
          BY <4>2, <4>4
      <3>. QED
        BY <2>1, <1>4, <3>3, <3>4
    <2>. QED
      BY <2>2, <2>3, <2>4, <1>3, <1>4
  <1>15. SameSolutions'
    <2>. SUFFICES ASSUME NEW x \in [Indices -> GF]
                  PROVE  x \in Solutions' <=> Satisfies(rows, rhs, x)'
      BY <1>3 DEF SameSolutions
    <2>1. x \in Solutions' <=> Satisfies(rows, rhs, x)
      BY <1>1, <1>2, <1>3 DEF SameSolutions, Solutions
    <2>2. Satisfies(rows, rhs, x) <=> Satisfies(m, v, x)
      BY <1>4, <1>5, <1>6 DEF Satisfies
    <2>3. Satisfies(rows, rhs, x)' <=> \A r \in Indices : Dot(Order, rows'[r], x) = rhs'[r]
      BY <1>3 DEF Satisfies
    <2>4. \A r \in Indices : r <= column => (Dot(Order, rows'[r], x) = rhs'[r] <=> Dot(Order, m[r], x) = v[r])
      BY <1>11
    <2>5. ASSUME NEW r \in Indices, r > column, Dot(Order, m[column], x) = v[column]
          PROVE  Dot(Order, rows'[r], x) = rhs'[r] <=> Dot(Order, m[r], x) = v[r]
      <3>. DEFINE a == Dot(Order, m[r], x)  b == v[r]  k == -(v[column] * factor(r))
      <3>1. m[r] \in [0..(Order - 1) -> GF] /\ m[column] \in [0..(Order - 1) -> GF]
            /\ rows'[r] \in [0..(Order - 1) -> GF] /\ x \in [0..(Order - 1) -> GF]
        BY <1>4, <1>6, <1>12, <2>5
      <3>2. Dot(Order, rows'[r], x) = (a + k) % P
        <4>1. \A i \in 0..(Order - 1) : rows'[r][i] = Minus(m[r][i], m[column][i] * factor(r))
          BY <1>4, <1>12, <2>5
        <4>2. Order \in Nat /\ factor(r) \in Int
          BY <1>3, <1>10
        <4>3. Dot(Order, rows'[r], x) = (Dot(Order, m[r], x) - Dot(Order, m[column], x) * factor(r)) % P
          <5>1. rows'[r] = RowMinus(Order, m[r], m[column], factor(r))
            BY <1>4, <3>1, <4>1 DEF RowMinus
          <5>. QED
            <6>. DEFINE A == m[r]  B == m[column]  f == factor(r)
            <6>1. /\ A \in [0..(Order - 1) -> GF] /\ B \in [0..(Order - 1) -> GF]
                  /\ x \in [0..(Order - 1) -> GF] /\ f \in Int /\ Order \in Nat
              BY <3>1, <4>2
            <6>. HIDE DEF A, B, f
            <6>2. Dot(Order, RowMinus(Order, A, B, f), x) = (Dot(Order, A, x) - Dot(Order, B, x) * f) % P
              BY <6>1, RowOperation
            <6>. QED
              BY <5>1, <6>2 DEF A, B, f
        <4>4. a \in Int /\ v[column] * factor(r) \in Int
          <5>1. v[column] \in Int
            BY <1>4, <1>6, PrimeType
          <5>2. a \in GF
            BY <1>3, <3>1, FieldVector, DotType
          <5>. HIDE DEF a
          <5>. QED
            BY <1>10, <5>1, <5>2, PrimeType
        <4>5. a - v[column] * factor(r) = a + k
          BY <4>4
        <4>. QED
          BY <4>3, <4>5, <2>5
      <3>3. v[column] \in Int /\ factor(r) \in Int /\ b \in GF /\ b \in Int
        BY <1>4, <1>6, <1>10, PrimeType
      <3>4. k \in Int /\ b - v[column] * factor(r) = b + k
        BY <3>3
      <3>5. rhs'[r] = (b + k) % P
        BY <1>11, <2>5, <3>4 DEF Minus
      <3>6. a \in GF
        BY <1>3, <3>1, FieldVector, DotType
      <3>. HIDE DEF a, b, k
      <3>7. (a + k) % P = (b + k) % P <=> a = b
        BY <3>3, <3>4, <3>6, CancelSum
      <3>. QED
        BY <3>2, <3>5, <3>7 DEF a, b
    <2>6. (\A r \in Indices : Dot(Order, rows'[r], x) = rhs'[r]) <=> Satisfies(m, v, x)
      <3>1. ASSUME \A r \in Indices : Dot(Order, rows'[r], x) = rhs'[r] PROVE Satisfies(m, v, x)
        <4>1. Dot(Order, m[column], x) = v[column]
          BY <1>4, <2>4, <3>1
        <4>2. ASSUME NEW r \in Indices PROVE Dot(Order, m[r], x) = v[r]
          <5>1. CASE r <= column
            BY <2>4, <3>1, <5>1
          <5>2. CASE r > column
            BY <2>5, <3>1, <4>1, <5>2
          <5>. QED
            BY <1>3, <1>4, <5>1, <5>2
        <4>. QED
          BY <4>2 DEF Satisfies
      <3>2. ASSUME Satisfies(m, v, x), NEW r \in Indices PROVE Dot(Order, rows'[r], x) = rhs'[r]
        <4>1. Dot(Order, m[column], x) = v[column] /\ Dot(Order, m[r], x) = v[r]
          BY <1>4, <3>2 DEF Satisfies
        <4>2. CASE r <= column
          BY <2>4, <4>1, <4>2
        <4>3. CASE r > column
          BY <2>5, <4>1, <4>3
        <4>. QED
          BY <1>3, <1>4, <4>2, <4>3
      <3>. QED
        BY <3>1, <3>2
    <2>. QED
      BY <2>1, <2>2, <2>3, <2>6
  <1>16. column' \in 0..Order /\ \A i \in Indices : solution'[i] = 0
    BY <1>1, <1>2, <1>3
  <1>. QED
    BY <1>1, <1>3, <1>13, <1>14, <1>15, <1>16 DEF SolveInv

-----------------------------------------------------------------------------
(* A round of substitution.                                                *)

\* The inner product of a vector that is a sum.
LEMMA DotAdd ==
    ASSUME NEW n \in Nat, NEW v, NEW x, NEW u, NEW y,
           IsVector(n, v), IsVector(n, x), IsVector(n, u), IsVector(n, y),
           \A i \in 0..(n - 1) : (v[i] * y[i]) % P = (v[i] * x[i] + v[i] * u[i]) % P
    PROVE  Dot(n, v, y) = Plus(Dot(n, v, x), Dot(n, v, u))
  <1>1. PICK c \in Int : c = 1
    OBVIOUS
  <1>2. ASSUME NEW k \in Int PROVE c * k = k
    BY <1>1
  <1>3. ASSUME NEW i \in 0..(n - 1)
        PROVE  (v[i] * y[i]) % P = (v[i] * x[i] + c * (v[i] * u[i])) % P
    <2>1. v[i] \in Int /\ u[i] \in Int
      BY DEF IsVector
    <2>2. v[i] * u[i] \in Int
      BY <2>1
    <2>3. c * (v[i] * u[i]) = v[i] * u[i]
      BY <1>2, <2>2
    <2>. QED
      BY <2>3
  <1>4. Dot(n, v, y) = (Dot(n, v, x) + c * Dot(n, v, u)) % P
    BY <1>3, DotLinear
  <1>5. Dot(n, v, u) \in Int
    BY DotType, PrimeType
  <1>. QED
    BY <1>2, <1>4, <1>5 DEF Plus

\* Setting a place that was zero adds one product.
Placed(x, j, s) == [x EXCEPT ![j] = s]

\* x has a zero at j, where s is to go.
CanPlace(n, v, x, j, s) ==
    /\ n \in Nat /\ v \in [0..(n - 1) -> GF] /\ x \in [0..(n - 1) -> GF]
    /\ j \in 0..(n - 1) /\ x[j] = 0 /\ s \in GF

\* What it adds to an inner product.
LEMMA DotSet ==
    ASSUME NEW n, NEW v, NEW x, NEW j, NEW s, CanPlace(n, v, x, j, s)
    PROVE  Dot(n, v, Placed(x, j, s)) = Plus(Dot(n, v, x), Times(v[j], s))
  <1>. /\ n \in Nat /\ v \in [0..(n - 1) -> GF] /\ x \in [0..(n - 1) -> GF]
       /\ j \in 0..(n - 1) /\ x[j] = 0 /\ s \in GF
    BY DEF CanPlace
  <1>. DEFINE y == Placed(x, j, s)
  <1>0. y \in [0..(n - 1) -> GF] /\ y[j] = s /\ \A i \in 0..(n - 1) : i # j => y[i] = x[i]
    BY DEF Placed
  <1>. HIDE DEF y
  <1>. DEFINE u == [i \in 0..(n - 1) |-> IF i = j THEN s ELSE 0]
  <1>1. u \in [0..(n - 1) -> GF]
    BY PrimeType
  <1>2. IsVector(n, v) /\ IsVector(n, x) /\ IsVector(n, u) /\ IsVector(n, y)
    BY <1>0, <1>1, FieldVector
  <1>3. ASSUME NEW i \in 0..(n - 1)
        PROVE  (v[i] * y[i]) % P = (v[i] * x[i] + v[i] * u[i]) % P
    <2>. DEFINE V == v[i]  X == x[i]  Y == y[i]  U == u[i]
    <2>1. V \in Int /\ X \in Int /\ Y \in Int /\ U \in Int
      BY <1>2 DEF IsVector
    <2>2. (X = 0 /\ U = Y) \/ (X = Y /\ U = 0)
      BY <1>0
    <2>. HIDE DEF V, X, Y, U
    <2>3. V * Y = V * X + V * U
      <3>1. V * 0 = 0 /\ V * X \in Int /\ V * Y \in Int /\ V * U \in Int
        BY <2>1
      <3>. QED
        BY <2>1, <2>2, <3>1
    <2>. QED
      BY <2>3 DEF V, X, Y, U
  <1>4. Dot(n, v, u) = Times(v[j], s)
    <2>1. ASSUME NEW i \in 0..(n - 1), i # j PROVE (v[i] * u[i]) % P = 0
      <3>1. u[i] = 0 /\ v[i] \in Int
        BY <2>1, <1>2 DEF IsVector
      <3>. QED
        BY <3>1, ProductZero
    <2>2. u[j] = s
      OBVIOUS
    <2>. HIDE DEF u
    <2>2b. IsVector(n, v) /\ IsVector(n, u)
      BY <1>2
    <2>3. Dot(n, v, u) = (v[j] * u[j]) % P
      BY <2>1, <2>2b, DotSingle
    <2>. QED
      BY <2>2, <2>3 DEF Times
  <1>. HIDE DEF u
  <1>5. Dot(n, v, y) = Plus(Dot(n, v, x), Dot(n, v, u))
    BY <1>2, <1>3, DotAdd
  <1>. QED
    BY <1>4, <1>5 DEF y

\* Adding a difference back.
LEMMA PlusMinus == ASSUME NEW x \in GF, NEW y \in Int PROVE (y + Minus(x, y)) % P = x
  <1>1. x \in Int /\ x - y \in Int /\ y + (x - y) = x
    BY PrimeType
  <1>. DEFINE d == x - y
  <1>2. d \in Int /\ y + d = x /\ Minus(x, y) = d % P
    BY <1>1 DEF Minus
  <1>. HIDE DEF d
  <1>3. (y + (d % P)) % P = (y + d) % P
    BY <1>2, ReduceSum
  <1>. QED
    BY <1>2, <1>3, SmallRemainder

\* Dividing by a pivot solves its equation.
LEMMA SolvePivot ==
    ASSUME NEW d \in GF, d # 0, NEW t \in GF
    PROVE  Times(d, Times(t, FieldInverse(d))) = t /\ Times(t, FieldInverse(d)) \in GF
  <1>. DEFINE e == FieldInverse(d)
  <1>1. e \in GF /\ Times(d, e) = 1
    BY InverseExists
  <1>. HIDE DEF e
  <1>2. d \in Int /\ e \in Int /\ t \in Int /\ t * e \in Int /\ d * e \in Int
    <2>1. d \in Int /\ e \in Int /\ t \in Int
      BY <1>1, PrimeType
    <2>. QED
      BY <2>1
  <1>3. (d * ((t * e) % P)) % P = (d * (t * e)) % P
    BY <1>2, ReduceProduct
  <1>4. (t * ((d * e) % P)) % P = (t * (d * e)) % P
    BY <1>2, ReduceProduct
  <1>5. d * (t * e) = t * (d * e) /\ t * 1 = t
    BY <1>2
  <1>6. Times(d, Times(t, e)) = t
    BY <1>1, <1>3, <1>4, <1>5, SmallRemainder DEF Times
  <1>. QED
    BY <1>2, <1>6, FieldTypes DEF e

\* DotSet for the answer of the call.
LEMMA SetSolution ==
    ASSUME NEW v, NEW q, CanPlace(Order, v, solution, column, q)
    PROVE  Dot(Order, v, Placed(solution, column, q)) = Plus(Dot(Order, v, solution), Times(v[column], q))
  BY DotSet

\* The entry that a round adds satisfies its row and disturbs none below it.
LEMMA SubstituteStep == ASSUME SolveInv, Substitute PROVE SolveInv'
  <1>. DEFINE after == Order - column - 1
              a == [c \in 0..(after - 1) |-> rows[column][column + 1 + c]]
              b == [c \in 0..(after - 1) |-> solution[column + 1 + c]]
              sum == Dot(after, a, b)
              lead == rows[column][column]
              rest == Minus(rhs[column], sum)
              entry == Times(rest, FieldInverse(lead))
  <1>1. /\ solveAt = "substitute"
        /\ solution' = [solution EXCEPT ![column] = entry]
        /\ column' = IF column = 0 THEN 0 ELSE column - 1
        /\ solveAt' = IF column = 0 THEN "solved" ELSE solveAt
        /\ UNCHANGED <<system, rows, rhs>>
    BY DEF Substitute
  <1>2. /\ SystemOK /\ Shape /\ SameSolutions /\ column \in Indices /\ Triangular(rows, Order)
        /\ \A i \in 0..column : solution[i] = 0
        /\ \A r \in (column + 1)..(Order - 1) : Dot(Order, rows[r], solution) = rhs[r]
    BY <1>1 DEF SolveInv
  <1>3. SystemOK' /\ Order' = Order /\ Indices' = Indices /\ Order \in Nat /\ Order > 0
    BY <1>1, <1>2, OrderType DEF SystemOK, Order, Indices
  <1>4. Indices = 0..(Order - 1) /\ column \in Nat /\ column < Order
    BY <1>2, <1>3 DEF Indices
  <1>5. /\ rows \in [Indices -> [0..(Order - 1) -> GF]] /\ rhs \in [Indices -> GF]
        /\ solution \in [0..(Order - 1) -> GF]
    BY <1>2, <1>4 DEF Shape
  <1>6. rows[column] \in [0..(Order - 1) -> GF] /\ rhs[column] \in GF /\ lead \in GF /\ lead # 0 /\ solution[column] = 0
    BY <1>2, <1>3, <1>4, <1>5 DEF Triangular
  <1>7. Dot(Order, rows[column], solution) = sum
    <2>. DEFINE v == rows[column]  w == solution  k == column + 1
    <2>1. ASSUME NEW i \in 0..(k - 1) PROVE (v[i] * w[i]) % P = 0
      <3>1. i \in 0..(Order - 1) /\ i \in 0..column
        BY <1>3, <1>4
      <3>2. v[i] \in GF /\ w[i] = 0
        BY <1>2, <1>6, <3>1
      <3>. QED
        BY <3>2, ProductZero, PrimeType
    <2>2. IsVector(Order, v) /\ IsVector(Order, w) /\ k \in 0..Order
      BY <1>3, <1>4, <1>5, <1>6, FieldVector
    <2>3. Order - k = after /\ Order - k - 1 = after - 1
      BY <1>3, <1>4
    <2>. HIDE DEF v, w, k, after
    <2>4. Dot(Order, v, w) = Dot(Order - k, [i \in 0..(Order - k - 1) |-> v[k + i]],
                                            [i \in 0..(Order - k - 1) |-> w[k + i]])
      BY <1>3, <2>1, <2>2, DotTail
    <2>. QED
      BY <2>3, <2>4 DEF v, w, k
  <1>. HIDE DEF sum, after, a, b
  <1>8. sum \in GF /\ sum \in Int
    <2>1. IsVector(Order, rows[column]) /\ IsVector(Order, solution)
      BY <1>3, <1>5, <1>6, FieldVector
    <2>. QED
      BY <1>3, <1>7, <2>1, DotType, PrimeType
  <1>9. rest \in GF /\ rhs[column] \in Int
    BY <1>6, <1>8, FieldTypes, PrimeType
  <1>10. entry \in GF /\ Times(lead, entry) = rest
    BY <1>6, <1>9, SolvePivot
  <1>. HIDE DEF entry, lead
  <1>10b. ASSUME NEW v \in [0..(Order - 1) -> GF]
       PROVE  Dot(Order, v, solution') = Plus(Dot(Order, v, solution), Times(v[column], entry))
    <2>1a. Order \in Nat
      BY <1>3
    <2>1b. solution \in [0..(Order - 1) -> GF] /\ v \in [0..(Order - 1) -> GF]
      BY <1>5
    <2>1c. column \in 0..(Order - 1)
      BY <1>3, <1>4
    <2>1d. solution[column] = 0
      BY <1>6
    <2>1e. entry \in GF
      BY <1>10
    <2>2. solution' = Placed(solution, column, entry)
      BY <1>1 DEF Placed
    <2>2b. PICK q : q = entry
      OBVIOUS
    <2>3. CanPlace(Order, v, solution, column, q)
      BY <2>1a, <2>1b, <2>1c, <2>1d, <2>1e, <2>2b DEF CanPlace
    <2>4. Dot(Order, v, Placed(solution, column, q)) = Plus(Dot(Order, v, solution), Times(v[column], q))
      BY <2>3, SetSolution
    <2>. QED
      BY <2>2, <2>2b, <2>4
  <1>11. Dot(Order, rows[column], solution') = rhs[column]
    <2>1. Dot(Order, rows[column], solution')
            = Plus(Dot(Order, rows[column], solution), Times(rows[column][column], entry))
      BY <1>6, <1>10b
    <2>2. (sum + rest) % P = rhs[column]
      BY <1>6, <1>8, PlusMinus
    <2>. QED
      BY <1>1, <1>7, <1>10, <2>1, <2>2 DEF lead, Plus
  <1>. HIDE DEF rest
  <1>12. ASSUME NEW r \in (column + 1)..(Order - 1)
         PROVE  Dot(Order, rows[r], solution') = rhs[r]
    <2>1. r \in Indices /\ rows[r] \in [0..(Order - 1) -> GF] /\ rows[r][column] = 0
      BY <1>2, <1>3, <1>4, <1>5 DEF Triangular
    <2>2. Dot(Order, rows[r], solution')
            = Plus(Dot(Order, rows[r], solution), Times(rows[r][column], entry))
      BY <2>1, <1>10b
    <2>3. Times(rows[r][column], entry) = 0
      BY <1>10, <2>1, ProductZero, PrimeType DEF Times
    <2>4. Dot(Order, rows[r], solution) = rhs[r]
      BY <1>2
    <2>4b. rhs[r] \in GF /\ rhs[r] \in Int
      BY <1>5, <2>1, PrimeType
    <2>5. (rhs[r] + 0) % P = rhs[r]
      <3>1. rhs[r] + 0 = rhs[r]
        BY <2>4b
      <3>. QED
        BY <2>4b, <3>1, SmallRemainder
    <2>. QED
      BY <1>1, <2>2, <2>3, <2>4, <2>5 DEF Plus
  <1>13. \A r \in column..(Order - 1) : Dot(Order, rows[r], solution') = rhs[r]
    BY <1>4, <1>11, <1>12
  <1>14. Shape' /\ SameSolutions'
    <2>1. Shape'
      BY <1>1, <1>2, <1>3, <1>10 DEF Shape
    <2>2. SameSolutions'
      BY <1>1, <1>2, <1>3 DEF SameSolutions, Solutions, Satisfies
    <2>. QED
      BY <2>1, <2>2
  <1>15. Triangular(rows, Order)'
    BY <1>1, <1>2, <1>3 DEF Triangular
  <1>16. CASE column = 0
    <2>1. solveAt' = "solved"
      BY <1>1, <1>16
    <2>2. Satisfies(rows, rhs, solution)'
      BY <1>1, <1>3, <1>4, <1>13, <1>16 DEF Satisfies
    <2>. QED
      BY <1>3, <1>14, <1>15, <2>1, <2>2 DEF SolveInv
  <1>17. CASE column # 0
    <2>1. solveAt' = "substitute" /\ column' = column - 1 /\ column' \in Indices
      BY <1>1, <1>3, <1>4, <1>17
    <2>2. \A i \in 0..column' : solution'[i] = 0
      BY <1>1, <1>2, <1>3, <1>4, <1>5, <2>1
    <2>3. (column' + 1)..(Order - 1) = column..(Order - 1)
      BY <1>4, <2>1
    <2>. QED
      BY <1>1, <1>3, <1>13, <1>14, <1>15, <2>1, <2>2, <2>3 DEF SolveInv
  <1>. QED
    BY <1>16, <1>17

\* The invariant is inductive.
LEMMA SolveInductive == ASSUME SolveInv, [SolveNext]_solveVars PROVE SolveInv'
  <1>1. CASE UNCHANGED solveVars
    <2>1. UNCHANGED <<solveAt, system, column, rows, rhs, solution>>
      BY <1>1 DEF solveVars
    <2>2. Order' = Order /\ Indices' = Indices
      BY <2>1 DEF Order, Indices
    <2>3. SystemOK' = SystemOK /\ Shape' = Shape
      BY <2>1, <2>2 DEF SystemOK, Shape
    <2>4. Solutions' = Solutions
      BY <2>1, <2>2 DEF Solutions
    <2>5. SameSolutions <=> SameSolutions'
      BY <2>1, <2>2, <2>4 DEF SameSolutions, Satisfies
    <2>. QED
      BY <2>1, <2>2, <2>3, <2>5 DEF SolveInv, Triangular, Satisfies
  <1>. QED
    BY <1>1, TransposeStep, EliminateStep, TurnStep, SubstituteStep, SingularStep
       DEF SolveNext, SolveSteps

-----------------------------------------------------------------------------
(***************************************************************************)
(* The answer is the only solution, and a refused system has none or       *)
(* several.                                                                *)
(***************************************************************************)

\* The first c columns are cleared below a pivot.
Cleared(n, m, c) ==
    /\ n \in Nat /\ c \in 0..n /\ m \in [0..(n - 1) -> [0..(n - 1) -> GF]]
    /\ \A i \in 0..(c - 1) : m[i][i] # 0 /\ \A r \in (i + 1)..(n - 1) : m[r][i] = 0

\* The rows of m do not tell x and y apart.
SameProducts(n, m, x, y) ==
    /\ x \in [0..(n - 1) -> GF] /\ y \in [0..(n - 1) -> GF]
    /\ \A r \in 0..(n - 1) : Dot(n, m[r], x) = Dot(n, m[r], y)

\* The difference of two vectors.
Apart(n, x, y) == [i \in 0..(n - 1) |-> Minus(x[i], y[i])]

\* Its inner products are differences.
LEMMA DotApart ==
    ASSUME NEW n \in Nat, NEW v \in [0..(n - 1) -> GF],
           NEW x \in [0..(n - 1) -> GF], NEW y \in [0..(n - 1) -> GF]
    PROVE  /\ Apart(n, x, y) \in [0..(n - 1) -> GF]
           /\ Dot(n, v, Apart(n, x, y)) = Minus(Dot(n, v, x), Dot(n, v, y))
  BY DotMinus DEF Apart

\* A cleared matrix tells all vectors apart: the last place at which they differ has a
\* pivot.
LEMMA UniqueSolution ==
    ASSUME NEW n, NEW m, NEW x, NEW y, Cleared(n, m, n), SameProducts(n, m, x, y)
    PROVE  x = y
  <1>. DEFINE D == {k \in Nat : k < n /\ x[n - 1 - k] # y[n - 1 - k]}
              z == Apart(n, x, y)
  <1>1. n \in Nat /\ x \in [0..(n - 1) -> GF] /\ y \in [0..(n - 1) -> GF]
        /\ m \in [0..(n - 1) -> [0..(n - 1) -> GF]]
    BY DEF Cleared, SameProducts
  <1>2. ASSUME D # {} PROVE FALSE
    <2>1. PICK k \in D : \A l \in D : k <= l
      <3>1. D \in SUBSET Nat
        OBVIOUS
      <3>. HIDE DEF D
      <3>. QED
        BY <3>1, <1>2, Least
    <2>2. PICK g \in 0..(n - 1) : g = n - 1 - k
      BY <1>1, <2>1
    <2>3. x[g] # y[g]
      BY <2>1, <2>2
    <2>4. ASSUME NEW i \in 0..(n - 1), i > g PROVE x[i] = y[i]
      <3>1. PICK l \in Nat : l = n - 1 - i
        BY <1>1
      <3>2. l < k /\ l < n /\ i = n - 1 - l
        BY <1>1, <2>1, <2>2, <2>4, <3>1
      <3>3. l \notin D
        BY <2>1, <3>2
      <3>. QED
        BY <3>2, <3>3
    <2>. HIDE DEF D
    <2>5. m[g] \in [0..(n - 1) -> GF] /\ m[g][g] # 0 /\ m[g][g] \in GF
      BY <1>1, <2>2 DEF Cleared
    <2>6. \A i \in 0..(n - 1) : i < g => m[g][i] = 0
      BY <1>1, <2>2 DEF Cleared
    <2>7. z \in [0..(n - 1) -> GF] /\ Dot(n, m[g], z) = Minus(Dot(n, m[g], x), Dot(n, m[g], y))
      BY <1>1, <2>5, DotApart
    <2>8. \A i \in 0..(n - 1) : z[i] = Minus(x[i], y[i])
      BY DEF Apart
    <2>. HIDE DEF z
    <2>9. Dot(n, m[g], x) = Dot(n, m[g], y) /\ Dot(n, m[g], x) \in Int
      <3>1. IsVector(n, m[g]) /\ IsVector(n, x)
        BY <1>1, <2>5, FieldVector
      <3>. QED
        BY <1>1, <3>1, DotType, PrimeType DEF SameProducts
    <2>10. Dot(n, m[g], z) = 0
      BY <2>7, <2>9, MinusSelf
    <2>11. ASSUME NEW i \in 0..(n - 1), i # g PROVE (m[g][i] * z[i]) % P = 0
      <3>1. CASE i < g
        <4>1. m[g][i] = 0 /\ z[i] \in Int
          BY <2>6, <2>7, <3>1, PrimeType
        <4>. QED
          BY <4>1, ProductZero
      <3>2. CASE i > g
        <4>1. z[i] = 0
          <5>1. x[i] = y[i] /\ x[i] \in Int
            BY <1>1, <2>4, <3>2, PrimeType
          <5>. QED
            BY <2>8, <5>1, MinusSelf
        <4>2. m[g][i] \in Int
          BY <2>5, PrimeType
        <4>. QED
          BY <4>1, <4>2, ProductZero
      <3>. QED
        BY <1>1, <2>11, <3>1, <3>2
    <2>12. Dot(n, m[g], z) = (m[g][g] * z[g]) % P
      <3>. DEFINE v == m[g]
      <3>1. IsVector(n, v) /\ IsVector(n, z)
        BY <1>1, <2>5, <2>7, FieldVector
      <3>2. \A i \in 0..(n - 1) : i # g => (v[i] * z[i]) % P = 0
        BY <2>11
      <3>. HIDE DEF v
      <3>3. Dot(n, v, z) = (v[g] * z[g]) % P
        BY <1>1, <3>1, <3>2, DotSingle
      <3>. QED
        BY <3>3 DEF v
    <2>13. z[g] = 0
      <3>1. Times(m[g][g], z[g]) = 0 /\ z[g] \in GF
        BY <2>7, <2>10, <2>12 DEF Times
      <3>. QED
        BY <2>5, <3>1, FieldIntegral
    <2>14. Minus(x[g], y[g]) = 0 /\ x[g] \in GF /\ y[g] \in GF
      BY <1>1, <2>8, <2>13
    <2>. QED
      BY <2>3, <2>14, ZeroDifference
  <1>3. ASSUME NEW i \in 0..(n - 1) PROVE x[i] = y[i]
    <2>1. PICK k \in Nat : k = n - 1 - i
      BY <1>1
    <2>2. k < n /\ i = n - 1 - k
      BY <1>1, <2>1
    <2>. QED
      BY <1>2, <2>2
  <1>. QED
    BY <1>1, <1>3

\* Functions that agree everywhere are equal.
LEMMA SameFunction ==
    ASSUME NEW S, NEW T, NEW f \in [S -> T], NEW g \in [S -> T], \A i \in S : f[i] = g[i]
    PROVE  f = g
  OBVIOUS

\* A column without a pivot leaves two vectors that the rows do not tell apart: there are
\* more vectors with one more place than values of the rows above.
LEMMA Indistinct ==
    ASSUME NEW n, NEW m, NEW c, Cleared(n, m, c), c < n, \A r \in c..(n - 1) : m[r][c] = 0
    PROVE  \E x, y : x # y /\ SameProducts(n, m, x, y)
  <1>. DEFINE Long == [0..c -> GF]  Short == [0..(c - 1) -> GF]
              ext(h) == [i \in 0..(n - 1) |-> IF i <= c THEN h[i] ELSE 0]
              F == [h \in Long |-> [r \in 0..(c - 1) |-> Dot(n, m[r], ext(h))]]
  <1>1. n \in Nat /\ c \in Nat /\ m \in [0..(n - 1) -> [0..(n - 1) -> GF]]
    BY DEF Cleared
  <1>2. ASSUME NEW h \in Long PROVE ext(h) \in [0..(n - 1) -> GF]
    BY <1>1, PrimeType
  <1>3. ASSUME NEW h \in Long, NEW r \in 0..(n - 1)
        PROVE  /\ Dot(n, m[r], ext(h)) \in GF
               /\ r \in c..(n - 1) => Dot(n, m[r], ext(h)) = 0
    <2>. DEFINE v == m[r]  x == ext(h)
    <2>1. IsVector(n, v) /\ IsVector(n, x)
      BY <1>1, <1>2, FieldVector
    <2>2. ASSUME r \in c..(n - 1), NEW i \in 0..(n - 1) PROVE (v[i] * x[i]) % P = 0
      <3>1. v[i] \in Int /\ x[i] \in Int
        BY <2>1 DEF IsVector
      <3>2. CASE i <= c
        <4>1. m[r][i] = 0
          BY <1>1, <2>2, <3>2 DEF Cleared
        <4>2. v[i] = 0
          BY <4>1
        <4>. HIDE DEF v, x
        <4>. QED
          BY <3>1, <4>2, ProductZero
      <3>3. CASE i > c
        <4>1. x[i] = 0
          BY <1>1, <3>3
        <4>. HIDE DEF v, x
        <4>. QED
          BY <3>1, <4>1, ProductZero
      <3>. QED
        BY <1>1, <3>2, <3>3
    <2>. HIDE DEF v, x
    <2>3. Dot(n, v, x) \in GF
      BY <1>1, <2>1, DotType
    <2>4. r \in c..(n - 1) => Dot(n, v, x) = 0
      BY <1>1, <2>1, <2>2, DotZero
    <2>. QED
      BY <2>3, <2>4 DEF v, x
  <1>4. F \in [Long -> Short]
    <2>1. ASSUME NEW h \in Long, NEW r \in 0..(c - 1) PROVE Dot(n, m[r], ext(h)) \in GF
      <3>1. r \in 0..(n - 1)
        BY <1>1
      <3>. HIDE DEF ext, Long
      <3>. QED
        BY <1>3, <3>1
    <2>. HIDE DEF ext
    <2>. QED
      BY <2>1
  <1>5. PICK g \in Long, h \in Long : g # h /\ F[g] = F[h]
    <2>1. /\ IsFiniteSet(Short) /\ IsFiniteSet(Long) /\ Cardinality(Short) < Cardinality(Long)
      BY <1>1, MoreVectors
    <2>. HIDE DEF Long, Short, F
    <2>. QED
      BY <1>4, <2>1, FS_PigeonHole
  <1>6. ext(g) # ext(h)
    <2>1. PICK i \in 0..c : g[i] # h[i]
      <3>1. PICK S : S = 0..c
        OBVIOUS
      <3>2. g \in [S -> GF] /\ h \in [S -> GF] /\ g # h
        BY <1>5, <3>1
      <3>. HIDE DEF Long, F, ext
      <3>3. (\A i \in S : g[i] = h[i]) => g = h
        BY <3>2, SameFunction
      <3>. QED
        BY <3>1, <3>2, <3>3
    <2>2. i \in 0..(n - 1) /\ i <= c
      BY <1>1, <2>1
    <2>3. ext(g)[i] = g[i] /\ ext(h)[i] = h[i]
      BY <2>2
    <2>. QED
      BY <2>1, <2>3
  <1>7. ASSUME NEW r \in 0..(n - 1) PROVE Dot(n, m[r], ext(g)) = Dot(n, m[r], ext(h))
    <2>1. CASE r \in c..(n - 1)
      BY <1>3, <2>1
    <2>2. CASE r \in 0..(c - 1)
      <3>1. F[g][r] = Dot(n, m[r], ext(g)) /\ F[h][r] = Dot(n, m[r], ext(h))
        <4>. HIDE DEF ext
        <4>. QED
          BY <2>2
      <3>. HIDE DEF F, ext
      <3>. QED
        BY <1>5, <3>1
    <2>. QED
      BY <1>1, <2>1, <2>2
  <1>8. ext(g) \in [0..(n - 1) -> GF] /\ ext(h) \in [0..(n - 1) -> GF]
    BY <1>2
  <1>. HIDE DEF ext
  <1>9. SameProducts(n, m, ext(g), ext(h))
    BY <1>7, <1>8 DEF SameProducts
  <1>. QED
    BY <1>6, <1>9

\* Only zero can be subtracted without a change.
LEMMA MinusFixed == ASSUME NEW x \in GF, NEW y \in GF, Minus(x, y) = x PROVE y = 0
  <1>1. x \in Int /\ y \in Int /\ 0 \in GF
    BY PrimeType
  <1>2. (y + Minus(x, y)) % P = x
    BY <1>1, PlusMinus
  <1>3. (y + x) % P = x
    BY <1>2
  <1>4. (0 + x) % P = x
    <2>1. 0 + x = x
      BY <1>1
    <2>. QED
      BY <2>1, SmallRemainder
  <1>5. (y + x) % P = (0 + x) % P
    BY <1>3, <1>4
  <1>. QED
    BY <1>1, <1>5, CancelSum

\* What two vectors differ by can be added to a solution.
LEMMA Another ==
    ASSUME NEW n, NEW m, NEW x, NEW y, NEW w, n \in Nat, m \in [0..(n - 1) -> [0..(n - 1) -> GF]],
           x # y, SameProducts(n, m, x, y), w \in [0..(n - 1) -> GF]
    PROVE  \E u : u # w /\ SameProducts(n, m, w, u)
  <1>. DEFINE z == Apart(n, x, y)
              u == Apart(n, w, z)
  <1>1. x \in [0..(n - 1) -> GF] /\ y \in [0..(n - 1) -> GF]
    BY DEF SameProducts
  <1>2. z \in [0..(n - 1) -> GF] /\ \A i \in 0..(n - 1) : z[i] = Minus(x[i], y[i])
    <2>1. \A i \in 0..(n - 1) : Minus(x[i], y[i]) \in GF
      BY <1>1, FieldTypes, PrimeType
    <2>. QED
      BY <2>1 DEF Apart
  <1>3. ASSUME NEW r \in 0..(n - 1) PROVE Dot(n, m[r], z) = 0
    <2>1. m[r] \in [0..(n - 1) -> GF]
      OBVIOUS
    <2>2. Dot(n, m[r], z) = Minus(Dot(n, m[r], x), Dot(n, m[r], y))
      BY <1>1, <2>1, DotApart
    <2>3. IsVector(n, m[r]) /\ IsVector(n, x)
      BY <1>1, <2>1, FieldVector
    <2>4. Dot(n, m[r], x) = Dot(n, m[r], y) /\ Dot(n, m[r], x) \in Int
      BY <2>3, DotType, PrimeType DEF SameProducts
    <2>. HIDE DEF z
    <2>. QED
      BY <2>2, <2>4, MinusSelf
  <1>. HIDE DEF z
  <1>4. u \in [0..(n - 1) -> GF] /\ \A i \in 0..(n - 1) : u[i] = Minus(w[i], z[i])
    <2>1. \A i \in 0..(n - 1) : Minus(w[i], z[i]) \in GF
      BY <1>2, FieldTypes, PrimeType
    <2>. QED
      BY <2>1 DEF Apart
  <1>5. ASSUME NEW r \in 0..(n - 1) PROVE Dot(n, m[r], w) = Dot(n, m[r], u)
    <2>1. m[r] \in [0..(n - 1) -> GF]
      OBVIOUS
    <2>2. Dot(n, m[r], u) = Minus(Dot(n, m[r], w), Dot(n, m[r], z))
      BY <1>2, <2>1, DotApart
    <2>3. IsVector(n, m[r]) /\ IsVector(n, w)
      BY <1>1, <2>1, FieldVector
    <2>4. Dot(n, m[r], w) \in GF
      BY <2>3, DotType
    <2>. DEFINE d == Dot(n, m[r], w)
    <2>5. Minus(d, 0) = d
      <3>1. d \in GF /\ d \in Int
        BY <2>4, PrimeType
      <3>. HIDE DEF d
      <3>2. d - 0 = d
        BY <3>1
      <3>. QED
        BY <3>1, <3>2, SmallRemainder DEF Minus
    <2>. QED
      BY <1>3, <2>2, <2>5
  <1>6. ASSUME u = w PROVE FALSE
    <2>1. ASSUME NEW i \in 0..(n - 1) PROVE x[i] = y[i]
      <3>1. Minus(w[i], z[i]) = w[i] /\ w[i] \in GF /\ z[i] \in GF
        BY <1>2, <1>4, <1>6
      <3>2. z[i] = 0
        BY <3>1, MinusFixed
      <3>. QED
        BY <1>1, <1>2, <3>2, ZeroDifference
    <2>. QED
      BY <1>1, <2>1
  <1>. HIDE DEF u
  <1>7. SameProducts(n, m, w, u)
    BY <1>4, <1>5 DEF SameProducts
  <1>. QED
    BY <1>6, <1>7

\* An answer is the one solution.
LEMMA SolvedExactly == ASSUME SolveInv, solveAt = "solved" PROVE Solutions = {solution}
  <1>1. SystemOK /\ Shape /\ SameSolutions /\ Triangular(rows, Order) /\ Satisfies(rows, rhs, solution)
    BY DEF SolveInv
  <1>2. Order \in Nat /\ Indices = 0..(Order - 1)
    BY <1>1, OrderType DEF Indices
  <1>3. solution \in Solutions
    BY <1>1 DEF Shape, SameSolutions
  <1>4. Cleared(Order, rows, Order)
    BY <1>1, <1>2 DEF Cleared, Triangular, Shape
  <1>5. ASSUME NEW x \in Solutions PROVE x = solution
    <2>1. x \in [Indices -> GF]
      BY DEF Solutions
    <2>2. Satisfies(rows, rhs, x)
      BY <1>1, <2>1 DEF SameSolutions
    <2>3. SameProducts(Order, rows, x, solution)
      BY <1>1, <1>2, <2>1, <2>2 DEF SameProducts, Satisfies, Shape
    <2>. QED
      BY <1>4, <2>3, UniqueSolution
  <1>. QED
    BY <1>3, <1>5

\* A refused system does not have exactly one.
LEMMA RefusedRightly == ASSUME SolveInv, solveAt = "singular" PROVE Cardinality(Solutions) # 1
  <1>1. /\ SystemOK /\ Shape /\ SameSolutions /\ Triangular(rows, column) /\ column \in Indices
        /\ \A r \in column..(Order - 1) : rows[r][column] = 0
    BY DEF SolveInv
  <1>2. Order \in Nat /\ Indices = 0..(Order - 1) /\ column < Order
    BY <1>1, OrderType DEF Indices
  <1>3. Cleared(Order, rows, column)
    BY <1>1, <1>2 DEF Cleared, Triangular, Shape
  <1>4. PICK x, y : x # y /\ SameProducts(Order, rows, x, y)
    BY <1>1, <1>2, <1>3, Indistinct
  <1>5. SUFFICES ASSUME Cardinality(Solutions) = 1 PROVE FALSE
    OBVIOUS
  <1>6. IsFiniteSet(Solutions)
    <2>1. IsFiniteSet(0..(Order - 1))
      <3>1. 0 \in Int /\ Order - 1 \in Int
        BY <1>2
      <3>. QED
        BY <3>1, FS_Interval
    <2>2. IsFiniteSet([Indices -> GF])
      BY <1>2, <2>1, FieldIsFinite, FiniteFunctions
    <2>3. Solutions \in SUBSET [Indices -> GF]
      BY DEF Solutions
    <2>. QED
      BY <2>2, <2>3, FS_Subset
  <1>7. PICK w : Solutions = {w}
    BY <1>5, <1>6, FS_Singleton
  <1>8. w \in [Indices -> GF] /\ Satisfies(rows, rhs, w)
    <2>1. w \in Solutions
      BY <1>7
    <2>2. w \in [Indices -> GF]
      BY <2>1 DEF Solutions
    <2>. QED
      BY <1>1, <2>1, <2>2 DEF SameSolutions
  <1>9. PICK u : u # w /\ SameProducts(Order, rows, w, u)
    <2>1. rows \in [0..(Order - 1) -> [0..(Order - 1) -> GF]] /\ w \in [0..(Order - 1) -> GF]
      BY <1>1, <1>2, <1>8 DEF Shape
    <2>. QED
      BY <1>2, <1>4, <2>1, Another
  <1>10. u \in Solutions
    <2>1. u \in [Indices -> GF]
      BY <1>2, <1>9 DEF SameProducts
    <2>2. Satisfies(rows, rhs, u)
      BY <1>2, <1>8, <1>9 DEF SameProducts, Satisfies
    <2>. QED
      BY <1>1, <2>1, <2>2 DEF SameSolutions
  <1>. QED
    BY <1>7, <1>9, <1>10

\* For every prime and every set of square systems: the answer of solve_linear_system is
\* the one solution of the transposed system, and what it refuses has none or more than
\* one.
THEOREM SolverIsExact == SolveSpec => []SolvesExactly
  <1>1. SolveInv => SolvesExactly
    BY SolvedExactly, RefusedRightly DEF SolvesExactly
  <1>2. SolveInv /\ [SolveNext]_solveVars => SolveInv'
    BY SolveInductive
  <1>. QED
    BY <1>1, <1>2, InitSolve, PTL DEF SolveSpec

-----------------------------------------------------------------------------
(* The matrix, and vector b.                                               *)

\* f holds the powers of x.
IsPower(f, n, x) == f = [i \in 0..n |-> IF i = 0 THEN 1 ELSE Times(f[i - 1], x)]

\* Every number has powers.
LEMMA PowersExist == ASSUME NEW x, NEW n \in Nat PROVE \E f : IsPower(f, n, x)
  <1>. DEFINE T == {k \in Nat : \E f : IsPower(f, k, x)}
  <1>1. 0 \in T
    <2>. DEFINE f == [i \in 0..0 |-> 1]
    <2>1. IsPower(f, 0, x)
      BY DEF IsPower
    <2>. QED
      BY <2>1
  <1>2. ASSUME NEW k \in Nat, k \in T PROVE k + 1 \in T
    <2>1. PICK f : IsPower(f, k, x)
      BY <1>2
    <2>. DEFINE g == [i \in 0..(k + 1) |-> IF i <= k THEN f[i] ELSE Times(f[k], x)]
    <2>2. ASSUME NEW i \in 0..(k + 1) PROVE g[i] = IF i = 0 THEN 1 ELSE Times(g[i - 1], x)
      <3>1. CASE i <= k
        BY <2>1, <3>1 DEF IsPower
      <3>2. CASE i = k + 1
        <4>1. g[i] = Times(f[k], x) /\ i # 0 /\ i - 1 = k
          BY <3>2
        <4>2. g[k] = f[k]
          OBVIOUS
        <4>. QED
          BY <4>1, <4>2
      <3>. QED
        BY <3>1, <3>2
    <2>3. IsPower(g, k + 1, x)
      BY <2>2 DEF IsPower
    <2>. QED
      BY <2>3
  <1>. HIDE DEF T
  <1>3. Nat \subseteq T
    BY <1>1, <1>2, Induct
  <1>. QED
    BY <1>3 DEF T

\* Powers are in the field.
LEMMA PowerType == ASSUME NEW x \in Int, NEW n \in Nat PROVE Power(x, n) \in GF
  <1>. DEFINE S(g) == g = [i \in 0..n |-> IF i = 0 THEN 1 ELSE Times(g[i - 1], x)]
              power == CHOOSE g : S(g)
  <1>1. Power(x, n) = power[n]
    BY DEF Power
  <1>2. PICK f : S(f)
    BY PowersExist DEF IsPower
  <1>3. S(power)
    <2>. HIDE DEF S
    <2>. QED
      BY <1>2
  <1>. HIDE DEF power
  <1>. DEFINE T == {k \in Nat : k <= n => power[k] \in GF}
  <1>4. 0 \in T
    BY <1>3, PrimeType
  <1>5. ASSUME NEW k \in Nat, k \in T PROVE k + 1 \in T
    <2>. SUFFICES ASSUME k + 1 <= n PROVE power[k + 1] \in GF
      OBVIOUS
    <2>0. power[k] \in GF
      BY <1>5
    <2>1. power[k] \in Int
      BY <2>0, PrimeType
    <2>2. power[k + 1] = Times(power[k], x)
      BY <1>3
    <2>. QED
      BY <2>1, <2>2, FieldTypes
  <1>. HIDE DEF T
  <1>6. Nat \subseteq T
    BY <1>4, <1>5, Induct
  <1>. QED
    BY <1>1, <1>6 DEF T

\* The sizes that N and K give.
LEMMA Sizes ==
    /\ N \in Nat /\ N > 0 /\ K \in Nat /\ K > 0 /\ K <= N
    /\ M \in Nat /\ M > 0 /\ M <= N /\ M = N - K + 1
    /\ Rows = 0..(M - 1) /\ Slots = 0..(N - 1)
  BY SizeAssumption DEF M, Rows, Slots

\* A column of the matrix, the coefficients of one slot.
Column(j) == [i \in Rows |-> Matrix[i][j]]

\* The matrix, its rows and its columns are over the field.
LEMMA MatrixType ==
    /\ Matrix \in [Rows -> [Slots -> GF]]
    /\ \A j \in Slots : Column(j) \in [0..(M - 1) -> GF] /\ IsVector(M, Column(j))
    /\ \A i \in Rows : Matrix[i] \in [0..(N - 1) -> GF] /\ IsVector(N, Matrix[i])
  <1>1. ASSUME NEW i \in Rows, NEW j \in Slots PROVE Power((i + 1) % P, j) \in GF
    <2>1. i + 1 \in Int /\ j \in Nat
      BY Sizes
    <2>2. (i + 1) % P \in Int
      BY <2>1, Remainder, PrimeType
    <2>. QED
      BY <2>1, <2>2, PowerType
  <1>2. Matrix \in [Rows -> [Slots -> GF]]
    BY <1>1 DEF Matrix
  <1>3. \A j \in Slots : Column(j) \in [0..(M - 1) -> GF]
    BY <1>2, Sizes DEF Column
  <1>4. \A i \in Rows : Matrix[i] \in [0..(N - 1) -> GF]
    BY <1>2, Sizes
  <1>. QED
    BY <1>2, <1>3, <1>4, Sizes, FieldVector

\* The two vectors of an inner product may be exchanged.
LEMMA DotCommutes ==
    ASSUME NEW n \in Nat, NEW v, NEW w, IsVector(n, v), IsVector(n, w)
    PROVE  Dot(n, v, w) = Dot(n, w, v)
  <1>1. ASSUME NEW i \in 0..(n - 1) PROVE (v[i] * w[i]) % P = (w[i] * v[i]) % P
    <2>1. v[i] \in Int /\ w[i] \in Int
      BY DEF IsVector
    <2>2. v[i] * w[i] = w[i] * v[i]
      BY <2>1
    <2>. QED
      BY <2>2
  <1>. QED
    BY <1>1, DotSame

\* Vector b holds the inner products of a with the columns.
LEMMA VectorBType ==
    ASSUME NEW a \in [Rows -> GF]
    PROVE  /\ VectorB(a) \in [Slots -> GF]
           /\ \A j \in Slots : VectorB(a)[j] = Dot(M, Column(j), a) /\ VectorB(a)[j] = Dot(M, a, Column(j))
  <1>1. IsVector(M, a)
    BY Sizes, FieldVector
  <1>2. ASSUME NEW j \in Slots
        PROVE /\ VectorB(a)[j] = Dot(M, a, Column(j)) /\ Dot(M, a, Column(j)) \in GF
              /\ Dot(M, a, Column(j)) = Dot(M, Column(j), a)
    <2>1. VectorB(a)[j] = Dot(M, a, Column(j))
      BY DEF VectorB, Column
    <2>2. IsVector(M, Column(j))
      BY MatrixType
    <2>. QED
      BY <1>1, <2>1, <2>2, DotType, DotCommutes, Sizes
  <1>3. VectorB(a) = [j \in Slots |-> VectorB(a)[j]]
    BY DEF VectorB
  <1>. QED
    BY <1>2, <1>3

\* Vector b is linear in a.
LEMMA VectorBMinus ==
    ASSUME NEW a \in [Rows -> GF], NEW c \in [Rows -> GF], NEW j \in Slots
    PROVE  /\ Apart(M, a, c) \in [Rows -> GF]
           /\ VectorB(Apart(M, a, c))[j] = Minus(VectorB(a)[j], VectorB(c)[j])
  <1>. DEFINE v == Column(j)
  <1>1. v \in [0..(M - 1) -> GF] /\ a \in [0..(M - 1) -> GF] /\ c \in [0..(M - 1) -> GF] /\ M \in Nat
    BY Sizes, MatrixType
  <1>. HIDE DEF v
  <1>2. /\ Apart(M, a, c) \in [0..(M - 1) -> GF]
        /\ Dot(M, v, Apart(M, a, c)) = Minus(Dot(M, v, a), Dot(M, v, c))
    BY <1>1, DotApart
  <1>3. Apart(M, a, c) \in [Rows -> GF]
    BY <1>2, Sizes
  <1>. QED
    BY <1>2, <1>3, VectorBType DEF v

-----------------------------------------------------------------------------
(***************************************************************************)
(* Sets in order: the selected slots, and the combinations that are        *)
(* tried.                                                                  *)
(***************************************************************************)

\* R puts the members of S one after another.
Orders(R, S) ==
    /\ \A x \in S : <<x, x>> \notin R
    /\ \A x, y, z \in S : <<x, y>> \in R /\ <<y, z>> \in R => <<x, z>> \in R
    /\ \A x, y \in S : x # y => <<x, y>> \in R \/ <<y, x>> \in R

\* Sorted lists a set without repetition: for an order there is exactly one function that
\* puts every member at the number of those before it, and it is a bijection.
LEMMA SortedIsBijection ==
    ASSUME NEW S, NEW R, IsFiniteSet(S), Orders(R, S)
    PROVE  Sorted(S, R) \in Bijection(1..Cardinality(S), S)
  <1>. DEFINE below(x) == {y \in S : <<y, x>> \in R}
              n == Cardinality(S)
              rank == [x \in S |-> Cardinality(below(x)) + 1]
  <1>1. n \in Nat
    BY FS_CardinalityType
  <1>2. ASSUME NEW x \in S
        PROVE  IsFiniteSet(below(x)) /\ Cardinality(below(x)) \in Nat /\ Cardinality(below(x)) < n
    <2>1. below(x) \in SUBSET S /\ x \notin below(x)
      BY DEF Orders
    <2>. HIDE DEF below
    <2>2. IsFiniteSet(below(x)) /\ Cardinality(below(x)) <= n /\ (n = Cardinality(below(x)) => S = below(x))
      BY <2>1, FS_Subset
    <2>3. Cardinality(below(x)) \in Nat
      BY <2>2, FS_CardinalityType
    <2>. QED
      BY <1>1, <2>1, <2>2, <2>3
  <1>3. ASSUME NEW x \in S, NEW y \in S, <<x, y>> \in R
        PROVE  Cardinality(below(x)) < Cardinality(below(y))
    <2>1. below(x) \in SUBSET below(y) /\ x \in below(y) /\ x \notin below(x)
      BY <1>3 DEF Orders
    <2>. DEFINE A == below(x)  B == below(y)
    <2>2. IsFiniteSet(B) /\ Cardinality(A) \in Nat /\ Cardinality(B) \in Nat
      BY <1>2
    <2>. HIDE DEF A, B
    <2>3. A \in SUBSET B /\ x \in B /\ x \notin A
      BY <2>1 DEF A, B
    <2>4. Cardinality(A) <= Cardinality(B) /\ (Cardinality(B) = Cardinality(A) => B = A)
      BY <2>2, <2>3, FS_Subset
    <2>5. Cardinality(A) < Cardinality(B)
      BY <2>2, <2>3, <2>4
    <2>. QED
      BY <2>5 DEF A, B
  <1>4. rank \in [S -> 1..n]
    <2>1. \A x \in S : Cardinality(below(x)) \in Nat /\ Cardinality(below(x)) < n
      BY <1>2
    <2>. HIDE DEF below, n
    <2>. QED
      BY <1>1, <2>1
  <1>5. \A x, y \in S : Cardinality(below(x)) = Cardinality(below(y)) => x = y
    <2>. SUFFICES ASSUME NEW x \in S, NEW y \in S, Cardinality(below(x)) = Cardinality(below(y)), x # y
                  PROVE  FALSE
      OBVIOUS
    <2>1. Cardinality(below(x)) \in Nat /\ Cardinality(below(y)) \in Nat
      BY <1>2
    <2>2. <<x, y>> \in R \/ <<y, x>> \in R
      BY DEF Orders
    <2>. HIDE DEF below
    <2>. QED
      BY <1>3, <2>1, <2>2
  <1>6. \A x, y \in S : rank[x] = rank[y] => x = y
    <2>. SUFFICES ASSUME NEW x \in S, NEW y \in S, rank[x] = rank[y] PROVE x = y
      OBVIOUS
    <2>1. Cardinality(below(x)) \in Nat /\ Cardinality(below(y)) \in Nat
      BY <1>2
    <2>. HIDE DEF below
    <2>2. Cardinality(below(x)) = Cardinality(below(y))
      BY <2>1
    <2>. QED
      BY <1>5, <2>2
  <1>7. rank \in Surjection(S, 1..n)
    <2>1. IsFiniteSet(1..n) /\ Cardinality(1..n) = n
      <3>1. 1 \in Int /\ n \in Int
        BY <1>1
      <3>. HIDE DEF n
      <3>2. IsFiniteSet(1..n) /\ Cardinality(1..n) = IF 1 > n THEN 0 ELSE n - 1 + 1
        BY <3>1, FS_Interval
      <3>. QED
        BY <1>1, <3>2
    <2>2. rank \in Injection(S, 1..n)
      <3>. HIDE DEF rank, n
      <3>. QED
        BY <1>4, <1>6 DEF Injection, IsInjective
    <2>3. n = Cardinality(S)
      OBVIOUS
    <2>. HIDE DEF rank, n
    <2>. QED
      BY <2>1, <2>2, <2>3, FS_Injection
  <1>8. \A i \in 1..n : \E x \in S : Cardinality(below(x)) = i - 1
    <2>. SUFFICES ASSUME NEW i \in 1..n PROVE \E x \in S : Cardinality(below(x)) = i - 1
      OBVIOUS
    <2>1. PICK x \in S : rank[x] = i
      <3>. HIDE DEF rank, n
      <3>. QED
        BY <1>7 DEF Surjection
    <2>2. Cardinality(below(x)) \in Nat
      BY <1>2
    <2>. HIDE DEF below, n
    <2>3. Cardinality(below(x)) = i - 1
      BY <1>1, <2>1, <2>2
    <2>. QED
      BY <2>3
  <1>. DEFINE at(i) == CHOOSE x \in S : Cardinality(below(x)) = i - 1
  <1>9. Sorted(S, R) = [i \in 1..n |-> at(i)]
    BY DEF Sorted
  <1>10. \A i \in 1..n : at(i) \in S /\ Cardinality(below(at(i))) = i - 1
    <2>. HIDE DEF below, n
    <2>. QED
      BY <1>8
  <1>. HIDE DEF at
  <1>. DEFINE f == Sorted(S, R)
  <1>11. f \in [1..n -> S] /\ \A i \in 1..n : f[i] = at(i)
    BY <1>9, <1>10
  <1>12. \A i, j \in 1..n : f[i] = f[j] => i = j
    <2>. SUFFICES ASSUME NEW i \in 1..n, NEW j \in 1..n, f[i] = f[j] PROVE i = j
      OBVIOUS
    <2>. HIDE DEF f, below
    <2>1. at(i) = at(j)
      BY <1>11
    <2>2. i - 1 = j - 1
      BY <1>10, <2>1
    <2>. HIDE DEF n
    <2>. QED
      BY <1>1, <2>2
  <1>13. \A x \in S : \E i \in 1..n : f[i] = x
    <2>. SUFFICES ASSUME NEW x \in S PROVE \E i \in 1..n : f[i] = x
      OBVIOUS
    <2>1. Cardinality(below(x)) \in Nat /\ Cardinality(below(x)) < n
      BY <1>2
    <2>. DEFINE i == Cardinality(below(x)) + 1
    <2>. HIDE DEF f, below, n
    <2>2. i \in 1..n /\ i - 1 = Cardinality(below(x))
      BY <1>1, <2>1
    <2>. HIDE DEF i
    <2>3. at(i) = x
      BY <1>5, <1>10, <2>2
    <2>. QED
      BY <1>11, <2>2, <2>3
  <1>. HIDE DEF f
  <1>14. f \in Injection(1..n, S) /\ f \in Surjection(1..n, S)
    <2>. HIDE DEF n
    <2>. QED
      BY <1>11, <1>12, <1>13 DEF Injection, IsInjective, Surjection
  <1>. QED
    BY <1>14 DEF Bijection, f

\* What later proofs use of it.
LEMMA SortedProperties ==
    ASSUME NEW S, NEW R, IsFiniteSet(S), Orders(R, S), NEW n \in Nat, n = Cardinality(S)
    PROVE  /\ Sorted(S, R) \in [1..n -> S]
           /\ \A i, j \in 1..n : Sorted(S, R)[i] = Sorted(S, R)[j] => i = j
           /\ \A x \in S : \E i \in 1..n : Sorted(S, R)[i] = x
  <1>. DEFINE f == Sorted(S, R)
  <1>1. f \in Injection(1..n, S) /\ f \in Surjection(1..n, S)
    BY SortedIsBijection DEF Bijection
  <1>2. f \in [1..n -> S] /\ \A x \in S : \E i \in 1..n : f[i] = x
    <2>. HIDE DEF f
    <2>. QED
      BY <1>1 DEF Surjection
  <1>3. \A i, j \in 1..n : f[i] = f[j] => i = j
    <2>. HIDE DEF f
    <2>. QED
      BY <1>1, <1>2 DEF Injection, IsInjective
  <1>. QED
    BY <1>2, <1>3

\* The slots are ordered by size.
LEMMA AscendingOrders == ASSUME NEW S \in SUBSET Slots PROVE Orders(Ascending, S)
  <1>1. S \subseteq Int
    BY Sizes
  <1>2. \A x, y \in S : <<x, y>> \in Ascending <=> x < y
    BY DEF Ascending
  <1>. QED
    BY <1>1, <1>2 DEF Orders

\* How many slots and rows there are.
LEMMA FiniteSlots ==
    /\ IsFiniteSet(Slots) /\ Cardinality(Slots) = N
    /\ IsFiniteSet(Rows) /\ Cardinality(Rows) = M
    /\ \A s : IsFiniteSet(Known(s)) /\ Known(s) \in SUBSET Slots
  <1>1. 0 \in Int /\ N - 1 \in Int /\ M - 1 \in Int /\ N > 0 /\ M > 0 /\ N \in Int /\ M \in Int
    BY Sizes
  <1>2. IsFiniteSet(0..(N - 1)) /\ Cardinality(0..(N - 1)) = IF 0 > N - 1 THEN 0 ELSE (N - 1) - 0 + 1
    BY <1>1, FS_Interval
  <1>3. IsFiniteSet(0..(M - 1)) /\ Cardinality(0..(M - 1)) = IF 0 > M - 1 THEN 0 ELSE (M - 1) - 0 + 1
    BY <1>1, FS_Interval
  <1>4. IsFiniteSet(Slots) /\ Cardinality(Slots) = N /\ IsFiniteSet(Rows) /\ Cardinality(Rows) = M
    BY <1>1, <1>2, <1>3, Sizes
  <1>5. ASSUME NEW s PROVE IsFiniteSet(Known(s)) /\ Known(s) \in SUBSET Slots
    <2>1. Known(s) \in SUBSET Slots
      BY DEF Known
    <2>. QED
      BY <1>4, <2>1, FS_Subset
  <1>. QED
    BY <1>4, <1>5

\* Ones lists the selected slots, each once.
LEMMA OnesProperties ==
    ASSUME NEW s, Cardinality(Known(s)) = K
    PROVE  /\ Ones(s) \in [1..K -> Known(s)]
           /\ \A i, j \in 1..K : Ones(s)[i] = Ones(s)[j] => i = j
           /\ \A j \in Known(s) : \E i \in 1..K : Ones(s)[i] = j
  <1>. DEFINE S == Known(s)
  <1>1. IsFiniteSet(S) /\ Orders(Ascending, S) /\ K \in Nat /\ K = Cardinality(S)
    BY FiniteSlots, AscendingOrders, Sizes
  <1>. HIDE DEF S
  <1>2. /\ Sorted(S, Ascending) \in [1..K -> S]
        /\ \A i, j \in 1..K : Sorted(S, Ascending)[i] = Sorted(S, Ascending)[j] => i = j
        /\ \A x \in S : \E i \in 1..K : Sorted(S, Ascending)[i] = x
    BY <1>1, SortedProperties
  <1>3. Ones(s) = Sorted(S, Ascending)
    BY DEF Ones, S
  <1>. QED
    BY <1>2, <1>3 DEF S

\* Selectors are ordered by the first slot at which they differ.
LEMMA PrecedesOrders == Orders(Precedes, Selectors)
  <1>. DEFINE At(x, y, j) == x[j] = 1 /\ y[j] = 0 /\ \A i \in 0..(j - 1) : x[i] = y[i]
  <1>1. \A x, y \in Selectors : <<x, y>> \in Precedes <=> \E j \in Slots : At(x, y, j)
    BY DEF Precedes
  <1>2. ASSUME NEW x \in Selectors PROVE <<x, x>> \notin Precedes
    <2>1. \A j \in Slots : ~At(x, x, j)
      OBVIOUS
    <2>. QED
      BY <1>1, <2>1
  <1>3. ASSUME NEW x \in Selectors, NEW y \in Selectors, NEW z \in Selectors,
               <<x, y>> \in Precedes, <<y, z>> \in Precedes
        PROVE  <<x, z>> \in Precedes
    <2>1. PICK j \in Slots : At(x, y, j)
      BY <1>1, <1>3
    <2>2. PICK k \in Slots : At(y, z, k)
      BY <1>1, <1>3
    <2>3. j \in Nat /\ k \in Nat
      BY Sizes
    <2>4. CASE j < k
      <3>1. At(x, z, j)
        BY <2>1, <2>2, <2>3, <2>4
      <3>. QED
        BY <1>1, <3>1
    <2>5. CASE k < j
      <3>1. At(x, z, k)
        BY <2>1, <2>2, <2>3, <2>5
      <3>. QED
        BY <1>1, <3>1
    <2>6. CASE j = k
      BY <2>1, <2>2, <2>6
    <2>. QED
      BY <2>3, <2>4, <2>5, <2>6
  <1>4. ASSUME NEW x \in Selectors, NEW y \in Selectors, x # y
        PROVE  <<x, y>> \in Precedes \/ <<y, x>> \in Precedes
    <2>. DEFINE D == {j \in Slots : x[j] # y[j]}
    <2>1. x \in [Slots -> {0, 1}] /\ y \in [Slots -> {0, 1}]
      BY DEF Selectors
    <2>2. D # {} /\ D \in SUBSET Nat
      <3>1. (\A j \in Slots : x[j] = y[j]) => x = y
        BY <2>1
      <3>. QED
        BY <1>4, <3>1, Sizes
    <2>3. PICK j \in D : \A k \in D : j <= k
      <3>. HIDE DEF D
      <3>. QED
        BY <2>2, Least
    <2>4. \A i \in 0..(j - 1) : x[i] = y[i]
      <3>. SUFFICES ASSUME NEW i \in 0..(j - 1) PROVE x[i] = y[i]
        OBVIOUS
      <3>1. i \in Slots /\ i < j
        BY Sizes
      <3>. QED
        BY <2>3, <3>1
    <2>5. At(x, y, j) \/ At(y, x, j)
      BY <2>1, <2>3, <2>4
    <2>. QED
      BY <1>1, <2>3, <2>5
  <1>. QED
    BY <1>2, <1>3, <1>4 DEF Orders

\* Combinations lists every selector.
LEMMA CombinationsProperties ==
    LET n == Cardinality(Selectors) IN
    /\ n \in Nat
    /\ Combinations \in Seq(Selectors) /\ Len(Combinations) = n
    /\ \A i \in 1..n : Combinations[i] \in Selectors
    /\ \A s \in Selectors : \E i \in 1..n : Combinations[i] = s
  <1>. DEFINE n == Cardinality(Selectors)
  <1>1. IsFiniteSet(Selectors)
    <2>1. IsFiniteSet({0, 1})
      <3>1. 0 \in Int /\ 1 \in Int /\ {0, 1} = 0..1
        OBVIOUS
      <3>. QED
        BY <3>1, FS_Interval
    <2>2. IsFiniteSet([Slots -> {0, 1}])
      BY <2>1, FiniteSlots, FiniteFunctions
    <2>3. Selectors \in SUBSET [Slots -> {0, 1}]
      BY DEF Selectors
    <2>. QED
      BY <2>2, <2>3, FS_Subset
  <1>2. n \in Nat
    BY <1>1, FS_CardinalityType
  <1>3. n = Cardinality(Selectors)
    OBVIOUS
  <1>. HIDE DEF n
  <1>4. /\ Combinations \in [1..n -> Selectors]
        /\ \A x \in Selectors : \E i \in 1..n : Combinations[i] = x
    BY <1>1, <1>2, <1>3, PrecedesOrders, SortedProperties DEF Combinations
  <1>5. Combinations \in Seq(Selectors) /\ Len(Combinations) = n
    BY <1>2, <1>4
  <1>. QED
    BY <1>2, <1>4, <1>5 DEF n

-----------------------------------------------------------------------------
(* Hashes are opaque: combinations of them, atom by atom.                  *)

\* u is a vector of bits that is zero but perhaps at j.
OnlyAt(n, v, u, j) ==
    /\ n \in Nat /\ v \in [0..(n - 1) -> GF] /\ u \in [0..(n - 1) -> {0, 1}] /\ j \in 0..(n - 1)
    /\ \A i \in 0..(n - 1) : i # j => u[i] = 0

\* An inner product with such a vector picks one entry.
LEMMA DotPick ==
    ASSUME NEW n, NEW v, NEW u, NEW j, OnlyAt(n, v, u, j)
    PROVE  Dot(n, v, u) = IF u[j] = 1 THEN v[j] ELSE 0
  <1>. /\ n \in Nat /\ v \in [0..(n - 1) -> GF] /\ u \in [0..(n - 1) -> {0, 1}] /\ j \in 0..(n - 1)
       /\ \A i \in 0..(n - 1) : i # j => u[i] = 0
    BY DEF OnlyAt
  <1>1. IsVector(n, v) /\ IsVector(n, u)
    <2>1. u \in [0..(n - 1) -> GF]
      BY PrimeType
    <2>. QED
      BY <2>1, FieldVector
  <1>2. ASSUME NEW i \in 0..(n - 1), i # j PROVE (v[i] * u[i]) % P = 0
    <2>1. u[i] = 0 /\ v[i] \in Int
      BY <1>2, <1>1 DEF IsVector
    <2>. QED
      BY <2>1, ProductZero
  <1>3. Dot(n, v, u) = (v[j] * u[j]) % P
    BY <1>1, <1>2, DotSingle
  <1>4. v[j] \in GF /\ v[j] \in Int /\ u[j] \in {0, 1}
    BY PrimeType
  <1>5. CASE u[j] = 1
    <2>1. v[j] * u[j] = v[j]
      BY <1>4, <1>5
    <2>. QED
      BY <1>3, <1>4, <1>5, <2>1, SmallRemainder
  <1>6. CASE u[j] = 0
    BY <1>3, <1>4, <1>6, ProductZero
  <1>. QED
    BY <1>4, <1>5, <1>6

\* A hash is one atom.
LEMMA HashForm ==
    ASSUME NEW j \in Slots, NEW x \in Ids \cup {Mask}
    PROVE  /\ Hash(j, x) \in Forms
           /\ \A l \in Slots, y \in Ids \cup {Mask} :
                Hash(j, x)[<<l, y>>] = IF l = j /\ y = x THEN 1 ELSE 0
  <1>1. 1 % P = 1 /\ 1 \in GF /\ 0 \in GF
    BY PrimeType, SmallRemainder
  <1>2. <<j, x>> \in Atoms
    BY DEF Atoms
  <1>3. Hash(j, x) = [t \in Atoms |-> IF t = <<j, x>> THEN 1 ELSE 0]
    BY <1>1, <1>2 DEF Hash, Zero
  <1>4. \A t \in Atoms : Hash(j, x)[t] = IF t = <<j, x>> THEN 1 ELSE 0
    BY <1>3
  <1>5. Hash(j, x) \in Forms
    BY <1>1, <1>3 DEF Forms
  <1>6. ASSUME NEW l \in Slots, NEW y \in Ids \cup {Mask}
        PROVE  Hash(j, x)[<<l, y>>] = IF l = j /\ y = x THEN 1 ELSE 0
    <2>1. <<l, y>> \in Atoms
      BY DEF Atoms
    <2>2. <<l, y>> = <<j, x>> <=> l = j /\ y = x
      OBVIOUS
    <2>. QED
      BY <1>4, <2>1, <2>2
  <1>. QED
    BY <1>5, <1>6

\* The value of a combination at an atom.
LEMMA CombineAt ==
    ASSUME NEW n, NEW c, NEW f, NEW j \in Slots, NEW x \in Ids \cup {Mask}
    PROVE  Combine(n, c, f)[<<j, x>>] = Dot(n, c, [i \in 0..(n - 1) |-> f[i][<<j, x>>]])
  <1>1. <<j, x>> \in Atoms
    BY DEF Atoms
  <1>. QED
    BY <1>1 DEF Combine

\* The stored anchor holds the matrix entry at the identity registered in the slot.
LEMMA AnchorRow ==
    ASSUME NEW reg \in [Slots -> Ids], NEW i \in Rows, NEW j \in Slots, NEW x \in Ids \cup {Mask}
    PROVE  AnchorOf(reg)[i][<<j, x>>] = IF reg[j] = x THEN Matrix[i][j] ELSE 0
  <1>. DEFINE h == [l \in Slots |-> Hash(l, reg[l])]
              u == [l \in 0..(N - 1) |-> h[l][<<j, x>>]]
              v == Matrix[i]
  <1>1. AnchorOf(reg)[i] = Combine(N, v, h)
    BY DEF AnchorOf
  <1>2. AnchorOf(reg)[i][<<j, x>>] = Dot(N, v, u)
    BY <1>1, CombineAt
  <1>3. ASSUME NEW l \in 0..(N - 1) PROVE u[l] = IF j = l /\ x = reg[l] THEN 1 ELSE 0
    <2>1. l \in Slots /\ reg[l] \in Ids \cup {Mask}
      BY Sizes
    <2>2. Hash(l, reg[l])[<<j, x>>] = IF j = l /\ x = reg[l] THEN 1 ELSE 0
      BY <2>1, HashForm
    <2>. QED
      BY <2>1, <2>2
  <1>4. OnlyAt(N, v, u, j)
    <2>1. N \in Nat /\ v \in [0..(N - 1) -> GF] /\ j \in 0..(N - 1)
      BY Sizes, MatrixType
    <2>2. u \in [0..(N - 1) -> {0, 1}] /\ \A l \in 0..(N - 1) : l # j => u[l] = 0
      <3>1. u = [l \in 0..(N - 1) |-> u[l]]
        OBVIOUS
      <3>. HIDE DEF u
      <3>. QED
        BY <1>3, <3>1
    <2>. HIDE DEF u, v
    <2>. QED
      BY <2>1, <2>2 DEF OnlyAt
  <1>5. Dot(N, v, u) = IF u[j] = 1 THEN v[j] ELSE 0
    <2>. HIDE DEF u, v
    <2>. QED
      BY <1>4, DotPick
  <1>6. u[j] = IF x = reg[j] THEN 1 ELSE 0
    BY <1>3, Sizes
  <1>. HIDE DEF u
  <1>. QED
    BY <1>2, <1>5, <1>6

\* The anchor is a vector of combinations.
LEMMA AnchorType ==
    ASSUME NEW reg \in [Slots -> Ids]
    PROVE  AnchorOf(reg) \in [Rows -> Forms]
  <1>1. ASSUME NEW i \in Rows, NEW t \in Atoms PROVE AnchorOf(reg)[i][t] \in GF
    <2>1. PICK j \in Slots, x \in Ids \cup {Mask} : t = <<j, x>>
      BY DEF Atoms
    <2>2. Matrix[i][j] \in GF
      BY MatrixType
    <2>. QED
      BY <2>1, <2>2, AnchorRow, PrimeType
  <1>2. ASSUME NEW i \in Rows PROVE AnchorOf(reg)[i] = [t \in Atoms |-> AnchorOf(reg)[i][t]]
    BY DEF AnchorOf, Combine
  <1>3. AnchorOf(reg) = [i \in Rows |-> AnchorOf(reg)[i]]
    BY DEF AnchorOf
  <1>4. ASSUME NEW i \in Rows PROVE AnchorOf(reg)[i] \in Forms
    BY <1>1, <1>2 DEF Forms
  <1>. QED
    BY <1>3, <1>4

\* The stored anchor combined with a holds b[j] at the identity registered in slot j.
LEMMA AnchorCombined ==
    ASSUME NEW reg \in [Slots -> Ids], NEW a \in [Rows -> GF], NEW j \in Slots, NEW x \in Ids \cup {Mask}
    PROVE  Combine(M, a, AnchorOf(reg))[<<j, x>>] = IF reg[j] = x THEN VectorB(a)[j] ELSE 0
  <1>. DEFINE u == [i \in 0..(M - 1) |-> AnchorOf(reg)[i][<<j, x>>]]
  <1>1. Combine(M, a, AnchorOf(reg))[<<j, x>>] = Dot(M, a, u)
    BY CombineAt
  <1>2. CASE reg[j] = x
    <2>1. \A i \in Rows : AnchorOf(reg)[i][<<j, x>>] = Matrix[i][j]
      BY <1>2, AnchorRow
    <2>2. u = Column(j)
      BY <2>1, Sizes DEF Column
    <2>. HIDE DEF u
    <2>. QED
      BY <1>1, <1>2, <2>2, VectorBType
  <1>3. CASE reg[j] # x
    <2>1. \A i \in Rows : AnchorOf(reg)[i][<<j, x>>] = 0
      BY <1>3, AnchorRow
    <2>2. \A i \in 0..(M - 1) : u[i] = 0
      BY <2>1, Sizes
    <2>3. IsVector(M, a)
      BY Sizes, FieldVector
    <2>. HIDE DEF u
    <2>4. \A i \in 0..(M - 1) : (a[i] * u[i]) % P = 0
      BY <2>2, <2>3, ProductZero DEF IsVector
    <2>5. IsVector(M, u)
      BY <2>2 DEF IsVector
    <2>6. Dot(M, a, u) = 0
      BY <2>3, <2>4, <2>5, DotZero, Sizes
    <2>. QED
      BY <1>1, <1>3, <2>6
  <1>. QED
    BY <1>2, <1>3

\* Where a selected slot stands in the selection.
Place(s, j) == CHOOSE q \in 1..K : Ones(s)[q] = j

\* It is a place of the selection.
LEMMA PlaceProperties ==
    ASSUME NEW s, Cardinality(Known(s)) = K, NEW j \in Known(s)
    PROVE  Place(s, j) \in 1..K /\ Ones(s)[Place(s, j)] = j
  <1>1. \E q \in 1..K : Ones(s)[q] = j
    BY OnesProperties
  <1>. QED
    BY <1>1 DEF Place

\* And each place is some slot's.
LEMMA PlaceOfOnes ==
    ASSUME NEW s, Cardinality(Known(s)) = K, NEW q \in 1..K
    PROVE  Ones(s)[q] \in Known(s) /\ Place(s, Ones(s)[q]) = q
  <1>1. Ones(s)[q] \in Known(s)
    BY OnesProperties
  <1>. DEFINE j == Ones(s)[q]
  <1>2. Place(s, j) \in 1..K /\ Ones(s)[Place(s, j)] = j
    BY <1>1, PlaceProperties
  <1>. QED
    BY <1>1, <1>2, OnesProperties

\* The presented identities combined with b hold b[j] at the one presented for slot j.
LEMMA KnownCombined ==
    ASSUME NEW xs \in [1..K -> Ids], NEW s \in Selectors, NEW b \in [Slots -> GF],
           NEW j \in Slots, NEW x \in Ids \cup {Mask}
    PROVE  /\ s[j] = 1 /\ xs[Place(s, j)] = x => Combine(N, b, HKnown(xs, s))[<<j, x>>] = b[j]
           /\ ~(s[j] = 1 /\ xs[Place(s, j)] = x) => Combine(N, b, HKnown(xs, s))[<<j, x>>] = 0
  <1>. DEFINE h == HKnown(xs, s)
              u == [l \in 0..(N - 1) |-> h[l][<<j, x>>]]
  <1>1. Combine(N, b, h)[<<j, x>>] = Dot(N, b, u)
    BY CombineAt
  <1>2. s \in [Slots -> {0, 1}] /\ Cardinality(Known(s)) = K
    BY DEF Selectors, Known
  <1>3. ASSUME NEW l \in 0..(N - 1)
        PROVE  u[l] = IF j = l /\ s[l] = 1 /\ x = xs[Place(s, l)] THEN 1 ELSE 0
    <2>1. l \in Slots
      BY Sizes
    <2>2. h[l] = IF s[l] = 1 THEN Hash(l, xs[Place(s, l)]) ELSE Zero
      BY <2>1 DEF HKnown, Place
    <2>3. u[l] = h[l][<<j, x>>]
      OBVIOUS
    <2>4. CASE s[l] = 1
      <3>1. l \in Known(s)
        BY <2>1, <2>4 DEF Known
      <3>2. xs[Place(s, l)] \in Ids \cup {Mask}
        BY <1>2, <3>1, PlaceProperties
      <3>3. Hash(l, xs[Place(s, l)])[<<j, x>>] = IF j = l /\ x = xs[Place(s, l)] THEN 1 ELSE 0
        BY <2>1, <3>2, HashForm
      <3>. HIDE DEF h, u
      <3>. QED
        BY <2>2, <2>3, <2>4, <3>3
    <2>5. CASE s[l] # 1
      <3>1. Zero[<<j, x>>] = 0
        BY DEF Zero, Atoms
      <3>. HIDE DEF h, u
      <3>. QED
        BY <2>2, <2>3, <2>5, <3>1
    <2>. QED
      BY <2>4, <2>5
  <1>4. OnlyAt(N, b, u, j)
    <2>1. N \in Nat /\ b \in [0..(N - 1) -> GF] /\ j \in 0..(N - 1)
      BY Sizes
    <2>2. u \in [0..(N - 1) -> {0, 1}] /\ \A l \in 0..(N - 1) : l # j => u[l] = 0
      <3>1. u = [l \in 0..(N - 1) |-> u[l]]
        OBVIOUS
      <3>. HIDE DEF u
      <3>. QED
        BY <1>3, <3>1
    <2>. HIDE DEF u
    <2>. QED
      BY <2>1, <2>2 DEF OnlyAt
  <1>5. Dot(N, b, u) = IF u[j] = 1 THEN b[j] ELSE 0
    <2>. HIDE DEF u
    <2>. QED
      BY <1>4, DotPick
  <1>6. u[j] = IF s[j] = 1 /\ x = xs[Place(s, j)] THEN 1 ELSE 0
    BY <1>3, Sizes
  <1>. HIDE DEF u, h
  <1>. QED
    BY <1>1, <1>5, <1>6 DEF h

-----------------------------------------------------------------------------
(***************************************************************************)
(* Vector a. By RegularAssumption the columns of the unselected slots      *)
(* and of one selected slot are independent, so a selection has exactly    *)
(* one vector a.                                                           *)
(***************************************************************************)

\* K of the slots are selected.
Selection(s) == s \in [Slots -> {0, 1}] /\ Cardinality(Known(s)) = K

\* The others, with any selected one, are as many as the rows.
LEMMA UnknownSlots ==
    ASSUME NEW s, Cardinality(Known(s)) = K
    PROVE  /\ IsFiniteSet(Slots \ Known(s)) /\ Cardinality(Slots \ Known(s)) = M - 1 /\ M - 1 \in Nat
           /\ \A j \in Known(s) : (Slots \ Known(s)) \cup {j} \in kSubset(M, Slots)
  <1>. DEFINE S == Known(s)  U == Slots \ S
  <1>1. S \in SUBSET Slots /\ IsFiniteSet(Slots) /\ Cardinality(Slots) = N
    BY FiniteSlots
  <1>2. Slots \cap S = S
    BY <1>1
  <1>3. IsFiniteSet(U) /\ Cardinality(U) = Cardinality(Slots) - Cardinality(Slots \cap S)
    <2>. HIDE DEF S
    <2>. QED
      BY <1>1, FS_Difference
  <1>4. Cardinality(U) = M - 1 /\ M - 1 \in Nat
    <2>1. Cardinality(U) = N - K
      BY <1>1, <1>2, <1>3
    <2>. HIDE DEF U
    <2>. QED
      BY <2>1, Sizes
  <1>5. ASSUME NEW j \in S PROVE U \cup {j} \in kSubset(M, Slots)
    <2>1. j \notin U /\ U \cup {j} \in SUBSET Slots
      BY <1>1
    <2>. HIDE DEF U
    <2>2. Cardinality(U \cup {j}) = M - 1 + 1
      BY <1>3, <1>4, <2>1, FS_AddElement
    <2>3. Cardinality(U \cup {j}) = M
      BY <2>2, Sizes
    <2>. QED
      BY <2>1, <2>3 DEF kSubset
  <1>. QED
    BY <1>3, <1>4, <1>5

\* No vector but zero vanishes off the selection and at one of its slots.
LEMMA Regular ==
    ASSUME NEW s, Cardinality(Known(s)) = K, NEW k \in Known(s), NEW a \in [Rows -> GF],
           VectorB(a)[k] = 0, \A j \in Slots \ Known(s) : VectorB(a)[j] = 0
    PROVE  \A i \in Rows : a[i] = 0
  <1>. DEFINE C == (Slots \ Known(s)) \cup {k}
  <1>1. C \in kSubset(M, Slots)
    BY UnknownSlots
  <1>2. \A j \in C : VectorB(a)[j] = 0
    OBVIOUS
  <1>. HIDE DEF C
  <1>. QED
    BY <1>1, <1>2, RegularAssumption

\* There is a first selected slot.
LEMMA FirstKnown ==
    ASSUME NEW s, Cardinality(Known(s)) = K
    PROVE  Min(Known(s)) \in Known(s) /\ Min(Known(s)) \in Slots
  <1>1. Known(s) \in SUBSET Slots /\ IsFiniteSet(Known(s))
    BY FiniteSlots
  <1>2. Known(s) # {}
    <2>1. Cardinality(Known(s)) # 0
      BY Sizes
    <2>. QED
      BY <1>1, <2>1, FS_EmptySet
  <1>3. Known(s) \in SUBSET Nat
    BY <1>1, Sizes
  <1>. QED
    BY <1>1, <1>2, <1>3, MinMember

\* The columns of the system are the unselected slots' and one selected slot's.
LEMMA SubmatrixProperties ==
    ASSUME NEW s, Cardinality(Known(s)) = K
    PROVE  /\ \A c \in 1..(M - 1) : SubmatrixColumns(s)[c] \in Slots \ Known(s)
           /\ SubmatrixColumns(s)[M] = Min(Known(s))
           /\ \A j \in Slots \ Known(s) : \E c \in 1..(M - 1) : SubmatrixColumns(s)[c] = j
  <1>. DEFINE U == Slots \ Known(s)  n == M - 1  f == Sorted(U, Ascending)  k == Min(Known(s))
  <1>1. IsFiniteSet(U) /\ Cardinality(U) = n /\ n \in Nat /\ M = n + 1
    BY UnknownSlots, Sizes
  <1>2. Orders(Ascending, U)
    BY AscendingOrders
  <1>3. SubmatrixColumns(s) = Append(f, k)
    BY DEF SubmatrixColumns
  <1>. HIDE DEF U, n
  <1>4. f \in [1..n -> U] /\ \A x \in U : \E i \in 1..n : f[i] = x
    BY <1>1, <1>2, SortedProperties
  <1>. HIDE DEF f, k
  <1>5. f \in Seq(U) /\ Len(f) = n
    BY <1>1, <1>4
  <1>6. \A c \in 1..n : Append(f, k)[c] = f[c]
    BY <1>1, <1>5
  <1>7. Append(f, k)[n + 1] = k
    BY <1>1, <1>5
  <1>8. \A c \in 1..n : Append(f, k)[c] \in U
    BY <1>4, <1>6
  <1>9. \A x \in U : \E c \in 1..n : Append(f, k)[c] = x
    BY <1>4, <1>6
  <1>. QED
    BY <1>1, <1>3, <1>7, <1>8, <1>9 DEF U, n, k

\* The equations of the system, by rows: the right sides.
Target == [r \in Rows |-> IF r = M - 1 THEN 1 ELSE 0]

\* Their left and right sides.
Product(s, a) == [r \in Rows |-> VectorB(a)[SubmatrixColumns(s)[r + 1]]]

\* Both are vectors over the field.
LEMMA ProductType ==
    ASSUME NEW s, Cardinality(Known(s)) = K, NEW a \in [Rows -> GF]
    PROVE  Product(s, a) \in [Rows -> GF] /\ Target \in [Rows -> GF]
  <1>1. ASSUME NEW r \in Rows PROVE SubmatrixColumns(s)[r + 1] \in Slots
    <2>1. CASE r = M - 1
      BY <2>1, SubmatrixProperties, FirstKnown, Sizes
    <2>2. CASE r # M - 1
      <3>1. r + 1 \in 1..(M - 1)
        BY <2>2, Sizes
      <3>. QED
        BY <3>1, SubmatrixProperties
    <2>. QED
      BY <2>1, <2>2
  <1>. QED
    BY <1>1, VectorBType, PrimeType DEF Product, Target

\* A vector satisfies the equations iff it is a vector a for the selection.
LEMMA ProductSolves ==
    ASSUME NEW s, Cardinality(Known(s)) = K, NEW a \in [Rows -> GF]
    PROVE  Product(s, a) = Target <=> SolvesFor(a, s)
  <1>. DEFINE b == VectorB(a)  col == SubmatrixColumns(s)  k == Min(Known(s))  U == Slots \ Known(s)
  <1>1. SolvesFor(a, s) <=> b[k] = 1 /\ \A j \in U : b[j] = 0
    BY DEF SolvesFor
  <1>2. /\ \A c \in 1..(M - 1) : col[c] \in U
        /\ col[M] = k
        /\ \A j \in U : \E c \in 1..(M - 1) : col[c] = j
    BY SubmatrixProperties
  <1>3. \A r \in Rows : Product(s, a)[r] = b[col[r + 1]] /\ Target[r] = IF r = M - 1 THEN 1 ELSE 0
    BY DEF Product, Target
  <1>4. Product(s, a) \in [Rows -> GF] /\ Target \in [Rows -> GF]
    BY ProductType
  <1>. HIDE DEF b, col, k, U
  <1>5. ASSUME Product(s, a) = Target PROVE b[k] = 1 /\ \A j \in U : b[j] = 0
    <2>1. b[k] = 1
      <3>1. M - 1 \in Rows /\ M - 1 + 1 = M
        BY Sizes
      <3>2. Product(s, a)[M - 1] = b[col[M]] /\ Target[M - 1] = 1
        BY <1>3, <3>1
      <3>. QED
        BY <1>2, <1>5, <3>2
    <2>2. ASSUME NEW j \in U PROVE b[j] = 0
      <3>1. PICK c \in 1..(M - 1) : col[c] = j
        BY <1>2
      <3>2. c - 1 \in Rows /\ c - 1 # M - 1 /\ c - 1 + 1 = c
        BY Sizes
      <3>3. Product(s, a)[c - 1] = b[col[c]] /\ Target[c - 1] = 0
        BY <1>3, <3>2
      <3>. QED
        BY <1>5, <3>1, <3>3
    <2>. QED
      BY <2>1, <2>2
  <1>6. ASSUME b[k] = 1, \A j \in U : b[j] = 0 PROVE Product(s, a) = Target
    <2>1. ASSUME NEW r \in Rows PROVE Product(s, a)[r] = Target[r]
      <3>1. CASE r = M - 1
        <4>1. r + 1 = M
          BY <3>1, Sizes
        <4>. QED
          BY <1>2, <1>3, <1>6, <3>1, <4>1
      <3>2. CASE r # M - 1
        <4>1. r + 1 \in 1..(M - 1)
          BY <3>2, Sizes
        <4>. QED
          BY <1>2, <1>3, <1>6, <3>2, <4>1
      <3>. QED
        BY <3>1, <3>2
    <2>. QED
      BY <1>4, <2>1, SameFunction
  <1>. QED
    BY <1>1, <1>5, <1>6

\* At most one vector does, by RegularAssumption.
LEMMA DifferenceVanishes ==
    ASSUME NEW s, Cardinality(Known(s)) = K, NEW a \in [Rows -> GF], NEW c \in [Rows -> GF],
           Product(s, a) = Product(s, c)
    PROVE  a = c
  <1>. DEFINE z == Apart(M, a, c)  col == SubmatrixColumns(s)  k == Min(Known(s))
  <1>1. z \in [Rows -> GF]
    <2>1. Min(Known(s)) \in Slots
      BY FirstKnown
    <2>. QED
      BY <2>1, VectorBMinus
  <1>2. ASSUME NEW r \in Rows, col[r + 1] \in Slots PROVE VectorB(z)[col[r + 1]] = 0
    <2>. DEFINE j == col[r + 1]
    <2>1. j \in Slots
      BY <1>2
    <2>2. Product(s, a)[r] = VectorB(a)[j] /\ Product(s, c)[r] = VectorB(c)[j]
      BY DEF Product
    <2>. HIDE DEF j
    <2>3. VectorB(z)[j] = Minus(VectorB(a)[j], VectorB(c)[j])
      BY <2>1, VectorBMinus
    <2>4. VectorB(a)[j] \in Int
      BY <2>1, VectorBType, PrimeType
    <2>5. VectorB(z)[j] = 0
      BY <2>2, <2>3, <2>4, MinusSelf
    <2>. QED
      BY <2>5 DEF j
  <1>3. \A i \in Rows : z[i] = Minus(a[i], c[i])
    BY Sizes DEF Apart
  <1>. HIDE DEF z
  <1>4. VectorB(z)[k] = 0 /\ k \in Known(s)
    <2>1. M - 1 \in Rows /\ M - 1 + 1 = M /\ col[M] = k /\ k \in Slots /\ k \in Known(s)
      BY Sizes, SubmatrixProperties, FirstKnown
    <2>2. col[M - 1 + 1] = k
      BY <2>1
    <2>. HIDE DEF col, k
    <2>3. VectorB(z)[col[M - 1 + 1]] = 0
      BY <1>2, <2>1, <2>2
    <2>. QED
      BY <2>1, <2>2, <2>3
  <1>5. ASSUME NEW j \in Slots \ Known(s) PROVE VectorB(z)[j] = 0
    <2>1. PICK l \in 1..(M - 1) : col[l] = j
      BY SubmatrixProperties
    <2>2. l - 1 \in Rows /\ l - 1 + 1 = l
      BY Sizes
    <2>. HIDE DEF col
    <2>3. VectorB(z)[col[l - 1 + 1]] = 0
      BY <1>2, <2>1, <2>2
    <2>. QED
      BY <2>1, <2>2, <2>3
  <1>6. \A i \in Rows : z[i] = 0
    <2>. HIDE DEF k
    <2>. QED
      BY <1>1, <1>4, <1>5, Regular
  <1>7. ASSUME NEW i \in Rows PROVE a[i] = c[i]
    <2>1. Minus(a[i], c[i]) = 0 /\ a[i] \in GF /\ c[i] \in GF
      BY <1>3, <1>6
    <2>. QED
      BY <2>1, ZeroDifference
  <1>. QED
    BY <1>7

\* And one does, as there are as many right sides as vectors: the choice that VectorA
\* makes is determined.
LEMMA VectorAProperties ==
    ASSUME NEW s \in Selectors
    PROVE  /\ VectorA[s] \in [Rows -> GF] /\ SolvesFor(VectorA[s], s)
           /\ \A a \in [Rows -> GF] : SolvesFor(a, s) => a = VectorA[s]
  <1>. DEFINE V == [Rows -> GF]
              F == [a \in V |-> Product(s, a)]
  <1>1. Cardinality(Known(s)) = K
    BY DEF Selectors, Known
  <1>2. F \in [V -> V]
    BY <1>1, ProductType
  <1>3. \A a, c \in V : F[a] = F[c] => a = c
    BY <1>1, DifferenceVanishes
  <1>4. IsFiniteSet(V)
    BY FiniteSlots, FieldIsFinite, FiniteFunctions
  <1>5. F \in Surjection(V, V)
    <2>. HIDE DEF F, V
    <2>1. F \in Injection(V, V)
      BY <1>2, <1>3 DEF Injection, IsInjective
    <2>. QED
      BY <1>4, <2>1, FS_Injection
  <1>6. Target \in V
    BY PrimeType DEF Target
  <1>7. PICK a \in V : F[a] = Target
    <2>. HIDE DEF F, V
    <2>. QED
      BY <1>5, <1>6 DEF Surjection
  <1>8. SolvesFor(a, s)
    BY <1>1, <1>7, ProductSolves
  <1>9. VectorA[s] = CHOOSE c \in V : SolvesFor(c, s)
    BY DEF VectorA
  <1>10. VectorA[s] \in V /\ SolvesFor(VectorA[s], s)
    BY <1>8, <1>9
  <1>11. ASSUME NEW c \in V, SolvesFor(c, s) PROVE c = VectorA[s]
    <2>1. Product(s, c) = Target /\ Product(s, VectorA[s]) = Target
      BY <1>1, <1>10, <1>11, ProductSolves
    <2>. QED
      BY <1>1, <1>10, <2>1, DifferenceVanishes
  <1>. QED
    BY <1>10, <1>11

\* A vector that vanishes off a selection and is not zero holds no zero on it.
LEMMA NonzeroOnSelection ==
    ASSUME NEW s, Cardinality(Known(s)) = K, NEW a \in [Rows -> GF], \E i \in Rows : a[i] # 0,
           \A j \in Slots \ Known(s) : VectorB(a)[j] = 0, NEW k \in Known(s)
    PROVE  VectorB(a)[k] # 0
  BY Regular

\* What the library proves with is not the zero vector.
LEMMA VectorAIsNonzero ==
    ASSUME NEW s \in Selectors
    PROVE  /\ \E i \in Rows : VectorA[s][i] # 0
           /\ \A j \in Slots \ Known(s) : VectorB(VectorA[s])[j] = 0
           /\ \A j \in Known(s) : VectorB(VectorA[s])[j] # 0
  <1>. DEFINE a == VectorA[s]  k == Min(Known(s))
  <1>1. Cardinality(Known(s)) = K
    BY DEF Selectors, Known
  <1>2. k \in Known(s) /\ k \in Slots
    BY <1>1, FirstKnown
  <1>3. a \in [Rows -> GF] /\ VectorB(a)[k] = 1 /\ \A j \in Slots \ Known(s) : VectorB(a)[j] = 0
    BY VectorAProperties DEF SolvesFor
  <1>4. \E i \in Rows : a[i] # 0
    <2>. HIDE DEF a, k
    <2>. SUFFICES ASSUME \A i \in Rows : a[i] = 0 PROVE FALSE
      OBVIOUS
    <2>1. IsVector(M, a) /\ IsVector(M, Column(k)) /\ M \in Nat
      BY <1>2, <1>3, MatrixType, Sizes, FieldVector
    <2>2. \A i \in 0..(M - 1) : (a[i] * Column(k)[i]) % P = 0
      BY <2>1, ProductZero, Sizes DEF IsVector
    <2>3. Dot(M, a, Column(k)) = 0
      BY <2>1, <2>2, DotZero
    <2>4. VectorB(a)[k] = 0
      BY <1>2, <1>3, <2>3, VectorBType
    <2>. QED
      BY <1>3, <2>4
  <1>. HIDE DEF a
  <1>5. \A j \in Known(s) : VectorB(a)[j] # 0
    BY <1>1, <1>3, <1>4, NonzeroOnSelection
  <1>. QED
    BY <1>3, <1>4, <1>5 DEF a

\* The identities xs are registered in the slots that s selects, in order.
OccupiesBy(reg, xs, s) == \A i \in 1..K : reg[Ones(s)[i]] = xs[i]

\* The opening check accepts exactly the selections that hold the presented identities.
LEMMA OpensIffOccupies ==
    ASSUME NEW reg \in [Slots -> Ids], NEW xs \in [1..K -> Ids], NEW s \in Selectors
    PROVE  Opens(AnchorOf(reg), VectorA[s], VectorB(VectorA[s]), HKnown(xs, s))
             <=> OccupiesBy(reg, xs, s)
  <1>. DEFINE a == VectorA[s]  b == VectorB(a)  L == Combine(M, a, AnchorOf(reg))
              H == Combine(N, b, HKnown(xs, s))
  <1>1. Cardinality(Known(s)) = K /\ s \in [Slots -> {0, 1}]
    BY DEF Selectors, Known
  <1>2. a \in [Rows -> GF] /\ b \in [Slots -> GF]
    BY VectorAProperties, VectorBType
  <1>3. (\A j \in Slots \ Known(s) : b[j] = 0) /\ \A j \in Known(s) : b[j] # 0
    BY VectorAIsNonzero
  <1>4. Opens(AnchorOf(reg), a, b, HKnown(xs, s)) <=> L = H
    BY DEF Opens
  <1>. HIDE DEF a, b
  <1>5. L = [t \in Atoms |-> L[t]] /\ H = [t \in Atoms |-> H[t]]
    BY DEF Combine
  <1>6. \A j \in Slots, x \in Ids \cup {Mask} : L[<<j, x>>] = IF reg[j] = x THEN b[j] ELSE 0
    BY <1>2, AnchorCombined DEF b
  <1>7. \A j \in Slots, x \in Ids \cup {Mask} :
          H[<<j, x>>] = IF s[j] = 1 /\ xs[Place(s, j)] = x THEN b[j] ELSE 0
    <2>. SUFFICES ASSUME NEW j \in Slots, NEW x \in Ids \cup {Mask}
                  PROVE  H[<<j, x>>] = IF s[j] = 1 /\ xs[Place(s, j)] = x THEN b[j] ELSE 0
      OBVIOUS
    <2>1. PICK c : c = b
      OBVIOUS
    <2>2. c \in [Slots -> GF]
      BY <1>2, <2>1
    <2>3. Combine(N, c, HKnown(xs, s))[<<j, x>>] = IF s[j] = 1 /\ xs[Place(s, j)] = x THEN c[j] ELSE 0
      BY <2>2, KnownCombined
    <2>. QED
      BY <2>1, <2>3
  <1>. HIDE DEF L, H
  <1>8. \A j \in Slots : j \in Known(s) <=> s[j] = 1
    BY DEF Known
  <1>9. ASSUME L = H PROVE OccupiesBy(reg, xs, s)
    <2>1. ASSUME NEW i \in 1..K PROVE reg[Ones(s)[i]] = xs[i]
      <3>. DEFINE j == Ones(s)[i]
      <3>1. j \in Known(s) /\ Place(s, j) = i
        BY <1>1, PlaceOfOnes
      <3>. HIDE DEF j
      <3>2. j \in Slots /\ s[j] = 1 /\ xs[i] \in Ids \cup {Mask}
        BY <3>1 DEF Known
      <3>3. H[<<j, xs[i]>>] = b[j] /\ b[j] # 0
        BY <1>3, <1>7, <3>1, <3>2
      <3>4. L[<<j, xs[i]>>] = IF reg[j] = xs[i] THEN b[j] ELSE 0
        BY <1>6, <3>2
      <3>5. reg[j] = xs[i]
        BY <1>9, <3>3, <3>4
      <3>. QED
        BY <3>5 DEF j
    <2>. QED
      BY <2>1 DEF OccupiesBy
  <1>10. ASSUME OccupiesBy(reg, xs, s) PROVE L = H
    <2>1. ASSUME NEW j \in Slots, NEW x \in Ids \cup {Mask} PROVE L[<<j, x>>] = H[<<j, x>>]
      <3>1. CASE s[j] = 1
        <4>1. Place(s, j) \in 1..K /\ Ones(s)[Place(s, j)] = j
          BY <1>1, <1>8, <3>1, PlaceProperties
        <4>2. reg[j] = xs[Place(s, j)]
          BY <1>10, <4>1 DEF OccupiesBy
        <4>. QED
          BY <1>6, <1>7, <3>1, <4>2
      <3>2. CASE s[j] # 1
        <4>1. b[j] = 0
          BY <1>3, <1>8, <3>2
        <4>. QED
          BY <1>6, <1>7, <3>2, <4>1
      <3>. QED
        BY <3>1, <3>2
    <2>2. \A t \in Atoms : L[t] = H[t]
      BY <2>1 DEF Atoms
    <2>. QED
      BY <1>5, <2>2
  <1>. QED
    BY <1>4, <1>9, <1>10 DEF a, b

-----------------------------------------------------------------------------
(* Both sides of the circuit's equation, atom by atom.                     *)

\* SystemFor makes a system that the solver accepts.
LEMMA SystemForType ==
    ASSUME NEW s \in Selectors
    PROVE  /\ SystemFor(s).size = M
           /\ \A r, c \in Rows : SystemFor(s).matrix[r][c] \in GF
           /\ SystemFor(s).target \in [Rows -> GF]
  <1>. DEFINE col == SubmatrixColumns(s)
  <1>1. Cardinality(Known(s)) = K
    BY DEF Selectors, Known
  <1>2. ASSUME NEW r \in Rows PROVE col[r + 1] \in Slots
    <2>1. CASE r = M - 1
      BY <1>1, <2>1, SubmatrixProperties, FirstKnown, Sizes
    <2>2. CASE r # M - 1
      <3>1. r + 1 \in 1..(M - 1)
        BY <2>2, Sizes
      <3>. QED
        BY <1>1, <3>1, SubmatrixProperties
    <2>. QED
      BY <2>1, <2>2
  <1>3. SystemFor(s).matrix = [r \in Rows |-> [c \in Rows |-> Matrix[r][col[c + 1]]]]
    BY DEF SystemFor
  <1>. HIDE DEF col
  <1>4. \A r, c \in Rows : SystemFor(s).matrix[r][c] \in GF
    BY <1>2, <1>3, MatrixType
  <1>. QED
    BY <1>4, PrimeType DEF SystemFor

\* The system that is solved for a selection has the vector that is meant as its only solution.
LEMMA SystemMeans ==
    ASSUME NEW s \in Selectors, system = SystemFor(s)
    PROVE  \A x \in Solutions : x = VectorA[s]
  <1>. DEFINE col == SubmatrixColumns(s)
  <1>1. Cardinality(Known(s)) = K
    BY DEF Selectors, Known
  <1>2. /\ system.size = M
        /\ system.matrix = [r \in Rows |-> [c \in Rows |-> Matrix[r][col[c + 1]]]]
        /\ system.target = Target
    BY DEF SystemFor, Target
  <1>3. Order = M /\ Indices = Rows /\ M \in Nat \ {0}
    BY <1>2, Sizes DEF Order, Indices
  <1>4. ASSUME NEW r \in Rows PROVE col[r + 1] \in Slots
    <2>1. CASE r = M - 1
      BY <1>1, <2>1, SubmatrixProperties, FirstKnown, Sizes
    <2>2. CASE r # M - 1
      <3>1. r + 1 \in 1..(M - 1)
        BY <2>2, Sizes
      <3>. QED
        BY <1>1, <3>1, SubmatrixProperties
    <2>. QED
      BY <2>1, <2>2
  <1>. HIDE DEF col
  <1>6. ASSUME NEW x \in Solutions PROVE x = VectorA[s]
    <2>1. x \in [Rows -> GF]
      BY <1>3 DEF Solutions
    <2>2. ASSUME NEW r \in Rows PROVE Product(s, x)[r] = Target[r]
      <3>1. Dot(M, [c \in Rows |-> system.matrix[c][r]], x) = Target[r]
        BY <1>2, <1>3, <1>6, <2>2 DEF Solutions
      <3>2. [c \in Rows |-> system.matrix[c][r]] = Column(col[r + 1])
        BY <1>2, <2>2 DEF Column
      <3>3. VectorB(x)[col[r + 1]] = Dot(M, Column(col[r + 1]), x)
        BY <1>4, <2>1, <2>2, VectorBType
      <3>. QED
        BY <2>2, <3>1, <3>2, <3>3 DEF Product, col
    <2>3. Product(s, x) \in [Rows -> GF] /\ Target \in [Rows -> GF]
      BY <1>1, <2>1, ProductType
    <2>4. Product(s, x) = Target
      BY <2>2, <2>3, SameFunction
    <2>5. SolvesFor(x, s)
      BY <1>1, <2>1, <2>4, ProductSolves
    <2>. QED
      BY <2>1, <2>5, VectorAProperties
  <1>. QED
    BY <1>6

\* The masks of a selection, atom by atom.
LEMMA MasksAt ==
    ASSUME NEW sel \in [Slots -> {0, 1}], NEW j \in Slots, NEW x \in Ids \cup {Mask}
    PROVE  /\ x = Mask => Combine(N, sel, [l \in Slots |-> OutputMask(l)])[<<j, x>>] = sel[j]
           /\ x # Mask => Combine(N, sel, [l \in Slots |-> OutputMask(l)])[<<j, x>>] = 0
  <1>. DEFINE h == [l \in Slots |-> OutputMask(l)]
              u == [l \in 0..(N - 1) |-> h[l][<<j, x>>]]
  <1>1. Combine(N, sel, h)[<<j, x>>] = Dot(N, sel, u)
    BY CombineAt
  <1>2. ASSUME NEW l \in 0..(N - 1) PROVE u[l] = IF j = l /\ x = Mask THEN 1 ELSE 0
    <2>1. l \in Slots /\ Mask \in Ids \cup {Mask}
      BY Sizes
    <2>2. Hash(l, Mask)[<<j, x>>] = IF j = l /\ x = Mask THEN 1 ELSE 0
      BY <2>1, HashForm
    <2>. QED
      BY <2>1, <2>2 DEF OutputMask
  <1>3. OnlyAt(N, sel, u, j)
    <2>1. N \in Nat /\ sel \in [0..(N - 1) -> GF] /\ j \in 0..(N - 1)
      BY Sizes, PrimeType
    <2>2. u \in [0..(N - 1) -> {0, 1}] /\ \A l \in 0..(N - 1) : l # j => u[l] = 0
      <3>1. u = [l \in 0..(N - 1) |-> u[l]]
        OBVIOUS
      <3>. HIDE DEF u
      <3>. QED
        BY <1>2, <3>1
    <2>. HIDE DEF u
    <2>. QED
      BY <2>1, <2>2 DEF OnlyAt
  <1>4. u[j] = IF x = Mask THEN 1 ELSE 0
    BY <1>2, Sizes
  <1>. HIDE DEF u, h
  <1>5. Dot(N, sel, u) = IF u[j] = 1 THEN sel[j] ELSE 0
    BY <1>3, DotPick
  <1>. QED
    BY <1>1, <1>4, <1>5 DEF h

\* The random number is in the field.
LEMMA RandomType == random \in Randoms => random \in GF /\ random \in Int
  BY RandomAssumption, PrimeType

\* Zero is neutral.
LEMMA PlusZero == ASSUME NEW x \in GF PROVE Plus(x, 0) = x /\ Plus(0, x) = x
  <1>1. x \in Int /\ x + 0 = x /\ 0 + x = x
    BY PrimeType
  <1>. QED
    BY <1>1, SmallRemainder DEF Plus

\* One is neutral, and zero absorbs.
LEMMA TimesOne == ASSUME NEW x \in GF PROVE Times(x, 1) = x /\ Times(x, 0) = 0
  <1>1. x \in Int /\ x * 1 = x
    BY PrimeType
  <1>. QED
    BY <1>1, SmallRemainder, ProductZero DEF Times

\* Factors may be exchanged.
LEMMA TimesCommutes == ASSUME NEW x \in Int, NEW y \in Int PROVE Times(x, y) = Times(y, x)
  BY DEF Times

\* The left side of a proof, atom by atom: the masks of its selection, and its b at every
\* registered identity.
LEMMA LhsAt ==
    ASSUME registered \in [Slots -> Ids], anchor = AnchorOf(registered), random \in Randoms,
           NEW w \in Witnesses, NEW j \in Slots
    PROVE  /\ Lhs(w)[<<j, Mask>>] = w.sel[j]
           /\ \A x \in Ids : /\ registered[j] = x => Lhs(w)[<<j, x>>] = Times(VectorB(w.a)[j], random)
                             /\ registered[j] # x => Lhs(w)[<<j, x>>] = 0
  <1>. DEFINE A == Combine(M, w.a, anchor)
              S == Combine(N, w.sel, [l \in Slots |-> OutputMask(l)])
  <1>1. w.a \in [Rows -> GF] /\ w.sel \in [Slots -> {0, 1}] /\ w.sel[j] \in GF
    BY PrimeType DEF Witnesses
  <1>2. VectorB(w.a)[j] \in GF /\ random \in GF /\ random \in Int /\ VectorB(w.a)[j] \in Int
    BY <1>1, VectorBType, RandomType, PrimeType
  <1>3. ASSUME NEW x \in Ids \cup {Mask} PROVE Lhs(w)[<<j, x>>] = Plus(Times(random, A[<<j, x>>]), S[<<j, x>>])
    <2>1. <<j, x>> \in Atoms
      BY DEF Atoms
    <2>. HIDE DEF A, S
    <2>2. Lhs(w) = Add(Scale(random, A), S)
      BY DEF Lhs, A, S
    <2>. QED
      BY <2>1, <2>2 DEF Add, Scale
  <1>4. \A x \in Ids \cup {Mask} : (x = Mask => S[<<j, x>>] = w.sel[j]) /\ (x # Mask => S[<<j, x>>] = 0)
    BY <1>1, MasksAt
  <1>5. \A x \in Ids \cup {Mask} : A[<<j, x>>] = IF registered[j] = x THEN VectorB(w.a)[j] ELSE 0
    BY <1>1, AnchorCombined
  <1>. HIDE DEF A, S
  <1>6. Lhs(w)[<<j, Mask>>] = w.sel[j]
    <2>1. registered[j] # Mask
      BY SizeAssumption
    <2>2. A[<<j, Mask>>] = 0 /\ S[<<j, Mask>>] = w.sel[j]
      BY <1>4, <1>5, <2>1
    <2>3. Lhs(w)[<<j, Mask>>] = Plus(Times(random, 0), w.sel[j])
      BY <1>3, <2>2
    <2>. QED
      BY <1>1, <1>2, <2>3, TimesOne, PlusZero
  <1>7. ASSUME NEW x \in Ids
        PROVE  /\ registered[j] = x => Lhs(w)[<<j, x>>] = Times(VectorB(w.a)[j], random)
               /\ registered[j] # x => Lhs(w)[<<j, x>>] = 0
    <2>1. S[<<j, x>>] = 0
      BY <1>4, SizeAssumption
    <2>2. Lhs(w)[<<j, x>>] = Plus(Times(random, A[<<j, x>>]), 0)
      BY <1>3, <2>1
    <2>3. CASE registered[j] = x
      <3>1. Times(random, VectorB(w.a)[j]) = Times(VectorB(w.a)[j], random)
        BY <1>2, TimesCommutes
      <3>2. Times(random, VectorB(w.a)[j]) \in GF
        BY <1>2, FieldTypes
      <3>. QED
        BY <1>5, <2>2, <2>3, <3>1, <3>2, PlusZero
    <2>4. CASE registered[j] # x
      <3>1. A[<<j, x>>] = 0
        BY <1>5, <2>4
      <3>2. Times(random, 0) = 0 /\ Plus(0, 0) = 0
        BY <1>2, TimesOne, PlusZero, PrimeType
      <3>. QED
        BY <2>2, <2>4, <3>1, <3>2
    <2>. QED
      BY <2>3, <2>4
  <1>. QED
    BY <1>6, <1>7

\* The right side of a proof: the mask of its index, and b at its identity.
LEMMA PartialAt ==
    ASSUME random \in Randoms, NEW w \in Witnesses, NEW j \in Slots
    PROVE  /\ w.idx = j => PartialRhs(w)[<<j, Mask>>] = 1
           /\ w.idx # j => PartialRhs(w)[<<j, Mask>>] = 0
           /\ \A x \in Ids :
                /\ w.idx = j /\ w.id = x => PartialRhs(w)[<<j, x>>] = Times(VectorB(w.a)[j], random)
                /\ ~(w.idx = j /\ w.id = x) => PartialRhs(w)[<<j, x>>] = 0
  <1>. DEFINE c == Times(VectorB(w.a)[w.idx], random)
              A == Hash(w.idx, w.id)
              S == OutputMask(w.idx)
  <1>1. w.a \in [Rows -> GF] /\ w.idx \in Slots /\ w.id \in Ids
    BY DEF Witnesses
  <1>2. c \in GF
    <2>1. VectorB(w.a)[w.idx] \in Int /\ random \in Int
      BY <1>1, VectorBType, RandomType, PrimeType
    <2>. QED
      BY <2>1, FieldTypes
  <1>3. ASSUME NEW x \in Ids \cup {Mask} PROVE PartialRhs(w)[<<j, x>>] = Plus(Times(c, A[<<j, x>>]), S[<<j, x>>])
    <2>1. <<j, x>> \in Atoms
      BY DEF Atoms
    <2>. HIDE DEF A, S, c
    <2>2. PartialRhs(w) = Add(Scale(c, A), S)
      BY DEF PartialRhs, A, S, c
    <2>. QED
      BY <2>1, <2>2 DEF Add, Scale
  <1>4. \A x \in Ids \cup {Mask} : A[<<j, x>>] = IF j = w.idx /\ x = w.id THEN 1 ELSE 0
    BY <1>1, HashForm
  <1>5. \A x \in Ids \cup {Mask} : S[<<j, x>>] = IF j = w.idx /\ x = Mask THEN 1 ELSE 0
    <2>1. Mask \in Ids \cup {Mask}
      OBVIOUS
    <2>. QED
      BY <1>1, <2>1, HashForm DEF OutputMask
  <1>. HIDE DEF A, S
  <1>6. \A x \in Ids : x # Mask
    BY SizeAssumption
  <1>7. 0 \in GF /\ 1 \in GF
    BY PrimeType
  <1>8. /\ Times(c, 1) = c /\ Times(c, 0) = 0 /\ Plus(c, 0) = c /\ Plus(0, 1) = 1 /\ Plus(0, 0) = 0
    BY <1>2, <1>7, TimesOne, PlusZero
  <1>9. (w.idx = j => PartialRhs(w)[<<j, Mask>>] = 1) /\ (w.idx # j => PartialRhs(w)[<<j, Mask>>] = 0)
    <2>1. A[<<j, Mask>>] = 0
      BY <1>1, <1>4, <1>6
    <2>2. PartialRhs(w)[<<j, Mask>>] = Plus(0, S[<<j, Mask>>])
      BY <1>3, <1>8, <2>1
    <2>3. (w.idx = j => S[<<j, Mask>>] = 1) /\ (w.idx # j => S[<<j, Mask>>] = 0)
      BY <1>5
    <2>. QED
      BY <1>8, <2>2, <2>3
  <1>10. ASSUME NEW x \in Ids
         PROVE  /\ w.idx = j /\ w.id = x => PartialRhs(w)[<<j, x>>] = Times(VectorB(w.a)[j], random)
                /\ ~(w.idx = j /\ w.id = x) => PartialRhs(w)[<<j, x>>] = 0
    <2>1. S[<<j, x>>] = 0
      BY <1>5, <1>6
    <2>2. PartialRhs(w)[<<j, x>>] = Plus(Times(c, A[<<j, x>>]), 0)
      BY <1>3, <2>1
    <2>3. (w.idx = j /\ w.id = x => A[<<j, x>>] = 1) /\ (~(w.idx = j /\ w.id = x) => A[<<j, x>>] = 0)
      BY <1>4
    <2>. QED
      BY <1>8, <2>2, <2>3
  <1>. QED
    BY <1>9, <1>10

\* The batch's sum at an atom.
Summed(proofs) ==
    Combine(K, [q \in 0..(K - 1) |-> 1], [q \in 0..(K - 1) |-> PartialRhs(proofs[q + 1])])

\* Right sides are over the field.
LEMMA PartialType ==
    ASSUME random \in Randoms, NEW w \in Witnesses, NEW j \in Slots, NEW x \in Ids \cup {Mask}
    PROVE  PartialRhs(w)[<<j, x>>] \in GF
  <1>1. w.a \in [Rows -> GF]
    BY DEF Witnesses
  <1>2. VectorB(w.a)[j] \in Int /\ random \in Int
    BY <1>1, VectorBType, RandomType, PrimeType
  <1>3. Times(VectorB(w.a)[j], random) \in GF /\ 0 \in GF /\ 1 \in GF
    BY <1>2, FieldTypes, PrimeType
  <1>4. x \in Ids \/ x = Mask
    OBVIOUS
  <1>5. CASE x = Mask
    <2>1. (w.idx = j => PartialRhs(w)[<<j, Mask>>] = 1) /\ (w.idx # j => PartialRhs(w)[<<j, Mask>>] = 0)
      BY PartialAt
    <2>. QED
      BY <1>3, <1>5, <2>1
  <1>6. CASE x \in Ids
    <2>1. /\ w.idx = j /\ w.id = x => PartialRhs(w)[<<j, x>>] = Times(VectorB(w.a)[j], random)
          /\ ~(w.idx = j /\ w.id = x) => PartialRhs(w)[<<j, x>>] = 0
      BY <1>6, PartialAt
    <2>. QED
      BY <1>3, <2>1
  <1>. QED
    BY <1>4, <1>5, <1>6

\* An atom that one proof of a batch mentions holds what that proof says.
LEMMA SumAt ==
    ASSUME random \in Randoms, NEW proofs, \A q \in 1..K : proofs[q] \in Witnesses,
           NEW j \in Slots, NEW x \in Ids \cup {Mask}
    PROVE  /\ (\A q \in 1..K : PartialRhs(proofs[q])[<<j, x>>] = 0) => Summed(proofs)[<<j, x>>] = 0
           /\ \A p \in 1..K :
                (\A q \in 1..K : q # p => PartialRhs(proofs[q])[<<j, x>>] = 0)
                   => Summed(proofs)[<<j, x>>] = PartialRhs(proofs[p])[<<j, x>>]
  <1>. DEFINE one == [q \in 0..(K - 1) |-> 1]
              f == [q \in 0..(K - 1) |-> PartialRhs(proofs[q + 1])]
              u == [q \in 0..(K - 1) |-> f[q][<<j, x>>]]
              part(q) == PartialRhs(proofs[q])[<<j, x>>]
  <1>1. Summed(proofs)[<<j, x>>] = Dot(K, one, u)
    <2>1. Summed(proofs) = Combine(K, one, f)
      BY DEF Summed
    <2>. HIDE DEF one, f
    <2>2. Combine(K, one, f)[<<j, x>>] = Dot(K, one, [q \in 0..(K - 1) |-> f[q][<<j, x>>]])
      BY CombineAt
    <2>. QED
      BY <2>1, <2>2
  <1>2. \A q \in 1..K : part(q) \in GF /\ part(q) \in Int
    BY PartialType, PrimeType
  <1>3. \A q \in 0..(K - 1) : u[q] = part(q + 1) /\ one[q] = 1
    OBVIOUS
  <1>. HIDE DEF part
  <1>4. \A q \in 0..(K - 1) : q + 1 \in 1..K
    BY Sizes
  <1>5. IsVector(K, one) /\ IsVector(K, u)
    <2>. HIDE DEF one, u
    <2>. QED
      BY <1>2, <1>3, <1>4 DEF IsVector
  <1>. HIDE DEF one, u
  <1>6. ASSUME NEW q \in 0..(K - 1) PROVE (one[q] * u[q]) % P = part(q + 1)
    <2>1. one[q] * u[q] = part(q + 1) /\ part(q + 1) \in GF
      BY <1>2, <1>3, <1>4
    <2>. QED
      BY <2>1, SmallRemainder
  <1>7. ASSUME \A q \in 1..K : part(q) = 0 PROVE Dot(K, one, u) = 0
    <2>1. \A q \in 0..(K - 1) : (one[q] * u[q]) % P = 0
      BY <1>4, <1>6, <1>7
    <2>. QED
      BY <1>5, <2>1, DotZero, Sizes
  <1>8. ASSUME NEW p \in 1..K, \A q \in 1..K : q # p => part(q) = 0 PROVE Dot(K, one, u) = part(p)
    <2>1. PICK l \in 0..(K - 1) : l + 1 = p
      <3>1. p - 1 \in 0..(K - 1) /\ p - 1 + 1 = p
        BY Sizes
      <3>. QED
        BY <3>1
    <2>2. ASSUME NEW q \in 0..(K - 1), q # l PROVE (one[q] * u[q]) % P = 0
      <3>1. q + 1 \in 1..K /\ q + 1 # p
        BY <1>4, <2>1, <2>2
      <3>. QED
        BY <1>6, <1>8, <3>1
    <2>3. Dot(K, one, u) = (one[l] * u[l]) % P
      BY <1>5, <2>2, DotSingle, Sizes
    <2>. QED
      BY <1>6, <2>1, <2>3
  <1>. QED
    BY <1>1, <1>7, <1>8 DEF part

-----------------------------------------------------------------------------
(* Which batches close.                                                    *)

\* The types of a request, and the anchor that was stored.
Setting ==
    /\ registered \in [Slots -> Ids] /\ anchor = AnchorOf(registered)
    /\ presented \in [1..K -> Ids] /\ random \in Randoms

\* A left side is determined by its atoms.
LEMMA LhsForm == ASSUME NEW w PROVE Lhs(w) = [t \in Atoms |-> Lhs(w)[t]]
  BY DEF Lhs, Add

\* A batch that closes has as many indices as proofs, each holding its identity: the
\* masks force one proof for each selected slot, and b is not zero there.
LEMMA OnlyHolders ==
    ASSUME Setting, NEW proofs,
           \A q \in 1..K : proofs[q] \in Witnesses /\ SatisfiesPhase4(proofs[q]), Closes(proofs)
    PROVE  /\ Cardinality({proofs[q].idx : q \in 1..K}) = K
           /\ \A q \in 1..K : registered[proofs[q].idx] = proofs[q].id
  <1>. DEFINE s == proofs[1].sel  a == proofs[1].a  b == VectorB(a)
              idx == [q \in 1..K |-> proofs[q].idx]
  <1>1. 1 \in 1..K /\ K \in Nat
    BY Sizes
  <1>2. /\ \A q \in 1..K : proofs[q].a = a /\ Lhs(proofs[q]) = Lhs(proofs[1])
        /\ Summed(proofs) = Lhs(proofs[1])
    BY DEF Closes, Summed
  <1>3. /\ a \in [Rows -> GF] /\ s \in [Slots -> {0, 1}] /\ b \in [Slots -> GF]
        /\ \A q \in 1..K : proofs[q].idx \in Slots /\ proofs[q].id \in Ids /\ proofs[q].sel \in [Slots -> {0, 1}]
    BY <1>1, VectorBType DEF Witnesses
  <1>4. /\ Cardinality(Known(s)) = K /\ random # 0 /\ \E i \in Rows : a[i] # 0
        /\ \A j \in Slots : s[j] = 0 => b[j] = 0
    BY <1>1 DEF SatisfiesPhase4
  <1>5. \A j \in Slots : Lhs(proofs[1])[<<j, Mask>>] = s[j]
    BY <1>1, LhsAt DEF Setting
  <1>6. ASSUME NEW q \in 1..K PROVE proofs[q].sel = s
    <2>1. \A j \in Slots : Lhs(proofs[q])[<<j, Mask>>] = proofs[q].sel[j]
      BY LhsAt DEF Setting
    <2>2. \A j \in Slots : proofs[q].sel[j] = s[j]
      BY <1>2, <1>5, <2>1
    <2>. HIDE DEF s
    <2>. QED
      BY <1>3, <2>2, SameFunction
  <1>7. idx \in [1..K -> Known(s)]
    <2>1. ASSUME NEW q \in 1..K PROVE proofs[q].idx \in Known(s)
      <3>1. proofs[q].sel[proofs[q].idx] = 1
        BY DEF SatisfiesPhase4
      <3>. QED
        BY <1>3, <1>6, <3>1 DEF Known
    <2>. HIDE DEF s
    <2>. QED
      BY <2>1
  <1>8. \A j \in Known(s) : \E q \in 1..K : idx[q] = j
    <2>. SUFFICES ASSUME NEW j \in Known(s), \A q \in 1..K : idx[q] # j PROVE FALSE
      OBVIOUS
    <2>1. j \in Slots /\ s[j] = 1
      BY DEF Known
    <2>2. \A q \in 1..K : PartialRhs(proofs[q])[<<j, Mask>>] = 0
      BY <2>1, PartialAt DEF Setting
    <2>3. Summed(proofs)[<<j, Mask>>] = 0
      <3>1. Mask \in Ids \cup {Mask}
        OBVIOUS
      <3>. QED
        BY <2>1, <2>2, <3>1, SumAt DEF Setting
    <2>. QED
      BY <1>2, <1>5, <2>1, <2>3
  <1>9. idx \in Surjection(1..K, Known(s))
    <2>. HIDE DEF idx, s
    <2>. QED
      BY <1>7, <1>8 DEF Surjection
  <1>10. \A p, q \in 1..K : idx[p] = idx[q] => p = q
    <2>1. IsFiniteSet(1..K) /\ Cardinality(1..K) = K
      <3>1. 1 \in Int /\ K \in Int /\ K > 0 /\ K - 1 + 1 = K
        BY Sizes
      <3>2. IsFiniteSet(1..K) /\ Cardinality(1..K) = IF 1 > K THEN 0 ELSE K - 1 + 1
        BY <3>1, FS_Interval
      <3>. QED
        BY <3>1, <3>2
    <2>. HIDE DEF idx, s
    <2>2. idx \in Injection(1..K, Known(s))
      BY <1>4, <1>9, <2>1, FS_Surjection
    <2>. QED
      BY <1>7, <2>2 DEF Injection, IsInjective
  <1>11. Cardinality({proofs[q].idx : q \in 1..K}) = K
    <2>1. {idx[q] : q \in 1..K} = Known(s)
      <3>. HIDE DEF idx, s
      <3>. QED
        BY <1>7, <1>8
    <2>2. {idx[q] : q \in 1..K} = {proofs[q].idx : q \in 1..K}
      OBVIOUS
    <2>. QED
      BY <1>4, <2>1, <2>2
  <1>12. ASSUME NEW p \in 1..K PROVE registered[proofs[p].idx] = proofs[p].id
    <2>. DEFINE j == proofs[p].idx  x == registered[j]
    <2>1. j \in Known(s) /\ j \in Slots /\ x \in Ids
      BY <1>3, <1>7 DEF Setting
    <2>2. b[j] # 0
      <3>1. \A k \in Slots \ Known(s) : b[k] = 0
        BY <1>3, <1>4 DEF Known
      <3>. HIDE DEF j, s
      <3>. QED
        BY <1>3, <1>4, <2>1, <3>1, NonzeroOnSelection
    <2>3. Lhs(proofs[1])[<<j, x>>] = Times(b[j], random)
      BY <1>1, <2>1, LhsAt DEF Setting
    <2>4. Times(b[j], random) # 0
      <3>1. b[j] \in GF /\ random \in GF
        BY <1>3, <2>1, RandomType DEF Setting
      <3>. HIDE DEF b, j
      <3>. QED
        BY <1>4, <2>2, <3>1, FieldIntegral
    <2>5. PICK q \in 1..K : PartialRhs(proofs[q])[<<j, x>>] # 0
      <3>1. x \in Ids \cup {Mask}
        BY <2>1
      <3>2. Summed(proofs)[<<j, x>>] # 0
        BY <1>2, <2>3, <2>4
      <3>. HIDE DEF j, x
      <3>. QED
        BY <2>1, <3>1, <3>2, SumAt DEF Setting
    <2>6. proofs[q].idx = j /\ proofs[q].id = x
      <3>. HIDE DEF j, x
      <3>. QED
        BY <2>1, <2>5, PartialAt DEF Setting
    <2>7. q = p
      BY <1>10, <2>6
    <2>. QED
      BY <2>6, <2>7
  <1>. QED
    BY <1>11, <1>12

\* The library's proof for the q-th credential.
ProofAt(q) ==
    [a |-> VectorA[selector], sel |-> selector, idx |-> Ones(selector)[q], id |-> presented[q]]

\* The library's proofs satisfy the circuit.
LEMMA ProofSatisfies ==
    ASSUME Setting, selector \in Selectors, random # 0, NEW q \in 1..K
    PROVE  ProofAt(q) \in Witnesses /\ SatisfiesPhase4(ProofAt(q))
  <1>. DEFINE a == VectorA[selector]  b == VectorB(a)
  <1>1. Cardinality(Known(selector)) = K /\ selector \in [Slots -> {0, 1}]
    BY DEF Selectors, Known
  <1>2. Ones(selector)[q] \in Slots /\ selector[Ones(selector)[q]] = 1
    BY <1>1, PlaceOfOnes DEF Known
  <1>3. a \in [Rows -> GF] /\ \E i \in Rows : a[i] # 0
    BY VectorAProperties, VectorAIsNonzero
  <1>4. \A j \in Slots : selector[j] = 0 => b[j] = 0
    <2>1. \A j \in Slots \ Known(selector) : b[j] = 0
      BY VectorAIsNonzero
    <2>2. \A j \in Slots : selector[j] = 0 => j \notin Known(selector)
      BY DEF Known
    <2>. QED
      BY <2>1, <2>2
  <1>5. ProofAt(q) \in Witnesses
    BY <1>1, <1>2, <1>3 DEF ProofAt, Witnesses, Setting
  <1>. QED
    BY <1>1, <1>2, <1>3, <1>4, <1>5 DEF ProofAt, SatisfiesPhase4

\* And together they close.
LEMMA LibraryCloses ==
    ASSUME Setting, selector \in Selectors, Occupies(selector), random # 0,
           NEW proofs, Len(proofs) = K, \A q \in 1..K : proofs[q] = ProofAt(q)
    PROVE  Closes(proofs)
  <1>. DEFINE a == VectorA[selector]  b == VectorB(a)  s == selector
  <1>1. Cardinality(Known(s)) = K /\ s \in [Slots -> {0, 1}] /\ 1 \in 1..K
    BY Sizes DEF Selectors, Known
  <1>2. \A q \in 1..K : /\ proofs[q].a = a /\ proofs[q].sel = s
                        /\ proofs[q].idx = Ones(s)[q] /\ proofs[q].id = presented[q]
    BY DEF ProofAt
  <1>3. \A q \in 1..K : proofs[q] \in Witnesses
    BY ProofSatisfies
  <1>4. \A j \in Slots \ Known(s) : b[j] = 0
    BY VectorAIsNonzero
  <1>5. a \in [Rows -> GF] /\ b \in [Slots -> GF] /\ random \in GF /\ random \in Int
    BY VectorAProperties, VectorBType, RandomType DEF Setting
  <1>6. ASSUME NEW q \in 1..K PROVE proofs[q].a = proofs[1].a /\ Lhs(proofs[q]) = Lhs(proofs[1])
    BY <1>1, <1>2 DEF Lhs
  <1>7. ASSUME NEW j \in Slots, NEW x \in Ids \cup {Mask}
        PROVE  Summed(proofs)[<<j, x>>] = Lhs(proofs[1])[<<j, x>>]
    <2>1. /\ Lhs(proofs[1])[<<j, Mask>>] = s[j]
          /\ \A y \in Ids : /\ registered[j] = y => Lhs(proofs[1])[<<j, y>>] = Times(b[j], random)
                            /\ registered[j] # y => Lhs(proofs[1])[<<j, y>>] = 0
      <3>1. proofs[1] \in Witnesses /\ proofs[1].a = a /\ proofs[1].sel = s
        BY <1>1, <1>2, <1>3
      <3>. HIDE DEF a, s
      <3>. QED
        BY <3>1, LhsAt DEF Setting
    <2>2. ASSUME NEW q \in 1..K
          PROVE  /\ Ones(s)[q] = j => PartialRhs(proofs[q])[<<j, Mask>>] = 1
                 /\ Ones(s)[q] # j => PartialRhs(proofs[q])[<<j, Mask>>] = 0
                 /\ \A y \in Ids :
                      /\ Ones(s)[q] = j /\ presented[q] = y => PartialRhs(proofs[q])[<<j, y>>] = Times(b[j], random)
                      /\ ~(Ones(s)[q] = j /\ presented[q] = y) => PartialRhs(proofs[q])[<<j, y>>] = 0
      <3>1. /\ proofs[q] \in Witnesses /\ proofs[q].a = a /\ proofs[q].idx = Ones(s)[q]
            /\ proofs[q].id = presented[q]
        BY <1>2, <1>3
      <3>. HIDE DEF a, s
      <3>. QED
        BY <3>1, PartialAt DEF Setting
    <2>. HIDE DEF a, b, s
    <2>3. CASE j \in Known(s)
      <3>1. s[j] = 1
        BY <2>3 DEF Known
      <3>. DEFINE p == Place(s, j)
      <3>2. p \in 1..K /\ Ones(s)[p] = j
        BY <1>1, <2>3, PlaceProperties
      <3>3. \A q \in 1..K : q # p => Ones(s)[q] # j
        BY <1>1, <3>2, OnesProperties
      <3>4. registered[j] = presented[p]
        BY <3>2 DEF Occupies, s
      <3>. HIDE DEF p
      <3>5. \A q \in 1..K : q # p => PartialRhs(proofs[q])[<<j, x>>] = 0
        <4>1. x = Mask \/ x \in Ids
          OBVIOUS
        <4>. QED
          BY <2>2, <3>3, <4>1
      <3>6. Summed(proofs)[<<j, x>>] = PartialRhs(proofs[p])[<<j, x>>]
        BY <1>3, <3>2, <3>5, SumAt DEF Setting
      <3>7. CASE x = Mask
        BY <2>1, <2>2, <3>1, <3>2, <3>6, <3>7
      <3>8. CASE x \in Ids
        BY <2>1, <2>2, <3>2, <3>4, <3>6, <3>8
      <3>. QED
        BY <3>7, <3>8
    <2>4. CASE j \notin Known(s)
      <3>1. s[j] = 0 /\ b[j] = 0
        BY <1>1, <1>4, <2>4 DEF Known
      <3>2. \A q \in 1..K : Ones(s)[q] # j
        BY <1>1, <2>4, PlaceOfOnes
      <3>3. \A q \in 1..K : PartialRhs(proofs[q])[<<j, x>>] = 0
        <4>1. x = Mask \/ x \in Ids
          OBVIOUS
        <4>. QED
          BY <2>2, <3>2, <4>1
      <3>4. Summed(proofs)[<<j, x>>] = 0
        BY <1>3, <3>3, SumAt DEF Setting
      <3>5. Times(b[j], random) = 0
        BY <1>5, <3>1, ProductZero DEF Times
      <3>. QED
        BY <2>1, <3>1, <3>4, <3>5
    <2>. QED
      BY <2>3, <2>4
  <1>8. Summed(proofs) = Lhs(proofs[1])
    <2>1. Summed(proofs) = [t \in Atoms |-> Summed(proofs)[t]]
      BY DEF Summed, Combine
    <2>2. Lhs(proofs[1]) = [t \in Atoms |-> Lhs(proofs[1])[t]]
      BY LhsForm
    <2>3. \A t \in Atoms : Summed(proofs)[t] = Lhs(proofs[1])[t]
      BY <1>7 DEF Atoms
    <2>. QED
      BY <2>1, <2>2, <2>3
  <1>. QED
    BY <1>6, <1>8 DEF Closes, Summed

-----------------------------------------------------------------------------
(* The protocol: every step keeps its invariant.                           *)

\* The inductive invariant: what the search has excluded, what it found, and what the
\* batch holds.
ProtocolInv ==
    /\ Setting
    /\ phase \in {"searching", "found", "refused", "outside"}
    /\ tried \in 0..Len(Combinations) /\ selector \in Selectors \cup {NoSelector}
    /\ batch \in Seq(Witnesses) /\ Len(batch) <= K
    /\ phase \in {"searching", "refused"} => batch = <<>>
    /\ phase = "searching" => \A i \in 1..tried : ~Occupies(Combinations[i])
    /\ phase = "found" =>
        /\ selector \in Selectors /\ Occupies(selector)
        /\ \A q \in 1..Len(batch) : batch[q] = ProofAt(q) /\ random # 0
    /\ phase = "refused" /\ random # 0 => \A s \in Selectors : ~Occupies(s)
    /\ \A q \in 1..Len(batch) : SatisfiesPhase4(batch[q])

\* The opening check, for the request at hand.
LEMMA Occupying ==
    ASSUME Setting, NEW s \in Selectors
    PROVE  Opens(anchor, VectorA[s], VectorB(VectorA[s]), HKnown(presented, s)) <=> Occupies(s)
  <1>1. OccupiesBy(registered, presented, s) <=> Occupies(s)
    BY DEF OccupiesBy, Occupies
  <1>. QED
    BY <1>1, OpensIffOccupies DEF Setting

\* The combination that is tried next.
LEMMA NextCombination ==
    ASSUME tried \in 0..Len(Combinations)
    PROVE  /\ Len(Combinations) \in Nat
           /\ tried < Len(Combinations) => Combinations[tried + 1] \in Selectors
           /\ tried = Len(Combinations) => \A s \in Selectors : \E i \in 1..tried : Combinations[i] = s
  BY CombinationsProperties

\* A batch with one more proof.
LEMMA AppendProof ==
    ASSUME NEW f \in Seq(Witnesses), NEW w \in Witnesses
    PROVE  /\ Append(f, w) \in Seq(Witnesses) /\ Len(Append(f, w)) = Len(f) + 1 /\ Len(f) \in Nat
           /\ \A q \in 1..Len(f) : Append(f, w)[q] = f[q]
           /\ Append(f, w)[Len(f) + 1] = w
  OBVIOUS

\* The invariant holds of a new request.
LEMMA ProtocolInit == Init => ProtocolInv
  <1>. SUFFICES ASSUME Init PROVE ProtocolInv
    OBVIOUS
  <1>1. Setting /\ phase \in {"searching", "outside"} /\ tried = 0 /\ selector = NoSelector /\ batch = <<>>
    BY DEF Init, Setting
  <1>2. batch \in Seq(Witnesses) /\ Len(batch) = 0 /\ Len(batch) <= K
    BY <1>1, Sizes
  <1>3. tried \in 0..Len(Combinations)
    BY <1>1, CombinationsProperties
  <1>4. (\A i \in 1..tried : ~Occupies(Combinations[i])) /\ (\A q \in 1..Len(batch) : SatisfiesPhase4(batch[q]))
    BY <1>1, <1>2
  <1>. QED
    BY <1>1, <1>2, <1>3, <1>4 DEF ProtocolInv

\* A combination that does not open is not occupied.
LEMMA TryStep == ASSUME ProtocolInv, TrySelector PROVE ProtocolInv'
  <1>. DEFINE s == Combinations[tried + 1]
  <1>1. /\ phase = "searching" /\ tried < Len(Combinations) /\ tried' = tried + 1
        /\ IF Opens(anchor, VectorA[s], VectorB(VectorA[s]), HKnown(presented, s))
           THEN phase' = "found" /\ selector' = s ELSE UNCHANGED <<phase, selector>>
        /\ UNCHANGED <<registered, anchor, presented, random, batch>>
    BY DEF TrySelector
  <1>2. /\ Setting /\ tried \in 0..Len(Combinations) /\ selector \in Selectors \cup {NoSelector}
        /\ batch = <<>> /\ \A i \in 1..tried : ~Occupies(Combinations[i])
    BY <1>1 DEF ProtocolInv
  <1>3. s \in Selectors /\ tried' \in 0..Len(Combinations)
    BY <1>1, <1>2, NextCombination
  <1>4. Setting' /\ \A c : Occupies(c)' <=> Occupies(c)
    BY <1>1, <1>2 DEF Setting, Occupies
  <1>5. batch' = <<>> /\ batch' \in Seq(Witnesses) /\ Len(batch') = 0 /\ Len(batch') <= K
    BY <1>1, <1>2, Sizes
  <1>. HIDE DEF s
  <1>6. Opens(anchor, VectorA[s], VectorB(VectorA[s]), HKnown(presented, s)) <=> Occupies(s)
    <2>1. PICK c : c = s
      OBVIOUS
    <2>2. Opens(anchor, VectorA[c], VectorB(VectorA[c]), HKnown(presented, c)) <=> Occupies(c)
      BY <1>2, <1>3, <2>1, Occupying
    <2>. QED
      BY <2>1, <2>2
  <1>7. CASE Occupies(s)
    <2>1. phase' = "found" /\ selector' \in Selectors /\ Occupies(selector)'
      <3>1. phase' = "found" /\ selector' = s
        BY <1>1, <1>6, <1>7
      <3>2. Occupies(selector)' <=> Occupies(s)
        BY <1>1, <3>1 DEF Occupies
      <3>. QED
        BY <1>3, <1>7, <3>1, <3>2
    <2>. QED
      BY <1>1, <1>3, <1>4, <1>5, <2>1 DEF ProtocolInv
  <1>8. CASE ~Occupies(s)
    <2>1. phase' = "searching" /\ selector' = selector
      BY <1>1, <1>6, <1>8
    <2>2. ASSUME NEW i \in 1..tried' PROVE ~Occupies(Combinations[i])'
      <3>1. CASE i = tried + 1
        BY <1>4, <1>8, <3>1 DEF s
      <3>2. CASE i # tried + 1
        <4>1. i \in 1..tried
          BY <1>1, <1>2, <3>2, NextCombination
        <4>. QED
          BY <1>2, <1>4, <4>1
      <3>. QED
        BY <3>1, <3>2
    <2>. QED
      BY <1>2, <1>3, <1>4, <1>5, <2>1, <2>2 DEF ProtocolInv
  <1>. QED
    BY <1>7, <1>8

\* A request is refused after all of them.
LEMMA RefuseStep == ASSUME ProtocolInv, Refuse PROVE ProtocolInv'
  <1>1. /\ (phase = "searching" /\ tried = Len(Combinations)) \/ (phase = "found" /\ random = 0)
        /\ phase' = "refused"
        /\ UNCHANGED <<registered, anchor, presented, tried, selector, random, batch>>
    BY DEF Refuse
  <1>2. Setting /\ tried \in 0..Len(Combinations) /\ selector \in Selectors \cup {NoSelector}
    BY DEF ProtocolInv
  <1>3. Setting' /\ \A c : Occupies(c)' <=> Occupies(c)
    BY <1>1, <1>2 DEF Setting, Occupies
  <1>4. batch = <<>>
    <2>1. CASE phase = "searching"
      BY <2>1 DEF ProtocolInv
    <2>2. CASE phase = "found" /\ random = 0
      <3>1. batch \in Seq(Witnesses) /\ \A q \in 1..Len(batch) : random # 0
        BY <2>2 DEF ProtocolInv
      <3>2. Len(batch) \in Nat /\ ~(1 \in 1..Len(batch))
        BY <2>2, <3>1
      <3>3. Len(batch) = 0
        BY <3>2
      <3>. QED
        BY <3>1, <3>3, EmptySeq
    <2>. QED
      BY <1>1, <2>1, <2>2
  <1>5. batch' = <<>> /\ batch' \in Seq(Witnesses) /\ Len(batch') = 0 /\ Len(batch') <= K
    BY <1>1, <1>4, Sizes
  <1>6. ASSUME random # 0, NEW s \in Selectors PROVE ~Occupies(s)
    <2>1. phase = "searching" /\ tried = Len(Combinations)
      BY <1>1, <1>6
    <2>2. PICK i \in 1..tried : Combinations[i] = s
      BY <1>2, <2>1, NextCombination
    <2>3. ~Occupies(Combinations[i])
      BY <2>1, <2>2 DEF ProtocolInv
    <2>. QED
      BY <2>2, <2>3
  <1>. QED
    BY <1>1, <1>2, <1>3, <1>5, <1>6 DEF ProtocolInv

\* A proof of the library satisfies the circuit.
LEMMA ProveStep == ASSUME ProtocolInv, Prove PROVE ProtocolInv'
  <1>. DEFINE w == ProofAt(Len(batch) + 1)
  <1>1. /\ phase = "found" /\ random # 0 /\ Len(batch) < K /\ batch' = Append(batch, w)
        /\ UNCHANGED <<registered, anchor, presented, phase, tried, selector, random>>
    BY DEF Prove, ProofAt
  <1>2. /\ Setting /\ tried \in 0..Len(Combinations) /\ selector \in Selectors /\ Occupies(selector)
        /\ batch \in Seq(Witnesses)
        /\ \A q \in 1..Len(batch) : batch[q] = ProofAt(q) /\ SatisfiesPhase4(batch[q])
    BY <1>1 DEF ProtocolInv
  <1>3. Len(batch) \in Nat /\ Len(batch) + 1 \in 1..K
    <2>1. Len(batch) \in Nat
      BY <1>2
    <2>. QED
      BY <1>1, <2>1, Sizes
  <1>4. w \in Witnesses /\ SatisfiesPhase4(w)
    BY <1>1, <1>2, <1>3, ProofSatisfies
  <1>5. Setting' /\ Occupies(selector)' /\ selector' \in Selectors
    BY <1>1, <1>2 DEF Setting, Occupies
  <1>6. /\ batch' \in Seq(Witnesses) /\ Len(batch') = Len(batch) + 1
        /\ \A q \in 1..Len(batch) : batch'[q] = batch[q]
        /\ batch'[Len(batch) + 1] = w
    <2>. HIDE DEF w
    <2>. QED
      BY <1>1, <1>2, <1>4, AppendProof
  <1>7. ASSUME NEW q \in 1..Len(batch') PROVE (batch[q] = ProofAt(q) /\ random # 0 /\ SatisfiesPhase4(batch[q]))'
    <2>1. CASE q = Len(batch) + 1
      <3>1. batch'[q] = ProofAt(q) /\ SatisfiesPhase4(batch'[q])
        BY <1>4, <1>6, <2>1
      <3>. QED
        BY <1>1, <3>1 DEF ProofAt, SatisfiesPhase4
    <2>2. CASE q # Len(batch) + 1
      <3>1. q \in 1..Len(batch)
        BY <1>3, <1>6, <2>2
      <3>2. batch'[q] = ProofAt(q) /\ SatisfiesPhase4(batch'[q])
        BY <1>2, <1>6, <3>1
      <3>. QED
        BY <1>1, <3>2 DEF ProofAt, SatisfiesPhase4
    <2>. QED
      BY <2>1, <2>2
  <1>8. Len(batch') <= K
    BY <1>3, <1>6
  <1>. QED
    BY <1>1, <1>2, <1>5, <1>6, <1>7, <1>8 DEF ProtocolInv

\* Another prover submits what satisfies it.
LEMMA SubmitStep == ASSUME ProtocolInv, SubmitAny PROVE ProtocolInv'
  <1>0. PICK s \in [Slots -> {0, 1}] :
            \E a \in IF batch = <<>> THEN Vectors[s] ELSE {batch[1].a} :
               \E j \in Slots, x \in Ids : Submit([a |-> a, sel |-> s, idx |-> j, id |-> x])
    BY DEF SubmitAny
  <1>1. PICK a \in IF batch = <<>> THEN Vectors[s] ELSE {batch[1].a} :
            \E j \in Slots, x \in Ids : Submit([a |-> a, sel |-> s, idx |-> j, id |-> x])
    BY <1>0
  <1>1b. PICK j \in Slots, x \in Ids : Submit([a |-> a, sel |-> s, idx |-> j, id |-> x])
    BY <1>1
  <1>. DEFINE w == [a |-> a, sel |-> s, idx |-> j, id |-> x]
  <1>2. /\ phase = "outside" /\ Len(batch) < K /\ SatisfiesPhase4(w) /\ batch' = Append(batch, w)
        /\ UNCHANGED <<registered, anchor, presented, phase, tried, selector, random>>
    BY <1>1b DEF Submit
  <1>3. /\ Setting /\ tried \in 0..Len(Combinations) /\ selector \in Selectors \cup {NoSelector}
        /\ batch \in Seq(Witnesses) /\ \A q \in 1..Len(batch) : SatisfiesPhase4(batch[q])
    BY DEF ProtocolInv
  <1>4. a \in [Rows -> GF]
    <2>1. CASE batch = <<>>
      BY <1>1, <2>1 DEF Vectors
    <2>2. CASE batch # <<>>
      <3>1. Len(batch) \in Nat \ {0}
        BY <1>3, <2>2, EmptySeq
      <3>2. batch[1] \in Witnesses
        BY <1>3, <3>1
      <3>. QED
        BY <1>1, <2>2, <3>2 DEF Witnesses
    <2>. QED
      BY <2>1, <2>2
  <1>5. w \in Witnesses
    BY <1>1, <1>4 DEF Witnesses
  <1>. HIDE DEF w
  <1>6. /\ batch' \in Seq(Witnesses) /\ Len(batch') = Len(batch) + 1 /\ Len(batch) \in Nat
        /\ \A q \in 1..Len(batch) : batch'[q] = batch[q]
        /\ batch'[Len(batch) + 1] = w
    BY <1>2, <1>3, <1>5, AppendProof
  <1>7. ASSUME NEW q \in 1..Len(batch') PROVE SatisfiesPhase4(batch[q])'
    <2>1. SatisfiesPhase4(batch'[q])
      <3>1. CASE q = Len(batch) + 1
        BY <1>2, <1>6, <3>1
      <3>2. CASE q # Len(batch) + 1
        <4>1. q \in 1..Len(batch)
          BY <1>6, <3>2
        <4>. QED
          BY <1>3, <1>6, <4>1
      <3>. QED
        BY <3>1, <3>2
    <2>. QED
      BY <1>2, <2>1 DEF SatisfiesPhase4
  <1>8. Setting' /\ Len(batch') <= K
    <2>1. Setting'
      BY <1>2, <1>3 DEF Setting
    <2>2. Len(batch') <= K
      BY <1>2, <1>6, Sizes
    <2>. QED
      BY <2>1, <2>2
  <1>. QED
    BY <1>2, <1>3, <1>6, <1>7, <1>8 DEF ProtocolInv

\* The invariant reads nothing else.
LEMMA ProtocolStutters == ASSUME ProtocolInv, UNCHANGED vars PROVE ProtocolInv'
  <1>1. UNCHANGED <<registered, anchor, presented, phase, tried, selector, random, batch>>
    BY DEF vars
  <1>2. Setting' /\ (\A s : Occupies(s)' <=> Occupies(s)) /\ (\A q : ProofAt(q)' = ProofAt(q))
        /\ (\A w : SatisfiesPhase4(w)' <=> SatisfiesPhase4(w))
    BY <1>1 DEF Setting, Occupies, ProofAt, SatisfiesPhase4, ProtocolInv
  <1>. QED
    BY <1>1, <1>2 DEF ProtocolInv, Occupies, ProofAt, SatisfiesPhase4

\* It is inductive.
LEMMA ProtocolStep == ASSUME ProtocolInv, [Library \/ SubmitAny]_vars PROVE ProtocolInv'
  BY TryStep, RefuseStep, ProveStep, SubmitStep, ProtocolStutters DEF Library

\* It implies the types.
LEMMA ProtocolTypes == ProtocolInv => TypeOK
  <1>. SUFFICES ASSUME ProtocolInv PROVE TypeOK
    OBVIOUS
  <1>1. registered \in [Slots -> Ids] /\ anchor \in [Rows -> Forms]
    BY AnchorType DEF ProtocolInv, Setting
  <1>2. \A q \in 1..Len(batch) : batch[q] \in Witnesses
    BY DEF ProtocolInv
  <1>. QED
    BY <1>1, <1>2 DEF ProtocolInv, Setting, TypeOK

\* The selection that was found is occupied.
LEMMA ProtocolSelects == ProtocolInv => SelectorIsRegistered
  BY DEF ProtocolInv, SelectorIsRegistered

\* A batch of the library closes.
LEMMA ProtocolLibrary == ProtocolInv => LibraryBatchCloses
  <1>. SUFFICES ASSUME ProtocolInv, phase = "found", Len(batch) = K PROVE Closes(batch)
    BY DEF ProtocolInv, LibraryBatchCloses
  <1>1. /\ Setting /\ selector \in Selectors /\ Occupies(selector)
        /\ \A q \in 1..K : batch[q] = ProofAt(q) /\ random # 0
    BY DEF ProtocolInv
  <1>2. random # 0
    BY <1>1, Sizes
  <1>. QED
    BY <1>1, <1>2, LibraryCloses

\* A batch that closes comes from holders.
LEMMA ProtocolHolders == ProtocolInv => OnlyHoldersClose
  <1>. SUFFICES ASSUME ProtocolInv, Closes(batch)
                PROVE  /\ Cardinality({batch[q].idx : q \in 1..K}) = K
                       /\ \A q \in 1..K : registered[batch[q].idx] = batch[q].id
    BY DEF OnlyHoldersClose
  <1>1. Len(batch) = K
    BY DEF Closes
  <1>2. Setting /\ batch \in Seq(Witnesses) /\ \A q \in 1..K : SatisfiesPhase4(batch[q])
    BY <1>1 DEF ProtocolInv
  <1>3. \A q \in 1..K : batch[q] \in Witnesses
    BY <1>1, <1>2
  <1>. QED
    BY <1>2, <1>3, OnlyHolders

-----------------------------------------------------------------------------
(* The search with its systems solved step by step.                        *)

\* The selection whose system is being solved.
Asked == IF phase = "searching" THEN Combinations[tried + 1] ELSE selector

\* A call of the solver is under way for the selection at hand.
Coupled ==
    solveAt # "idle" =>
        /\ \/ phase = "searching" /\ tried < Len(Combinations)
           \/ phase = "found" /\ random # 0 /\ Len(batch) < K
        /\ system = SystemFor(Asked)

\* The invariant of the search is that of the protocol, that of the solver, and what
\* couples them.
SearchInv == ProtocolInv /\ SolveInv /\ Coupled

\* A selection is asked for while a call is under way.
LEMMA AskedType == ASSUME ProtocolInv, Coupled, solveAt # "idle" PROVE Asked \in Selectors
  BY NextCombination DEF ProtocolInv, Coupled, Asked

\* Nothing is promised of a solver at rest.
LEMMA IdleSolve == solveAt = "idle" => SolveInv
  BY DEF SolveInv

\* The search starts there.
LEMMA SearchStarts == SearchInit => SearchInv
  BY ProtocolInit, IdleSolve DEF SearchInit, SolveIdle, SearchInv, Coupled

\* The vector that elimination hands over.
LEMMA SolutionIsMeant ==
    ASSUME SearchInv, solveAt = "solved"
    PROVE  Asked \in Selectors /\ solution = VectorA[Asked]
  <1>1. Asked \in Selectors /\ system = SystemFor(Asked)
    BY AskedType DEF SearchInv, Coupled
  <1>2. solution \in Solutions
    BY SolvedExactly DEF SearchInv
  <1>. QED
    BY <1>1, <1>2, SystemMeans

\* The opening check with the solved vector is the one the algebra means.
LEMMA CheckOpeningMeans == ASSUME SearchInv, CheckOpening PROVE TrySelector
  <1>1. phase = "searching" /\ solveAt = "solved"
    BY DEF CheckOpening
  <1>2. tried < Len(Combinations) /\ solution = VectorA[Combinations[tried + 1]]
    BY <1>1, SolutionIsMeant DEF SearchInv, Coupled, Asked
  <1>. QED
    BY <1>1, <1>2 DEF CheckOpening, TrySelector

\* So is the proof.
LEMMA ProveSolvedMeans == ASSUME SearchInv, ProveSolved PROVE Prove
  <1>1. phase = "found" /\ solveAt = "solved"
    BY DEF ProveSolved
  <1>2. random # 0 /\ Len(batch) < K /\ solution = VectorA[selector]
    BY <1>1, SolutionIsMeant DEF SearchInv, Coupled, Asked
  <1>. QED
    BY <1>1, <1>2 DEF ProveSolved, Prove

\* A step of the search is a step of the library, of another prover, or none.
LEMMA SearchRefines ==
    ASSUME SearchInv, [SearchNext]_searchVars
    PROVE  Library \/ (phase = "outside" /\ SubmitAny) \/ UNCHANGED vars
  <1>1. CASE SolveForCombination \/ SolveForProof
    BY <1>1 DEF SolveForCombination, SolveForProof, Call
  <1>2. CASE Solve
    BY <1>2 DEF Solve
  <1>3. CASE CheckOpening
    BY <1>3, CheckOpeningMeans DEF Library
  <1>4. CASE RefuseRequest
    BY <1>4 DEF RefuseRequest, Library
  <1>5. CASE ProveSolved
    BY <1>5, ProveSolvedMeans DEF Library
  <1>6. CASE SubmitOutside
    BY <1>6 DEF SubmitOutside, SubmitAny, Submit
  <1>7. CASE UNCHANGED searchVars
    BY <1>7 DEF searchVars
  <1>. QED
    BY <1>1, <1>2, <1>3, <1>4, <1>5, <1>6, <1>7 DEF SearchNext

\* A call of the solver begins with a system it accepts.
LEMMA CallStep ==
    ASSUME SearchInv, NEW s \in Selectors, Call(s), Asked = s,
           \/ phase = "searching" /\ tried < Len(Combinations)
           \/ phase = "found" /\ random # 0 /\ Len(batch) < K
    PROVE  SolveInv' /\ Coupled'
  <1>1. solveAt' = "ready" /\ system' = SystemFor(s) /\ UNCHANGED vars
    BY DEF Call
  <1>2. UNCHANGED <<registered, anchor, presented, phase, tried, selector, random, batch>>
    BY <1>1 DEF vars
  <1>3. Coupled'
    BY <1>1, <1>2 DEF Coupled, Asked
  <1>4. SystemOK'
    <2>. DEFINE c == SystemFor(s)
    <2>1. /\ c.size = M /\ M \in Nat \ {0} /\ Rows = 0..(M - 1)
          /\ \A q, r \in Rows : c.matrix[q][r] \in GF
          /\ c.target \in [Rows -> GF]
      BY SystemForType, Sizes
    <2>. HIDE DEF c
    <2>2. system' = c
      BY <1>1 DEF c
    <2>3. Order' = M /\ Indices' = Rows
      BY <2>1, <2>2 DEF Order, Indices
    <2>. QED
      BY <2>1, <2>2, <2>3 DEF SystemOK
  <1>. QED
    BY <1>1, <1>3, <1>4 DEF SolveInv

\* The invariant is inductive.
LEMMA SearchStep == ASSUME SearchInv, [SearchNext]_searchVars PROVE SearchInv'
  <1>1. ProtocolInv'
    <2>1. [Library \/ SubmitAny]_vars
      BY SearchRefines
    <2>. QED
      BY <2>1, ProtocolStep DEF SearchInv
  <1>2. CASE SolveForCombination
    <2>1. /\ phase = "searching" /\ tried < Len(Combinations) /\ Call(Combinations[tried + 1])
          /\ Combinations[tried + 1] \in Selectors /\ Asked = Combinations[tried + 1]
      BY <1>2, NextCombination DEF SolveForCombination, SearchInv, ProtocolInv, Asked
    <2>. QED
      BY <1>1, <2>1, CallStep DEF SearchInv
  <1>3. CASE SolveForProof
    <2>1. /\ phase = "found" /\ random # 0 /\ Len(batch) < K /\ Call(selector)
          /\ selector \in Selectors /\ Asked = selector
      BY <1>3 DEF SolveForProof, SearchInv, ProtocolInv, Asked
    <2>. QED
      BY <1>1, <2>1, CallStep DEF SearchInv
  <1>4. CASE Solve
    <2>1. SolveInv' /\ UNCHANGED vars /\ system' = system /\ solveAt # "idle"
      <3>1. SolveSteps /\ UNCHANGED vars
        BY <1>4 DEF Solve
      <3>2. [SolveNext]_solveVars
        BY <3>1 DEF SolveNext
      <3>. QED
        BY <3>1, <3>2, SolveInductive DEF SearchInv, SolveSteps, Transpose, Eliminate, Turn, Substitute
    <2>2. UNCHANGED <<registered, anchor, presented, phase, tried, selector, random, batch>>
      BY <2>1 DEF vars
    <2>3. Coupled'
      BY <2>1, <2>2 DEF SearchInv, Coupled, Asked
    <2>. QED
      BY <1>1, <2>1, <2>3 DEF SearchInv
  <1>5. CASE CheckOpening \/ ProveSolved
    <2>1. solveAt' = "idle"
      BY <1>5 DEF CheckOpening, ProveSolved, SolveReset
    <2>. QED
      BY <1>1, <2>1 DEF SearchInv, SolveInv, Coupled
  <1>6. CASE RefuseRequest \/ SubmitOutside
    <2>1. UNCHANGED solveVars /\ (Refuse \/ SubmitAny)
      BY <1>6 DEF RefuseRequest, SubmitOutside
    <2>2. solveAt = "idle" /\ solveAt' = "idle"
      <3>1. solveAt = "idle"
        <4>. SUFFICES ASSUME solveAt # "idle" PROVE FALSE
          OBVIOUS
        <4>1. \/ phase = "searching" /\ tried < Len(Combinations)
              \/ phase = "found" /\ random # 0
          BY DEF SearchInv, Coupled
        <4>2. tried < Len(Combinations) => tried # Len(Combinations)
          BY NextCombination DEF SearchInv, ProtocolInv
        <4>. QED
          BY <2>1, <4>1, <4>2 DEF Refuse, SubmitAny, Submit
      <3>. QED
        BY <2>1, <3>1 DEF solveVars
    <2>. QED
      BY <1>1, <2>2 DEF SearchInv, SolveInv, Coupled
  <1>7. CASE UNCHANGED searchVars
    <2>1. UNCHANGED vars /\ UNCHANGED solveVars
      BY <1>7 DEF searchVars
    <2>2. SolveInv'
      BY <2>1, SolveInductive DEF SearchInv
    <2>3. UNCHANGED <<registered, anchor, presented, phase, tried, selector, random, batch, solveAt, system>>
      BY <2>1 DEF vars, solveVars
    <2>4. Coupled'
      BY <2>3 DEF SearchInv, Coupled, Asked
    <2>. QED
      BY <1>1, <2>2, <2>4 DEF SearchInv
  <1>. QED
    BY <1>2, <1>3, <1>4, <1>5, <1>6, <1>7 DEF SearchNext

\* Every reachable state of the search satisfies it.
LEMMA SearchInvariant == SearchSpec => []SearchInv
  <1>1. SearchInv /\ [SearchNext]_searchVars => SearchInv'
    BY SearchStep
  <1>. QED
    BY <1>1, SearchStarts, PTL DEF SearchSpec

\* The state of a request stays within its types, for every field, size of the anchor,
\* set of identities and random number that the assumptions admit.
THEOREM SearchTypes == SearchSpec => []TypeOK
  <1>1. SearchInv => TypeOK
    BY ProtocolTypes DEF SearchInv
  <1>. QED
    BY <1>1, SearchInvariant, PTL

\* Whatever selection the search ends with, the presented identities are registered
\* there, and a request is refused with a nonzero random number only when no selection
\* holds them (build_anchor_witness).
THEOREM SearchIsRight == SearchSpec => []SelectorIsRegistered
  <1>1. SearchInv => SelectorIsRegistered
    BY ProtocolSelects DEF SearchInv
  <1>. QED
    BY <1>1, SearchInvariant, PTL

\* Every complete batch of the library passes the verifier's check of the sums.
THEOREM LibraryCompletes == SearchSpec => []LibraryBatchCloses
  <1>1. SearchInv => LibraryBatchCloses
    BY ProtocolLibrary DEF SearchInv
  <1>. QED
    BY <1>1, SearchInvariant, PTL

\* A batch of proofs that each satisfy the circuit passes the check of the sums only if
\* it comes from K different slots and each identity is the one registered in its slot,
\* whatever other provers put together.
THEOREM OnlyHoldersAccepted == SearchSpec => []OnlyHoldersClose
  <1>1. SearchInv => OnlyHoldersClose
    BY ProtocolHolders DEF SearchInv
  <1>. QED
    BY <1>1, SearchInvariant, PTL

\* The search with its linear systems solved step by step implements the library's part
\* of AnchorProtocol.
THEOREM SearchImplements == SearchSpec => ImplementsLibrary
  <1>1. SearchInit => Init
    BY DEF SearchInit
  <1>2. SearchInv /\ [SearchNext]_searchVars => [phase # "outside" => Library]_vars
    <2>. SUFFICES ASSUME SearchInv, [SearchNext]_searchVars PROVE [phase # "outside" => Library]_vars
      OBVIOUS
    <2>. QED
      BY SearchRefines
  <1>. QED
    BY <1>1, <1>2, SearchInvariant, PTL DEF SearchSpec, ImplementsLibrary, LibrarySpec
=============================================================================
