---------------------------- MODULE BigNatProofs ----------------------------
(***************************************************************************)
(* The loops compare numbers, every check an operation raises is one they  *)
(* are sound for, and an operation whose constraints are satisfied has     *)
(* computed the number it is named for: for every field with room for the  *)
(* bounds, limb width and number of limbs, and whatever witnesses the      *)
(* prover allocates. The gadgets over bits follow: numbers in base two,    *)
(* bytes and segments are read with the same lemmas.                       *)
(***************************************************************************)
EXTENDS BigNatOps, BitGadgets, FiniteSetTheorems, SequenceTheorems, WellFoundedInduction, TLAPS

-----------------------------------------------------------------------------
(* Integers.                                                               *)

\* A multiple of p that is closer to zero than p is zero.
LEMMA SmallMultiple ==
    ASSUME NEW p \in Nat \ {0}, NEW z \in Int, z % p = 0, -p < z, z < p
    PROVE  z = 0
  OBVIOUS

\* Division with remainder.
LEMMA DivMod ==
    ASSUME NEW a \in Nat, NEW b \in Nat \ {0}
    PROVE  /\ a \div b \in Nat /\ a % b \in 0..(b - 1)
           /\ a = b * (a \div b) + (a % b)
  OBVIOUS

\* A residue is its own remainder.
LEMMA ModSelf ==
    ASSUME NEW p \in Nat \ {0}, NEW a \in Nat, a < p
    PROVE  a % p = a
  OBVIOUS

\* Products and quotients the loops form stay where the types say.
LEMMA ProductGrows ==
    ASSUME NEW a \in Nat, NEW b \in Nat \ {0}
    PROVE  a * b \in Nat /\ a <= a * b /\ (a # 0 => a * b > 0)
  OBVIOUS

\* A nonempty set of naturals has a least member. It stands in for the library's
\* induction, whose theorems take an operator.
LEMMA Least ==
    ASSUME NEW T \in SUBSET Nat, T # {}
    PROVE  \E b \in T : \A k \in T : b <= k
  <1>. DEFINE Upto == {0..b : b \in T}
              R == StrictSubsetOrdering(Nat)
              S == FiniteSubsetsOf(Nat)
  <1>1. IsWellFoundedOn(R, S)
    BY FS_StrictSubsetOrderingWellFounded
  <1>2. Upto \subseteq S
    <2>1. ASSUME NEW b \in T PROVE IsFiniteSet(0..b) /\ 0..b \subseteq Nat
      BY <2>1, FS_Interval
    <2>. QED
      BY <2>1 DEF FiniteSubsetsOf
  <1>3. Upto # {}
    OBVIOUS
  <1>4. \E c \in Upto : \A d \in Upto : ~(<<d, c>> \in R)
    <2>. HIDE DEF R, S, Upto
    <2>. QED
    BY <1>1, <1>2, <1>3, WFMin
  <1>5. PICK b \in T : \A k \in T : ~(<<0..k, 0..b>> \in R)
    BY <1>4
  <1>6. ASSUME NEW k \in T, k < b PROVE FALSE
    <2>1. 0..k \subseteq 0..b /\ 0..k # 0..b
      <3>1. b \in 0..b /\ b \notin 0..k
         BY <1>6
      <3>. QED
         BY <1>6, <3>1
    <2>2. <<0..k, 0..b>> \in R
      BY <2>1 DEF StrictSubsetOrdering
    <2>. QED
      BY <1>5, <2>2
  <1>. QED
    BY <1>6

\* Induction over the naturals, with the set of those for which a fact holds.
LEMMA Induct ==
    ASSUME NEW T, 0 \in T, \A n \in Nat : n \in T => n + 1 \in T
    PROVE  Nat \subseteq T
  <1>. SUFFICES ASSUME NEW z \in Nat, z \notin T PROVE FALSE
    OBVIOUS
  <1>1. PICK b \in Nat \ T : \A k \in Nat \ T : b <= k
    BY Least
  <1>2. b # 0 /\ b - 1 \in Nat
    BY <1>1
  <1>3. b - 1 \in T
    BY <1>1, <1>2
  <1>. QED
    BY <1>1, <1>2, <1>3

-----------------------------------------------------------------------------
(* Powers, one factor at a time.                                           *)

\* f holds the powers of b up to the e-th.
IsPower(f, e, b) == f = [k \in 0..e |-> IF k = 0 THEN 1 ELSE f[k - 1] * b]

\* Two functions of the recursion agree.
LEMMA PowerUnique ==
    ASSUME NEW b, NEW n \in Nat, NEW e \in Nat, NEW f, NEW g,
           IsPower(f, n, b), IsPower(g, e, b), NEW j \in Nat, j <= n, j <= e
    PROVE  f[j] = g[j]
  <1>. DEFINE T == {k \in Nat : k <= n /\ k <= e => f[k] = g[k]}
  <1>1. 0 \in T
    BY DEF IsPower
  <1>2. ASSUME NEW k \in Nat, k \in T PROVE k + 1 \in T
    <2>. SUFFICES ASSUME k + 1 <= n, k + 1 <= e PROVE f[k + 1] = g[k + 1]
      OBVIOUS
    <2>1. f[k] = g[k]
      BY <1>2
    <2>2. f[k + 1] = f[k] * b
      BY DEF IsPower
    <2>3. g[k + 1] = g[k] * b
      BY DEF IsPower
    <2>. QED
      BY <2>1, <2>2, <2>3
  <1>. HIDE DEF T
  <1>3. Nat \subseteq T
    BY <1>1, <1>2, Induct
  <1>. QED
    BY <1>3 DEF T

\* The recursion of NatPower has a solution.
LEMMA PowerExists == ASSUME NEW b, NEW e \in Nat PROVE \E f : IsPower(f, e, b)
  <1>. DEFINE T == {k \in Nat : \E f : IsPower(f, k, b)}
  <1>1. 0 \in T
    <2>. DEFINE f == [k \in 0..0 |-> 1]
    <2>1. IsPower(f, 0, b)
      BY DEF IsPower
    <2>. QED
      BY <2>1
  <1>2. ASSUME NEW k \in Nat, k \in T PROVE k + 1 \in T
    <2>1. PICK f : IsPower(f, k, b)
      BY <1>2
    <2>. DEFINE g == [j \in 0..(k + 1) |-> IF j <= k THEN f[j] ELSE f[k] * b]
    <2>2. ASSUME NEW j \in 0..(k + 1)
          PROVE g[j] = IF j = 0 THEN 1 ELSE g[j - 1] * b
      <3>1. CASE j <= k
        BY <2>1, <3>1 DEF IsPower
      <3>2. CASE j = k + 1
        <4>1. g[j] = f[k] * b /\ j # 0 /\ j - 1 = k
          BY <3>2
        <4>2. g[k] = f[k]
          OBVIOUS
        <4>. QED
          BY <4>1, <4>2
      <3>. QED
        BY <3>1, <3>2
    <2>3. IsPower(g, k + 1, b)
      BY <2>2 DEF IsPower
    <2>. QED
      BY <2>3
  <1>. HIDE DEF T
  <1>3. Nat \subseteq T
    BY <1>1, <1>2, Induct
  <1>. QED
    BY <1>3 DEF T

\* NatPower is the last value of any such function.
LEMMA PowerLast ==
    ASSUME NEW b, NEW e \in Nat, NEW f, IsPower(f, e, b)
    PROVE  NatPower(b, e) = f[e]
  <1>. DEFINE S(g) == g = [k \in 0..e |-> IF k = 0 THEN 1 ELSE g[k - 1] * b]
              power == CHOOSE g : S(g)
  <1>1. NatPower(b, e) = power[e]
    BY DEF NatPower
  <1>2. S(f)
    BY DEF IsPower
  <1>3. S(power)
    <2>. HIDE DEF S
    <2>. QED
      BY <1>2
  <1>4. IsPower(power, e, b)
    <2>. HIDE DEF power
    <2>. QED
      BY <1>3 DEF IsPower
  <1>. HIDE DEF S, power
  <1>5. power[e] = f[e]
    BY <1>4, PowerUnique
  <1>. QED
    BY <1>1, <1>5

\* What NatPower means.
LEMMA PowerStep ==
    ASSUME NEW b, NEW e \in Nat
    PROVE  NatPower(b, 0) = 1 /\ NatPower(b, e + 1) = NatPower(b, e) * b
  <1>1. NatPower(b, 0) = 1
    <2>1. PICK f : IsPower(f, 0, b)
      BY PowerExists
    <2>2. NatPower(b, 0) = f[0]
      BY <2>1, PowerLast
    <2>. QED
      BY <2>1, <2>2 DEF IsPower
  <1>2. PICK f : IsPower(f, e + 1, b)
    BY PowerExists
  <1>3. PICK g : IsPower(g, e, b)
    BY PowerExists
  <1>4. f[e] = g[e]
    BY <1>2, <1>3, PowerUnique
  <1>5. f[e + 1] = f[e] * b
    BY <1>2 DEF IsPower
  <1>6. NatPower(b, e + 1) = f[e + 1] /\ NatPower(b, e) = g[e]
    BY <1>2, <1>3, PowerLast
  <1>. QED
    BY <1>1, <1>4, <1>5, <1>6

\* A power of a positive number is positive.
LEMMA PowerType ==
    ASSUME NEW b \in Nat \ {0}, NEW e \in Nat PROVE NatPower(b, e) \in Nat \ {0}
  <1>. DEFINE T == {k \in Nat : NatPower(b, k) \in Nat \ {0}}
  <1>1. 0 \in T
    BY PowerStep
  <1>2. ASSUME NEW k \in Nat, k \in T PROVE k + 1 \in T
    <2>. DEFINE q == NatPower(b, k)
    <2>1. q \in Nat \ {0} /\ NatPower(b, k + 1) = q * b
      BY <1>2, PowerStep
    <2>. HIDE DEF q
    <2>2. q * b \in Nat \ {0}
      BY <2>1
    <2>. QED
      BY <2>1, <2>2
  <1>. HIDE DEF T
  <1>3. Nat \subseteq T
    BY <1>1, <1>2, Induct
  <1>. QED
    BY <1>3 DEF T

\* Powers of a natural number are natural numbers, of zero too.
LEMMA PowerNat ==
    ASSUME NEW b \in Nat, NEW e \in Nat PROVE NatPower(b, e) \in Nat
  <1>. DEFINE T == {k \in Nat : NatPower(b, k) \in Nat}
  <1>1. 0 \in T
    BY PowerStep
  <1>2. ASSUME NEW k \in Nat, k \in T PROVE k + 1 \in T
    <2>. DEFINE q == NatPower(b, k)
    <2>1. q \in Nat /\ NatPower(b, k + 1) = q * b
      BY <1>2, PowerStep
    <2>. HIDE DEF q
    <2>2. q * b \in Nat
      BY <2>1
    <2>. QED
      BY <2>1, <2>2
  <1>. HIDE DEF T
  <1>3. Nat \subseteq T
    BY <1>1, <1>2, Induct
  <1>. QED
    BY <1>3 DEF T

\* Exponents add up.
LEMMA PowerAdd ==
    ASSUME NEW b \in Nat, NEW d \in Nat, NEW e \in Nat
    PROVE  NatPower(b, d + e) = NatPower(b, d) * NatPower(b, e)
  <1>. DEFINE T == {k \in Nat : NatPower(b, d + k) = NatPower(b, d) * NatPower(b, k)}
  <1>1. 0 \in T
    <2>1. NatPower(b, d) \in Nat /\ NatPower(b, 0) = 1 /\ d + 0 = d
      BY PowerNat, PowerStep
    <2>. QED
      BY <2>1
  <1>2. ASSUME NEW k \in Nat, k \in T PROVE k + 1 \in T
    <2>. DEFINE q == NatPower(b, k)  r == NatPower(b, d)
    <2>1. q \in Nat /\ r \in Nat /\ NatPower(b, k + 1) = q * b
      BY PowerNat, PowerStep
    <2>2. NatPower(b, d + (k + 1)) = NatPower(b, d + k) * b
      <3>1. d + (k + 1) = (d + k) + 1 /\ d + k \in Nat
        OBVIOUS
      <3>. QED
        BY <3>1, PowerStep
    <2>3. NatPower(b, d + k) = r * q
      BY <1>2
    <2>. HIDE DEF q, r
    <2>4. (r * q) * b = r * (q * b)
      BY <2>1
    <2>5. NatPower(b, d + (k + 1)) = r * NatPower(b, k + 1)
      BY <2>1, <2>2, <2>3, <2>4
    <2>. QED
      BY <2>5 DEF r
  <1>. HIDE DEF T
  <1>3. Nat \subseteq T
    BY <1>1, <1>2, Induct
  <1>. QED
    BY <1>3 DEF T

\* Exponents multiply.
LEMMA PowerMultiply ==
    ASSUME NEW b \in Nat, NEW d \in Nat, NEW e \in Nat
    PROVE  NatPower(NatPower(b, d), e) = NatPower(b, d * e)
  <1>. DEFINE r == NatPower(b, d)
              T == {k \in Nat : NatPower(r, k) = NatPower(b, d * k)}
  <1>0. r \in Nat
    BY PowerNat
  <1>1. 0 \in T
    <2>1. d * 0 = 0 /\ NatPower(r, 0) = 1 /\ NatPower(b, 0) = 1
      BY PowerStep
    <2>. QED
      BY <2>1
  <1>2. ASSUME NEW k \in Nat, k \in T PROVE k + 1 \in T
    <2>1. NatPower(r, k + 1) = NatPower(r, k) * r
      BY PowerStep
    <2>2. d * k \in Nat /\ d * (k + 1) = d * k + d
      OBVIOUS
    <2>3. NatPower(b, d * k + d) = NatPower(b, d * k) * r
      BY <2>2, PowerAdd
    <2>4. NatPower(r, k) = NatPower(b, d * k)
      BY <1>2
    <2>. HIDE DEF r
    <2>5. NatPower(r, k + 1) = NatPower(b, d * (k + 1))
      BY <2>1, <2>2, <2>3, <2>4
    <2>. QED
      BY <2>5
  <1>. HIDE DEF T
  <1>3. Nat \subseteq T
    BY <1>1, <1>2, Induct
  <1>. QED
    BY <1>3 DEF T, r

\* Powers grow.
LEMMA PowerGrows ==
    ASSUME NEW b \in Nat \ {0}, NEW d \in Nat, NEW e \in Nat, d <= e
    PROVE  NatPower(b, d) <= NatPower(b, e)
  <1>. DEFINE q == NatPower(b, d)  r == NatPower(b, e - d)
  <1>1. e - d \in Nat /\ d + (e - d) = e
    OBVIOUS
  <1>2. q \in Nat /\ r \in Nat \ {0} /\ NatPower(b, e) = q * r
    BY <1>1, PowerType, PowerAdd
  <1>. HIDE DEF q, r
  <1>3. q <= q * r
    BY <1>2
  <1>. QED
    BY <1>2, <1>3 DEF q

-----------------------------------------------------------------------------
(* Sums, one term at a time.                                               *)

\* g holds the sums of the first n terms of f.
IsTotal(g, n, f) == g = [k \in 0..n |-> IF k = 0 THEN 0 ELSE g[k - 1] + f[k - 1]]

\* The same three facts of Total.
LEMMA TotalUnique ==
    ASSUME NEW f, NEW n \in Nat, NEW e \in Nat, NEW g, NEW h,
           IsTotal(g, n, f), IsTotal(h, e, f), NEW j \in Nat, j <= n, j <= e
    PROVE  g[j] = h[j]
  <1>. DEFINE T == {k \in Nat : k <= n /\ k <= e => g[k] = h[k]}
  <1>1. 0 \in T
    BY DEF IsTotal
  <1>2. ASSUME NEW k \in Nat, k \in T PROVE k + 1 \in T
    <2>. SUFFICES ASSUME k + 1 <= n, k + 1 <= e PROVE g[k + 1] = h[k + 1]
      OBVIOUS
    <2>1. g[k] = h[k]
      BY <1>2
    <2>2. g[k + 1] = g[k] + f[k]
      BY DEF IsTotal
    <2>3. h[k + 1] = h[k] + f[k]
      BY DEF IsTotal
    <2>. QED
      BY <2>1, <2>2, <2>3
  <1>. HIDE DEF T
  <1>3. Nat \subseteq T
    BY <1>1, <1>2, Induct
  <1>. QED
    BY <1>3 DEF T

\* The recursion of Total has a solution.
LEMMA TotalExists == ASSUME NEW f, NEW n \in Nat PROVE \E g : IsTotal(g, n, f)
  <1>. DEFINE T == {k \in Nat : \E g : IsTotal(g, k, f)}
  <1>1. 0 \in T
    <2>. DEFINE g == [k \in 0..0 |-> 0]
    <2>1. IsTotal(g, 0, f)
      BY DEF IsTotal
    <2>. QED
      BY <2>1
  <1>2. ASSUME NEW k \in Nat, k \in T PROVE k + 1 \in T
    <2>1. PICK g : IsTotal(g, k, f)
      BY <1>2
    <2>. DEFINE h == [j \in 0..(k + 1) |-> IF j <= k THEN g[j] ELSE g[k] + f[k]]
    <2>2. ASSUME NEW j \in 0..(k + 1)
          PROVE h[j] = IF j = 0 THEN 0 ELSE h[j - 1] + f[j - 1]
      <3>1. CASE j <= k
        BY <2>1, <3>1 DEF IsTotal
      <3>2. CASE j = k + 1
        <4>1. h[j] = g[k] + f[k] /\ j # 0 /\ j - 1 = k
          BY <3>2
        <4>2. h[k] = g[k]
          OBVIOUS
        <4>. QED
          BY <4>1, <4>2
      <3>. QED
        BY <3>1, <3>2
    <2>3. IsTotal(h, k + 1, f)
      BY <2>2 DEF IsTotal
    <2>. QED
      BY <2>3
  <1>. HIDE DEF T
  <1>3. Nat \subseteq T
    BY <1>1, <1>2, Induct
  <1>. QED
    BY <1>3 DEF T

\* Total is the last value of any such function.
LEMMA TotalLast ==
    ASSUME NEW f, NEW n \in Nat, NEW g, IsTotal(g, n, f)
    PROVE  Total(f, n) = g[n]
  <1>. DEFINE S(h) == h = [k \in 0..n |-> IF k = 0 THEN 0 ELSE h[k - 1] + f[k - 1]]
              sum == CHOOSE h : S(h)
  <1>1. Total(f, n) = sum[n]
    BY DEF Total
  <1>2. S(g)
    BY DEF IsTotal
  <1>3. S(sum)
    <2>. HIDE DEF S
    <2>. QED
      BY <1>2
  <1>4. IsTotal(sum, n, f)
    <2>. HIDE DEF sum
    <2>. QED
      BY <1>3 DEF IsTotal
  <1>. HIDE DEF S, sum
  <1>5. sum[n] = g[n]
    BY <1>4, TotalUnique
  <1>. QED
    BY <1>1, <1>5

\* What Total means.
LEMMA TotalStep ==
    ASSUME NEW f, NEW n \in Nat
    PROVE  Total(f, 0) = 0 /\ Total(f, n + 1) = Total(f, n) + f[n]
  <1>1. Total(f, 0) = 0
    <2>1. PICK g : IsTotal(g, 0, f)
      BY TotalExists
    <2>2. Total(f, 0) = g[0]
      BY <2>1, TotalLast
    <2>. QED
      BY <2>1, <2>2 DEF IsTotal
  <1>2. PICK g : IsTotal(g, n + 1, f)
    BY TotalExists
  <1>3. PICK h : IsTotal(h, n, f)
    BY TotalExists
  <1>4. g[n] = h[n]
    BY <1>2, <1>3, TotalUnique
  <1>5. g[n + 1] = g[n] + f[n]
    BY <1>2 DEF IsTotal
  <1>6. Total(f, n + 1) = g[n + 1] /\ Total(f, n) = h[n]
    BY <1>2, <1>3, TotalLast
  <1>. QED
    BY <1>1, <1>4, <1>5, <1>6

\* The first n values of f are integers, or naturals.
IsInts(f, n) == \A j \in 0..(n - 1) : f[j] \in Int
IsNats(f, n) == \A j \in 0..(n - 1) : f[j] \in Nat

\* Sums of integers and of natural numbers.
LEMMA TotalType ==
    ASSUME NEW n \in Nat, NEW f
    PROVE  /\ IsInts(f, n) => Total(f, n) \in Int
           /\ IsNats(f, n) => Total(f, n) \in Nat
  <1>. DEFINE T == {k \in Nat : k <= n => /\ IsInts(f, n) => Total(f, k) \in Int
                                          /\ IsNats(f, n) => Total(f, k) \in Nat}
  <1>1. 0 \in T
    BY TotalStep
  <1>2. ASSUME NEW k \in Nat, k \in T PROVE k + 1 \in T
    <2>1. Total(f, k + 1) = Total(f, k) + f[k]
      BY TotalStep
    <2>2. k + 1 <= n => (IsInts(f, n) => f[k] \in Int) /\ (IsNats(f, n) => f[k] \in Nat)
      BY DEF IsInts, IsNats
    <2>. QED
      BY <1>2, <2>1, <2>2
  <1>. HIDE DEF T
  <1>3. Nat \subseteq T
    BY <1>1, <1>2, Induct
  <1>. QED
    BY <1>3 DEF T

\* A sum depends on its terms only.
LEMMA TotalSame ==
    ASSUME NEW n \in Nat, NEW f, NEW g, \A j \in 0..(n - 1) : f[j] = g[j]
    PROVE  Total(f, n) = Total(g, n)
  <1>. DEFINE T == {k \in Nat : k <= n => Total(f, k) = Total(g, k)}
  <1>1. 0 \in T
    BY TotalStep
  <1>2. ASSUME NEW k \in Nat, k \in T PROVE k + 1 \in T
    <2>1. Total(f, k + 1) = Total(f, k) + f[k] /\ Total(g, k + 1) = Total(g, k) + g[k]
      BY TotalStep
    <2>. QED
      BY <1>2, <2>1
  <1>. HIDE DEF T
  <1>3. Nat \subseteq T
    BY <1>1, <1>2, Induct
  <1>. QED
    BY <1>3 DEF T

\* The sum of sums.
LEMMA TotalAdd ==
    ASSUME NEW n \in Nat, NEW f, NEW g, NEW h, IsInts(f, n), IsInts(g, n),
           \A j \in 0..(n - 1) : h[j] = f[j] + g[j]
    PROVE  Total(h, n) = Total(f, n) + Total(g, n)
  <1>. DEFINE T == {k \in Nat : k <= n => Total(h, k) = Total(f, k) + Total(g, k)}
  <1>1. 0 \in T
    BY TotalStep
  <1>2. ASSUME NEW k \in Nat, k \in T PROVE k + 1 \in T
    <2>. SUFFICES ASSUME k + 1 <= n PROVE Total(h, k + 1) = Total(f, k + 1) + Total(g, k + 1)
      OBVIOUS
    <2>1. /\ Total(f, k + 1) = Total(f, k) + f[k] /\ Total(g, k + 1) = Total(g, k) + g[k]
          /\ Total(h, k + 1) = Total(h, k) + h[k]
      BY TotalStep
    <2>2. f[k] \in Int /\ g[k] \in Int /\ h[k] = f[k] + g[k] /\ IsInts(f, k) /\ IsInts(g, k)
      BY DEF IsInts
    <2>3. Total(f, k) \in Int /\ Total(g, k) \in Int
      BY <2>2, TotalType
    <2>. QED
      BY <1>2, <2>1, <2>2, <2>3
  <1>. HIDE DEF T
  <1>3. Nat \subseteq T
    BY <1>1, <1>2, Induct
  <1>. QED
    BY <1>3 DEF T

\* A factor of every term.
LEMMA TotalScale ==
    ASSUME NEW n \in Nat, NEW f, NEW h, NEW c \in Int, IsInts(f, n),
           \A j \in 0..(n - 1) : h[j] = c * f[j]
    PROVE  Total(h, n) = c * Total(f, n)
  <1>. DEFINE T == {k \in Nat : k <= n => Total(h, k) = c * Total(f, k)}
  <1>1. 0 \in T
    <2>1. c * 0 = 0
      OBVIOUS
    <2>. QED
      BY <2>1, TotalStep
  <1>2. ASSUME NEW k \in Nat, k \in T PROVE k + 1 \in T
    <2>. SUFFICES ASSUME k + 1 <= n PROVE Total(h, k + 1) = c * Total(f, k + 1)
      OBVIOUS
    <2>. DEFINE t == Total(f, k)  v == f[k]
    <2>1. Total(f, k + 1) = t + v /\ Total(h, k + 1) = Total(h, k) + h[k]
      BY TotalStep
    <2>2. v \in Int /\ h[k] = c * v /\ IsInts(f, k)
      BY DEF IsInts
    <2>3. t \in Int /\ Total(h, k) = c * t
      BY <1>2, <2>2, TotalType
    <2>. HIDE DEF t, v
    <2>4. c * (t + v) = c * t + c * v
      BY <2>2, <2>3
    <2>. QED
      BY <2>1, <2>2, <2>3, <2>4
  <1>. HIDE DEF T
  <1>3. Nat \subseteq T
    BY <1>1, <1>2, Induct
  <1>. QED
    BY <1>3 DEF T

\* A sum in two parts.
LEMMA TotalSplit ==
    ASSUME NEW a \in Nat, NEW b \in Nat, NEW f, NEW h, IsInts(f, a + b),
           \A j \in 0..(b - 1) : h[j] = f[a + j]
    PROVE  Total(f, a + b) = Total(f, a) + Total(h, b)
  <1>. DEFINE T == {k \in Nat : k <= b => Total(f, a + k) = Total(f, a) + Total(h, k)}
  <1>0. Total(f, a) \in Int
    <2>1. IsInts(f, a)
      BY DEF IsInts
    <2>. QED
      BY <2>1, TotalType
  <1>1. 0 \in T
    <2>1. Total(h, 0) = 0 /\ a + 0 = a
      BY TotalStep
    <2>. QED
      BY <1>0, <2>1
  <1>2. ASSUME NEW k \in Nat, k \in T PROVE k + 1 \in T
    <2>. SUFFICES ASSUME k + 1 <= b PROVE Total(f, a + (k + 1)) = Total(f, a) + Total(h, k + 1)
      OBVIOUS
    <2>1. a + (k + 1) = (a + k) + 1 /\ a + k \in Nat
      OBVIOUS
    <2>2. Total(f, (a + k) + 1) = Total(f, a + k) + f[a + k] /\ Total(h, k + 1) = Total(h, k) + h[k]
      BY <2>1, TotalStep
    <2>3. f[a + k] \in Int /\ h[k] = f[a + k] /\ IsInts(h, k)
      BY DEF IsInts
    <2>4. Total(h, k) \in Int /\ Total(f, a + k) = Total(f, a) + Total(h, k)
      BY <1>2, <2>3, TotalType
    <2>. QED
      BY <1>0, <2>1, <2>2, <2>3, <2>4
  <1>. HIDE DEF T
  <1>3. Nat \subseteq T
    BY <1>1, <1>2, Induct
  <1>. QED
    BY <1>3 DEF T

\* A sum of smaller terms is smaller.
LEMMA TotalAtMost ==
    ASSUME NEW n \in Nat, NEW f, NEW g, IsInts(f, n), IsInts(g, n),
           \A j \in 0..(n - 1) : f[j] <= g[j]
    PROVE  Total(f, n) <= Total(g, n)
  <1>. DEFINE T == {k \in Nat : k <= n => Total(f, k) <= Total(g, k)}
  <1>1. 0 \in T
    BY TotalStep
  <1>2. ASSUME NEW k \in Nat, k \in T PROVE k + 1 \in T
    <2>. SUFFICES ASSUME k + 1 <= n PROVE Total(f, k + 1) <= Total(g, k + 1)
      OBVIOUS
    <2>1. Total(f, k + 1) = Total(f, k) + f[k] /\ Total(g, k + 1) = Total(g, k) + g[k]
      BY TotalStep
    <2>2. f[k] \in Int /\ g[k] \in Int /\ f[k] <= g[k] /\ IsInts(f, k) /\ IsInts(g, k)
      BY DEF IsInts
    <2>3. Total(f, k) \in Int /\ Total(g, k) \in Int
      BY <2>2, TotalType
    <2>. QED
      BY <1>2, <2>1, <2>2, <2>3
  <1>. HIDE DEF T
  <1>3. Nat \subseteq T
    BY <1>1, <1>2, Induct
  <1>. QED
    BY <1>3 DEF T

\* Terms that are zero do not count.
LEMMA TotalZero ==
    ASSUME NEW n \in Nat, NEW f, \A j \in 0..(n - 1) : f[j] = 0
    PROVE  Total(f, n) = 0
  <1>. DEFINE T == {k \in Nat : k <= n => Total(f, k) = 0}
  <1>1. 0 \in T
    BY TotalStep
  <1>2. ASSUME NEW k \in Nat, k \in T PROVE k + 1 \in T
    <2>1. Total(f, k + 1) = Total(f, k) + f[k]
      BY TotalStep
    <2>. QED
      BY <1>2, <2>1
  <1>. HIDE DEF T
  <1>3. Nat \subseteq T
    BY <1>1, <1>2, Induct
  <1>. QED
    BY <1>3 DEF T

\* Zeros at the end add nothing.
LEMMA TotalPadded ==
    ASSUME NEW n \in Nat, NEW d \in Nat, n <= d, NEW f, NEW h, IsInts(f, n),
           \A j \in 0..(n - 1) : h[j] = f[j], \A j \in n..(d - 1) : h[j] = 0
    PROVE  Total(h, d) = Total(f, n)
  <1>. DEFINE t == [j \in 0..(d - n - 1) |-> h[n + j]]
  <1>1. d - n \in Nat /\ n + (d - n) = d
    OBVIOUS
  <1>2. IsInts(h, n + (d - n))
    BY DEF IsInts
  <1>7. \A j \in 0..((d - n) - 1) : t[j] = h[n + j] /\ t[j] = 0
    OBVIOUS
  <1>. HIDE DEF t
  <1>3. Total(h, n + (d - n)) = Total(h, n) + Total(t, d - n)
    BY <1>1, <1>2, <1>7, TotalSplit
  <1>4. Total(t, d - n) = 0
    BY <1>1, <1>7, TotalZero
  <1>5. Total(h, n) = Total(f, n)
    BY TotalSame
  <1>6. Total(f, n) \in Int
    BY TotalType
  <1>. QED
    BY <1>1, <1>3, <1>4, <1>5, <1>6

\* The order of the terms does not matter: the other way round.
LEMMA TotalReverse ==
    ASSUME NEW n \in Nat, NEW f, NEW h, IsInts(f, n), \A j \in 0..(n - 1) : h[j] = f[n - 1 - j]
    PROVE  Total(h, n) = Total(f, n)
  <1>. DEFINE tail(k) == [j \in 0..(k - 1) |-> f[n - k + j]]
              T == {k \in Nat : k <= n => Total(h, k) = Total(tail(k), k)}
  <1>1. 0 \in T
    BY TotalStep
  <1>2. ASSUME NEW k \in Nat, k \in T PROVE k + 1 \in T
    <2>. SUFFICES ASSUME k + 1 <= n PROVE Total(h, k + 1) = Total(tail(k + 1), k + 1)
      OBVIOUS
    <2>1. Total(h, k + 1) = Total(h, k) + h[k] /\ h[k] = f[n - (k + 1)]
      <3>1. n - 1 - k = n - (k + 1)
        OBVIOUS
      <3>. QED
        BY <3>1, TotalStep
    <2>2. IsInts(tail(k + 1), 1 + k)
      BY DEF IsInts
    <2>3. \A j \in 0..(k - 1) : tail(k)[j] = tail(k + 1)[1 + j]
      OBVIOUS
    <2>4. Total(tail(k + 1), 1 + k) = Total(tail(k + 1), 1) + Total(tail(k), k)
      <3>. HIDE DEF tail
      <3>. QED
        BY <2>2, <2>3, TotalSplit
    <2>5. tail(k + 1)[0] = f[n - (k + 1)] /\ f[n - (k + 1)] \in Int /\ 1 + k = k + 1
      BY DEF IsInts
    <2>6. Total(tail(k + 1), 1) = tail(k + 1)[0]
      <3>. HIDE DEF tail
      <3>1. Total(tail(k + 1), 0 + 1) = Total(tail(k + 1), 0) + tail(k + 1)[0]
            /\ Total(tail(k + 1), 0) = 0
        BY TotalStep
      <3>. QED
        BY <2>5, <3>1
    <2>7. IsInts(tail(k), k)
      BY DEF IsInts
    <2>8. Total(tail(k), k) \in Int
      <3>. HIDE DEF tail
      <3>. QED
        BY <2>7, TotalType
    <2>9. Total(h, k) = Total(tail(k), k)
      BY <1>2
    <2>. HIDE DEF tail
    <2>. QED
      BY <2>1, <2>4, <2>5, <2>6, <2>8, <2>9
  <1>3. Nat \subseteq T
    <2>. HIDE DEF T
    <2>. QED
      BY <1>1, <1>2, Induct
  <1>4. Total(h, n) = Total(tail(n), n)
    BY <1>3
  <1>5. \A j \in 0..(n - 1) : tail(n)[j] = f[j]
    OBVIOUS
  <1>6. Total(tail(n), n) = Total(f, n)
    <2>. HIDE DEF tail
    <2>. QED
      BY <1>5, TotalSame
  <1>. QED
    BY <1>4, <1>6

-----------------------------------------------------------------------------
(* The numbers limbs stand for.                                            *)

\* The number of the first n limbs of l, in base b.
Worth(l, n, b) == Total([j \in 0..(n - 1) |-> l[j] * NatPower(b, j)], n)

\* One limb more.
LEMMA WorthStep ==
    ASSUME NEW l, NEW n \in Nat, NEW b
    PROVE  Worth(l, 0, b) = 0 /\ Worth(l, n + 1, b) = Worth(l, n, b) + l[n] * NatPower(b, n)
  <1>. DEFINE f == [j \in 0..(n - 1) |-> l[j] * NatPower(b, j)]
              g == [j \in 0..((n + 1) - 1) |-> l[j] * NatPower(b, j)]
  <1>1. Worth(l, n + 1, b) = Total(g, n + 1) /\ Worth(l, n, b) = Total(f, n)
    BY DEF Worth
  <1>2. \A j \in 0..(n - 1) : g[j] = f[j]
    OBVIOUS
  <1>3. g[n] = l[n] * NatPower(b, n)
    OBVIOUS
  <1>. HIDE DEF f, g
  <1>4. Total(g, n + 1) = Total(g, n) + g[n]
    BY TotalStep
  <1>5. Total(g, n) = Total(f, n)
    BY <1>2, TotalSame
  <1>6. Worth(l, 0, b) = 0
    BY TotalStep DEF Worth
  <1>. QED
    BY <1>1, <1>3, <1>4, <1>5, <1>6

\* The terms of a number are integers.
LEMMA WorthTerms ==
    ASSUME NEW l, NEW n \in Nat, NEW b \in Nat \ {0}
    PROVE  /\ IsInts(l, n) => IsInts([j \in 0..(n - 1) |-> l[j] * NatPower(b, j)], n)
           /\ IsNats(l, n) => IsNats([j \in 0..(n - 1) |-> l[j] * NatPower(b, j)], n)
  <1>1. ASSUME NEW j \in 0..(n - 1), NEW v \in Int
        PROVE  v * NatPower(b, j) \in Int /\ (v \in Nat => v * NatPower(b, j) \in Nat)
    <2>1. NatPower(b, j) \in Nat
      BY PowerType
    <2>. QED
      BY <2>1
  <1>. QED
    BY <1>1 DEF IsInts, IsNats

\* Limbs that are natural numbers are worth a natural number.
LEMMA WorthType ==
    ASSUME NEW l, NEW n \in Nat, NEW b \in Nat \ {0}
    PROVE  /\ IsInts(l, n) => Worth(l, n, b) \in Int
           /\ IsNats(l, n) => Worth(l, n, b) \in Nat
  BY WorthTerms, TotalType DEF Worth

\* Only the limbs read matter.
LEMMA WorthSame ==
    ASSUME NEW n \in Nat, NEW l, NEW r, NEW b, \A j \in 0..(n - 1) : l[j] = r[j]
    PROVE  Worth(l, n, b) = Worth(r, n, b)
  <1>. DEFINE f == [j \in 0..(n - 1) |-> l[j] * NatPower(b, j)]
              g == [j \in 0..(n - 1) |-> r[j] * NatPower(b, j)]
  <1>1. \A j \in 0..(n - 1) : f[j] = g[j]
    OBVIOUS
  <1>. HIDE DEF f, g
  <1>2. Total(f, n) = Total(g, n)
    BY <1>1, TotalSame
  <1>. QED
    BY <1>2 DEF f, g, Worth

\* Zero limbs at the end are worth nothing.
LEMMA WorthPadded ==
    ASSUME NEW n \in Nat, NEW d \in Nat, n <= d, NEW b \in Nat \ {0}, NEW l, NEW r, IsInts(l, n),
           \A j \in 0..(n - 1) : r[j] = l[j], \A j \in n..(d - 1) : r[j] = 0
    PROVE  Worth(r, d, b) = Worth(l, n, b)
  <1>. DEFINE f == [j \in 0..(n - 1) |-> l[j] * NatPower(b, j)]
              g == [j \in 0..(d - 1) |-> r[j] * NatPower(b, j)]
  <1>1. \A j \in 0..(n - 1) : g[j] = f[j]
    OBVIOUS
  <1>2. ASSUME NEW j \in n..(d - 1) PROVE g[j] = 0
    <2>1. NatPower(b, j) \in Int /\ r[j] = 0 /\ j \in 0..(d - 1)
      BY PowerType
    <2>2. 0 * NatPower(b, j) = 0
      BY <2>1
    <2>. QED
      BY <2>1, <2>2
  <1>3. IsInts(f, n)
    BY WorthTerms
  <1>. HIDE DEF f, g
  <1>4. Total(g, d) = Total(f, n)
    BY <1>1, <1>2, <1>3, TotalPadded
  <1>. QED
    BY <1>4 DEF f, g, Worth

\* Limbwise sums are worth the sum.
LEMMA WorthAdd ==
    ASSUME NEW n \in Nat, NEW b \in Nat \ {0}, NEW l, NEW r, NEW s, IsInts(l, n), IsInts(r, n),
           \A j \in 0..(n - 1) : s[j] = l[j] + r[j]
    PROVE  Worth(s, n, b) = Worth(l, n, b) + Worth(r, n, b)
  <1>. DEFINE f == [j \in 0..(n - 1) |-> l[j] * NatPower(b, j)]
              g == [j \in 0..(n - 1) |-> r[j] * NatPower(b, j)]
              h == [j \in 0..(n - 1) |-> s[j] * NatPower(b, j)]
  <1>1. IsInts(f, n) /\ IsInts(g, n)
    BY WorthTerms
  <1>2. ASSUME NEW j \in 0..(n - 1) PROVE h[j] = f[j] + g[j]
    <2>. DEFINE q == NatPower(b, j)
    <2>1. q \in Int /\ l[j] \in Int /\ r[j] \in Int /\ s[j] = l[j] + r[j]
      BY PowerType DEF IsInts
    <2>2. h[j] = s[j] * q /\ f[j] = l[j] * q /\ g[j] = r[j] * q
      OBVIOUS
    <2>. HIDE DEF q, f, g, h
    <2>3. (l[j] + r[j]) * q = l[j] * q + r[j] * q
      BY <2>1
    <2>. QED
      BY <2>1, <2>2, <2>3
  <1>. HIDE DEF f, g, h
  <1>3. Total(h, n) = Total(f, n) + Total(g, n)
    BY <1>1, <1>2, TotalAdd
  <1>. QED
    BY <1>3 DEF f, g, h, Worth

\* Limbwise multiples are worth the multiple.
LEMMA WorthScale ==
    ASSUME NEW n \in Nat, NEW b \in Nat \ {0}, NEW c \in Int, NEW l, NEW s, IsInts(l, n),
           \A j \in 0..(n - 1) : s[j] = c * l[j]
    PROVE  Worth(s, n, b) = c * Worth(l, n, b)
  <1>. DEFINE f == [j \in 0..(n - 1) |-> l[j] * NatPower(b, j)]
              h == [j \in 0..(n - 1) |-> s[j] * NatPower(b, j)]
  <1>1. IsInts(f, n)
    BY WorthTerms
  <1>2. ASSUME NEW j \in 0..(n - 1) PROVE h[j] = c * f[j]
    <2>. DEFINE q == NatPower(b, j)
    <2>1. q \in Int /\ l[j] \in Int /\ s[j] = c * l[j]
      BY PowerType DEF IsInts
    <2>2. h[j] = s[j] * q /\ f[j] = l[j] * q
      OBVIOUS
    <2>. HIDE DEF q, f, h
    <2>3. (c * l[j]) * q = c * (l[j] * q)
      BY <2>1
    <2>. QED
      BY <2>1, <2>2, <2>3
  <1>. HIDE DEF f, h
  <1>3. Total(h, n) = c * Total(f, n)
    BY <1>1, <1>2, TotalScale
  <1>. QED
    BY <1>3 DEF f, h, Worth

\* r holds the n limbs of l from the d-th on.
IsPart(r, l, d, n) == \A j \in 0..(n - 1) : r[j] = l[d + j]

\* Limbs from the d-th on weigh as much as the limbs before them can.
LEMMA WorthSplit ==
    ASSUME NEW d \in Nat, NEW n \in Nat, NEW b \in Nat \ {0}, NEW l, NEW r,
           IsInts(l, d + n), IsPart(r, l, d, n)
    PROVE  Worth(l, d + n, b) = Worth(l, d, b) + NatPower(b, d) * Worth(r, n, b)
  <1>. DEFINE f == [j \in 0..((d + n) - 1) |-> l[j] * NatPower(b, j)]
              g == [j \in 0..(n - 1) |-> r[j] * NatPower(b, j)]
              h == [j \in 0..(n - 1) |-> f[d + j]]
              t == [j \in 0..(d - 1) |-> l[j] * NatPower(b, j)]
              q == NatPower(b, d)
  <1>. USE DEF IsPart
  <1>1. IsInts(f, d + n)
    <2>1. d + n \in Nat
      OBVIOUS
    <2>. QED
      BY <2>1, WorthTerms
  <1>2. IsInts(r, n)
    BY DEF IsInts
  <1>3. IsInts(g, n)
    BY <1>2, WorthTerms
  <1>4. q \in Int
    BY PowerType
  <1>5. ASSUME NEW j \in 0..(n - 1) PROVE h[j] = q * g[j]
    <2>1. d + j \in 0..((d + n) - 1) /\ j \in Nat
      OBVIOUS
    <2>2. f[d + j] = l[d + j] * NatPower(b, d + j) /\ NatPower(b, d + j) = q * NatPower(b, j)
      BY <2>1, PowerAdd
    <2>3. h[j] = r[j] * (q * NatPower(b, j)) /\ g[j] = r[j] * NatPower(b, j)
      BY <2>2
    <2>4. r[j] \in Int /\ NatPower(b, j) \in Int
      BY <1>2, <2>1, PowerType DEF IsInts
    <2>. HIDE DEF f, g, h, q
    <2>5. r[j] * (q * NatPower(b, j)) = q * (r[j] * NatPower(b, j))
      BY <1>4, <2>4
    <2>. QED
      BY <2>3, <2>5
  <1>6. \A j \in 0..(n - 1) : h[j] = f[d + j]
    OBVIOUS
  <1>7. \A j \in 0..(d - 1) : f[j] = t[j]
    OBVIOUS
  <1>. HIDE DEF f, g, h, t, q
  <1>8. Total(h, n) = q * Total(g, n)
    BY <1>3, <1>4, <1>5, TotalScale
  <1>9. Total(f, d + n) = Total(f, d) + Total(h, n)
    BY <1>1, <1>6, TotalSplit
  <1>10. Total(f, d) = Total(t, d)
    BY <1>7, TotalSame
  <1>. QED
    BY <1>8, <1>9, <1>10 DEF f, g, t, q, Worth

\* The lowest digit, and the rest.
LEMMA WorthHead ==
    ASSUME NEW n \in Nat, NEW b \in Nat \ {0}, NEW l, NEW r, IsInts(l, n + 1), IsPart(r, l, 1, n)
    PROVE  Worth(l, n + 1, b) = l[0] + b * Worth(r, n, b)
  <1>1. 1 + n = n + 1
    OBVIOUS
  <1>2. Worth(l, n + 1, b) = Worth(l, 1, b) + NatPower(b, 1) * Worth(r, n, b)
    BY <1>1, WorthSplit
  <1>3. NatPower(b, 0) = 1 /\ NatPower(b, 0 + 1) = NatPower(b, 0) * b
    BY PowerStep
  <1>4. Worth(l, 0, b) = 0 /\ Worth(l, 0 + 1, b) = Worth(l, 0, b) + l[0] * NatPower(b, 0)
    BY WorthStep
  <1>5. l[0] \in Int
    BY DEF IsInts
  <1>. QED
    BY <1>2, <1>3, <1>4, <1>5

\* r holds the numbers of the first n groups of g limbs of l.
AreGroups(r, l, g, n, b) == \A k \in 0..(n - 1) : r[k] = Worth([j \in 0..(g - 1) |-> l[g * k + j]], g, b)

\* Whole groups of g limbs are the digits of the same number in base b^g.
LEMMA WorthGrouped ==
    ASSUME NEW g \in Nat \ {0}, NEW n \in Nat, NEW b \in Nat \ {0}, NEW l, NEW r, IsInts(l, g * n),
           AreGroups(r, l, g, n, b)
    PROVE  Worth(l, g * n, b) = Worth(r, n, NatPower(b, g))
  <1>. DEFINE q == NatPower(b, g)
              T == {k \in Nat : k <= n => Worth(l, g * k, b) = Worth(r, k, q)}
  <1>1. 0 \in T
    <2>1. g * 0 = 0
      OBVIOUS
    <2>. QED
      BY <2>1, WorthStep
  <1>2. ASSUME NEW k \in Nat, k \in T PROVE k + 1 \in T
    <2>. SUFFICES ASSUME k + 1 <= n PROVE Worth(l, g * (k + 1), b) = Worth(r, k + 1, q)
      OBVIOUS
    <2>. DEFINE s == [j \in 0..(g - 1) |-> l[g * k + j]]
    <2>1. g * k \in Nat /\ g * (k + 1) = g * k + g /\ g * k + g <= g * n
      <3>1. g * (k + 1) <= g * n
        OBVIOUS
      <3>. QED
        BY <3>1
    <2>2. IsInts(l, g * k + g)
      BY <2>1 DEF IsInts
    <2>3. IsPart(s, l, g * k, g)
      BY DEF IsPart
    <2>4. r[k] = Worth(s, g, b)
      BY DEF AreGroups
    <2>5. IsInts(s, g)
      BY <2>1 DEF IsInts
    <2>. HIDE DEF s
    <2>6. Worth(l, g * k + g, b) = Worth(l, g * k, b) + NatPower(b, g * k) * Worth(s, g, b)
      BY <2>1, <2>2, <2>3, WorthSplit
    <2>7. NatPower(q, k) = NatPower(b, g * k)
      BY PowerMultiply
    <2>8. Worth(r, k + 1, q) = Worth(r, k, q) + r[k] * NatPower(q, k)
      BY WorthStep
    <2>9. Worth(l, g * k, b) = Worth(r, k, q)
      BY <1>2
    <2>10. Worth(s, g, b) \in Int /\ NatPower(b, g * k) \in Int
      BY <2>1, <2>5, WorthType, PowerType
    <2>. HIDE DEF q
    <2>11. NatPower(b, g * k) * Worth(s, g, b) = Worth(s, g, b) * NatPower(b, g * k)
      BY <2>10
    <2>. QED
      BY <2>1, <2>4, <2>6, <2>7, <2>8, <2>9, <2>11
  <1>3. Nat \subseteq T
    <2>. HIDE DEF T
    <2>. QED
      BY <1>1, <1>2, Induct
  <1>. QED
    BY <1>3 DEF T

\* Digits below the base make a number below the power of the base, and
\* limbs of at most c a number of at most c times a row of ones.
LEMMA WorthBelow ==
    ASSUME NEW n \in Nat, NEW b \in Nat \ {0}, NEW l, IsNats(l, n), \A j \in 0..(n - 1) : l[j] < b
    PROVE  Worth(l, n, b) < NatPower(b, n)
  <1>. DEFINE T == {k \in Nat : k <= n => Worth(l, k, b) < NatPower(b, k)}
  <1>1. 0 \in T
    <2>1. Worth(l, 0, b) = 0 /\ NatPower(b, 0) = 1
      BY WorthStep, PowerStep
    <2>. QED
      BY <2>1
  <1>2. ASSUME NEW k \in Nat, k \in T PROVE k + 1 \in T
    <2>. SUFFICES ASSUME k + 1 <= n PROVE Worth(l, k + 1, b) < NatPower(b, k + 1)
      OBVIOUS
    <2>. DEFINE w == Worth(l, k, b)  q == NatPower(b, k)  v == l[k]
    <2>1. IsNats(l, k) /\ v \in Nat /\ v < b
      BY DEF IsNats
    <2>2. w \in Nat /\ q \in Nat /\ w < q
      BY <1>2, <2>1, WorthType, PowerType
    <2>3. Worth(l, k + 1, b) = w + v * q /\ NatPower(b, k + 1) = q * b
      BY WorthStep, PowerStep
    <2>. HIDE DEF w, q, v
    <2>4. (v + 1) * q <= b * q /\ (v + 1) * q = v * q + q /\ b * q = q * b
      BY <2>1, <2>2
    <2>. QED
      BY <2>1, <2>2, <2>3, <2>4
  <1>3. Nat \subseteq T
    <2>. HIDE DEF T
    <2>. QED
      BY <1>1, <1>2, Induct
  <1>. QED
    BY <1>3 DEF T

\* Limbs up to c are worth at most c times the number whose limbs are all ones.
LEMMA WorthAtMost ==
    ASSUME NEW n \in Nat, NEW d \in Nat, n <= d, NEW c \in Nat, NEW l, IsNats(l, n),
           \A j \in 0..(n - 1) : l[j] <= c, NEW b \in Nat \ {0}
    PROVE  Worth(l, n, b) <= Total([j \in 0..(d - 1) |-> NatPower(b, j)], d) * c
  <1>. DEFINE f == [j \in 0..(d - 1) |-> NatPower(b, j)]
              g == [j \in 0..(d - 1) |-> c * f[j]]
              h == [j \in 0..(d - 1) |-> IF j < n THEN l[j] * NatPower(b, j) ELSE 0]
              t == [j \in 0..(n - 1) |-> l[j] * NatPower(b, j)]
  <1>1. IsInts(t, n) /\ (\A j \in 0..(n - 1) : h[j] = t[j]) /\ (\A j \in n..(d - 1) : h[j] = 0)
    <2>1. IsInts(l, n)
      BY DEF IsInts, IsNats
    <2>2. IsInts(t, n)
      BY <2>1, WorthTerms
    <2>3. \A j \in 0..(n - 1) : h[j] = t[j]
      OBVIOUS
    <2>4. \A j \in n..(d - 1) : h[j] = 0
      OBVIOUS
    <2>. QED
      BY <2>2, <2>3, <2>4
  <1>2. ASSUME NEW j \in 0..(d - 1)
        PROVE  f[j] \in Int /\ g[j] \in Int /\ g[j] = c * f[j] /\ h[j] \in Int /\ h[j] <= g[j]
    <2>. DEFINE q == NatPower(b, j)
    <2>1. q \in Nat /\ f[j] = q /\ g[j] = c * q
      BY PowerType
    <2>2. j < n => l[j] \in Nat /\ l[j] <= c /\ h[j] = l[j] * q
      BY DEF IsNats
    <2>3. ~(j < n) => h[j] = 0
      OBVIOUS
    <2>. HIDE DEF q, f, g, h
    <2>4. c * q \in Nat
      BY <2>1
    <2>5. j < n => l[j] * q \in Nat /\ l[j] * q <= c * q
      BY <2>1, <2>2
    <2>. QED
      BY <2>1, <2>2, <2>3, <2>4, <2>5
  <1>. HIDE DEF f, g, h, t
  <1>3. Total(h, d) = Total(t, n)
    BY <1>1, TotalPadded
  <1>4. IsInts(f, d) /\ IsInts(g, d) /\ IsInts(h, d)
    BY <1>2 DEF IsInts
  <1>5. Total(g, d) = c * Total(f, d) /\ Total(f, d) \in Int
    BY <1>2, <1>4, TotalScale, TotalType
  <1>6. Total(h, d) <= Total(g, d)
    BY <1>2, <1>4, TotalAtMost
  <1>7. c * Total(f, d) = Total(f, d) * c
    BY <1>5
  <1>. QED
    BY <1>3, <1>5, <1>6, <1>7 DEF f, t, Worth

-----------------------------------------------------------------------------
(* Limbs, and groups of limbs.                                             *)

\* The base and the limbs are what they look like.
LEMMA BaseType == Base \in Nat \ {0, 1} /\ MaxWord \in Nat \ {0} /\ Limb = 0..MaxWord
  <1>1. LimbWidth \in Nat /\ 1 <= LimbWidth
    BY LimbAssumption
  <1>2. NatPower(2, 0 + 1) = NatPower(2, 0) * 2 /\ NatPower(2, 0) = 1
    BY PowerStep
  <1>3. NatPower(2, 1) <= NatPower(2, LimbWidth) /\ NatPower(2, LimbWidth) \in Nat
    BY <1>1, PowerGrows, PowerType
  <1>4. Base \in Nat /\ 2 <= Base
    BY <1>2, <1>3 DEF Base
  <1>. QED
    BY <1>4 DEF MaxWord, Limb

\* The length of a vector indexed from 0.
LEMMA SizeOf == ASSUME NEW n \in Nat, NEW l, DOMAIN l = 0..(n - 1) PROVE Size(l) = n
  <1>1. Cardinality(0..(n - 1)) = n
    BY FS_Interval
  <1>. QED
    BY <1>1 DEF Size

\* LimbsToNat is Worth in the base of the limbs.
LEMMA LimbsWorth ==
    ASSUME NEW n \in Nat, NEW l, DOMAIN l = 0..(n - 1)
    PROVE  LimbsToNat(l) = Worth(l, n, Base)
  BY SizeOf DEF LimbsToNat, Worth

\* How many groups there are: the last one is not empty.
GroupCount(n, g) == (n + g - 1) \div g

\* The groups hold every limb, and none is empty.
LEMMA GroupsCover ==
    ASSUME NEW n \in Nat \ {0}, NEW g \in Nat \ {0}
    PROVE  /\ GroupCount(n, g) \in Nat \ {0}
           /\ n <= g * GroupCount(n, g) /\ g * GroupCount(n, g) \in Nat
           /\ \A k \in 0..(GroupCount(n, g) - 1) : g * k \in Nat /\ g * k < n
  <1>. DEFINE c == GroupCount(n, g)
  <1>1. c \in Nat /\ (n + g - 1) % g \in 0..(g - 1) /\ n + g - 1 = g * c + ((n + g - 1) % g)
    <2>1. n + g - 1 \in Nat
      OBVIOUS
    <2>. QED
      BY <2>1, DivMod DEF GroupCount
  <1>. HIDE DEF c
  <1>2. g * c \in Nat /\ n + g - 1 < g * c + g /\ g * c <= n + g - 1
    BY <1>1
  <1>3. c # 0
    BY <1>1, <1>2
  <1>4. ASSUME NEW k \in 0..(c - 1) PROVE g * k \in Nat /\ g * k < n
    <2>1. g * (k + 1) <= g * c /\ g * (k + 1) = g * k + g /\ g * k \in Nat
      BY <1>1
    <2>. QED
      BY <1>2, <2>1
  <1>. QED
    BY <1>1, <1>2, <1>3, <1>4 DEF c

\* n limbs of at most c.
AreLimbs(l, n, c) == DOMAIN l = 0..(n - 1) /\ \A j \in 0..(n - 1) : l[j] \in 0..c

\* Limbs up to a bound are natural numbers.
LEMMA AreLimbsNats ==
    ASSUME NEW l, NEW n \in Nat, NEW c \in Nat, AreLimbs(l, n, c)
    PROVE  /\ DOMAIN l = 0..(n - 1) /\ IsNats(l, n) /\ IsInts(l, n)
           /\ \A j \in 0..(n - 1) : l[j] <= c
  BY DEF AreLimbs, IsNats, IsInts

\* Groups whose numbers stay below the order of the field are digits of the
\* same number, in a larger base.
LEMMA GroupsWorth ==
    ASSUME NEW n \in Nat \ {0}, NEW g \in Nat \ {0}, NEW c \in Nat, NEW l, AreLimbs(l, n, c),
           Repunit(g) * c < P
    PROVE  /\ AreLimbs(GroupLimbs(l, g), GroupCount(n, g), Repunit(g) * c)
           /\ Worth(GroupLimbs(l, g), GroupCount(n, g), NatPower(Base, g)) = Worth(l, n, Base)
  <1>. DEFINE e == GroupCount(n, g)
              s == [j \in 0..(g * e - 1) |-> IF j < n THEN l[j] ELSE 0]
              r == GroupLimbs(l, g)
  <1>1. e \in Nat \ {0} /\ n <= g * e /\ g * e \in Nat /\ \A k \in 0..(e - 1) : g * k \in Nat /\ g * k < n
    BY GroupsCover
  <1>2. IsNats(l, n) /\ IsInts(l, n) /\ DOMAIN l = 0..(n - 1) /\ Size(l) = n
        /\ \A j \in 0..(n - 1) : l[j] <= c
    BY AreLimbsNats, SizeOf
  <1>3. DOMAIN r = 0..(e - 1)
    BY <1>2 DEF GroupLimbs, GroupCount
  <1>4. Base \in Nat \ {0}
    BY BaseType
  <1>5. IsInts(s, g * e) /\ Worth(s, g * e, Base) = Worth(l, n, Base)
    <2>1. (\A j \in 0..(n - 1) : s[j] = l[j]) /\ (\A j \in n..(g * e - 1) : s[j] = 0)
      BY <1>1
    <2>2. IsInts(s, g * e)
      BY <1>2 DEF IsInts
    <2>. HIDE DEF s, e
    <2>. QED
      BY <1>1, <1>2, <1>4, <2>1, <2>2, WorthPadded
  <1>6. ASSUME NEW k \in 0..(e - 1)
        PROVE  /\ r[k] = Worth([j \in 0..(g - 1) |-> s[g * k + j]], g, Base)
               /\ r[k] \in 0..(Repunit(g) * c)
    <2>. DEFINE z == Smaller(g, n - g * k)  t == Chunk(l, g, k)
                u == [j \in 0..(g - 1) |-> s[g * k + j]]
    <2>1. z \in Nat /\ z <= g /\ g * k + z <= n /\ g * k \in Nat /\ (z < g => g * k + z = n)
      BY <1>1 DEF Smaller
    <2>2. DOMAIN t = 0..(z - 1) /\ \A j \in 0..(z - 1) : t[j] = l[g * k + j]
      <3>1. Chunk(l, g, k) = [j \in 0..(Smaller(g, n - g * k) - 1) |-> l[g * k + j]]
        BY <1>2 DEF Chunk
      <3>. HIDE DEF z
      <3>2. t = [j \in 0..(z - 1) |-> l[g * k + j]]
        BY <3>1 DEF z
      <3>. HIDE DEF t
      <3>. QED
        BY <3>2
    <2>3. \A j \in 0..(z - 1) : t[j] \in Nat /\ t[j] <= c
      <3>. HIDE DEF z, t
      <3>1. ASSUME NEW j \in 0..(z - 1) PROVE g * k + j \in 0..(n - 1)
        BY <2>1
      <3>. QED
        BY <1>2, <2>2, <3>1 DEF IsNats
    <2>4. \A j \in 0..(z - 1) : u[j] = t[j]
      <3>1. ASSUME NEW j \in 0..(z - 1) PROVE g * k + j < n /\ g * k + j \in 0..(g * e - 1) /\ j \in 0..(g - 1)
        BY <1>1, <2>1
      <3>. QED
        BY <2>2, <3>1
    <2>5. \A j \in z..(g - 1) : u[j] = 0
      <3>1. ASSUME NEW j \in z..(g - 1)
            PROVE ~(g * k + j < n) /\ g * k + j \in 0..(g * e - 1) /\ j \in 0..(g - 1)
        <4>1. g * (k + 1) <= g * e /\ g * (k + 1) = g * k + g
          BY <1>1
        <4>. QED
          BY <1>1, <2>1, <4>1
      <3>. QED
        BY <3>1
    <2>. HIDE DEF z, t, u, s, e
    <2>6. IsNats(t, z) /\ IsInts(t, z)
      BY <2>3 DEF IsNats, IsInts
    <2>7. Worth(u, g, Base) = Worth(t, z, Base)
      BY <1>4, <2>1, <2>4, <2>5, <2>6, WorthPadded
    <2>8. LimbsToNat(t) = Worth(t, z, Base)
      BY <2>1, <2>2, LimbsWorth
    <2>9. Worth(t, z, Base) \in Nat
      BY <1>4, <2>1, <2>6, WorthType
    <2>10. Worth(t, z, Base) <= Repunit(g) * c
      BY <1>4, <2>1, <2>3, <2>6, WorthAtMost DEF Repunit
    <2>11. r[k] = LimbsToNat(t) % P
      BY <1>2 DEF GroupLimbs, GroupCount, e, t
    <2>12. P \in Nat \ {0}
      BY PrimeAssumption
    <2>13. Repunit(g) \in Nat
      <3>1. \A j \in 0..(g - 1) : NatPower(Base, j) \in Nat
        BY <1>4, PowerType
      <3>2. IsNats([j \in 0..(g - 1) |-> NatPower(Base, j)], g)
        BY <3>1 DEF IsNats
      <3>. QED
        BY <3>2, TotalType DEF Repunit
    <2>14. Repunit(g) * c \in Nat
      BY <2>13
    <2>15. Worth(t, z, Base) < P
      BY <2>9, <2>10, <2>12, <2>14
    <2>16. r[k] = Worth(t, z, Base)
      BY <2>8, <2>9, <2>11, <2>12, <2>15, ModSelf
    <2>17. r[k] = Worth(u, g, Base) /\ r[k] \in 0..(Repunit(g) * c)
      BY <2>7, <2>9, <2>10, <2>14, <2>16
    <2>. QED
      BY <2>17 DEF u
  <1>7. AreLimbs(r, e, Repunit(g) * c)
    BY <1>3, <1>6 DEF AreLimbs
  <1>8. Worth(s, g * e, Base) = Worth(r, e, NatPower(Base, g))
    <2>. HIDE DEF r, e
    <2>1. AreGroups(r, s, g, e, Base)
      BY <1>6 DEF AreGroups
    <2>. HIDE DEF s
    <2>. QED
      BY <1>1, <1>4, <1>5, <2>1, WorthGrouped
  <1>. QED
    BY <1>5, <1>7, <1>8

-----------------------------------------------------------------------------
(* The loops' invariant.                                                   *)

(* The borrow chain: what has been compared differs by the differences      *)
(* allocated so far, less the borrow at the place reached.                  *)
BorrowInv ==
    /\ borrow \in {0, 1} /\ nonzero \in BOOLEAN /\ sumDiff \in Nat
    /\ sumRight - sumLeft = sumDiff - borrow * place
    /\ nonzero => sumDiff > 0

(* The carry chain: what has been compared differs by the carry, less the   *)
(* constant that keeps carries from being negative, at the place reached.   *)
CarryInv ==
    /\ carry \in 0..(P - 1) /\ extra \in 0..check.offset
    /\ i < Length => carry < check.cap
    /\ i = Length => carry = extra
    /\ sumLeft - sumRight = (carry - extra) * place

ChainInv ==
    IsLegal(check) =>
        /\ Length \in Nat /\ i \in 0..Length
        /\ place \in Nat \ {0} /\ sumLeft \in Nat /\ sumRight \in Nat
        /\ IF check.kind = "less" THEN BorrowInv ELSE CarryInv

\* The limbs of a legal check are indexed from 0 to its length.
LEMMA LegalDomain ==
    ASSUME NEW c, IsLegal(c)
    PROVE  /\ Size(c.left) \in Nat
           /\ DOMAIN c.left = 0..(Size(c.left) - 1) /\ DOMAIN c.right = 0..(Size(c.left) - 1)
  BY DEF IsLegal

\* A loop that has not begun satisfies its invariant.
LEMMA StartInv == ASSUME NEW c, Start(c) PROVE ChainInv
  <1> SUFFICES ASSUME IsLegal(check) PROVE
        /\ Length \in Nat /\ i \in 0..Length
        /\ place \in Nat \ {0} /\ sumLeft \in Nat /\ sumRight \in Nat
        /\ IF check.kind = "less" THEN BorrowInv ELSE CarryInv
    BY DEF ChainInv
  <1>1. Length \in Nat
    BY LegalDomain DEF Length
  <1>2. P \in Nat \ {0, 1} /\ check.offset \in Nat /\ check.cap \in Nat \ {0}
    BY PrimeAssumption DEF IsLegal
  <1>3. nonzero = FALSE
    BY Zenon DEF Start
  <1>4. /\ i = 0 /\ place = 1 /\ sumLeft = 0 /\ sumRight = 0 /\ sumDiff = 0
        /\ carry = 0 /\ extra = 0 /\ borrow = 0
    BY DEF Start
  <1>5. BorrowInv
    <2>1. sumRight - sumLeft = sumDiff - borrow * place
      BY <1>4
    <2> QED
      BY <1>3, <1>4, <2>1 DEF BorrowInv
  <1>6. CarryInv
    <2>1. sumLeft - sumRight = (carry - extra) * place
      BY <1>4
    <2> QED
      BY <1>1, <1>2, <1>4, <2>1 DEF CarryInv
  <1> QED
    BY <1>1, <1>4, <1>5, <1>6

\* The same after a loop was left for another check.
LEMMA RestartInv == ASSUME NEW c, Restart(c) PROVE ChainInv'
  <1> SUFFICES ASSUME IsLegal(check') PROVE
        /\ Length' \in Nat /\ i' \in 0..Length'
        /\ place' \in Nat \ {0} /\ sumLeft' \in Nat /\ sumRight' \in Nat
        /\ IF check'.kind = "less" THEN BorrowInv' ELSE CarryInv'
    BY DEF ChainInv
  <1>1. Length' \in Nat
    BY LegalDomain DEF Length
  <1>2. P \in Nat \ {0, 1} /\ check'.offset \in Nat /\ check'.cap \in Nat \ {0}
    BY PrimeAssumption DEF IsLegal
  <1>3. nonzero' = FALSE
    BY Zenon DEF Restart
  <1>4. /\ i' = 0 /\ place' = 1 /\ sumLeft' = 0 /\ sumRight' = 0 /\ sumDiff' = 0
        /\ carry' = 0 /\ extra' = 0 /\ borrow' = 0
    BY DEF Restart
  <1>5. BorrowInv'
    <2>1. sumRight' - sumLeft' = sumDiff' - borrow' * place'
      BY <1>4
    <2> QED
      BY <1>3, <1>4, <2>1 DEF BorrowInv
  <1>6. CarryInv'
    <2>1. sumLeft' - sumRight' = (carry' - extra') * place'
      BY <1>4
    <2> QED
      BY <1>1, <1>2, <1>4, <2>1 DEF CarryInv
  <1> QED
    BY <1>1, <1>4, <1>5, <1>6

\* One iteration of the borrow chain keeps the invariant: nothing it adds up
\* reaches the order of the field, so the constraint holds over the integers.
LEMMA BorrowStepInv == ChainInv /\ BorrowStep => ChainInv'
  <1> SUFFICES ASSUME ChainInv, BorrowStep, IsLegal(check) PROVE ChainInv'
    BY DEF ChainInv, BorrowStep
  <1> DEFINE l == check.left[i]  r == check.right[i]
  <1>1. /\ Length \in Nat /\ i \in 0..Length /\ i < Length
        /\ place \in Nat \ {0} /\ sumLeft \in Nat /\ sumRight \in Nat
        /\ BorrowInv
    BY DEF ChainInv, BorrowStep
  <1>2. P \in Nat \ {0} /\ check.base \in Nat \ {0, 1} /\ 2 * check.base < P
    BY PrimeAssumption DEF IsLegal, BorrowStep
  <1>3. i \in DOMAIN check.left
    BY <1>1, LegalDomain DEF Length
  <1>4. l \in Nat /\ r \in Nat /\ l < check.base /\ r < check.base
    BY <1>3 DEF IsLegal, BorrowStep
  <1>5. PICK diff \in 0..(check.base - 1), out \in {0, 1} :
            /\ BorrowEq(diff, out)
            /\ borrow' = out
            /\ nonzero' = (nonzero \/ diff # 0)
            /\ sumDiff' = sumDiff + diff * place
    BY DEF BorrowStep
  <1>6. (r - l - borrow + out * check.base) - diff = 0
    <2> DEFINE z == (r - l - borrow + out * check.base) - diff
    <2>1. z % P = 0
      BY <1>5 DEF BorrowEq, FieldEq
    <2>2. out * check.base \in {0, check.base}
      BY <1>2
    <2>3. z \in Int /\ -P < z /\ z < P
      <3>1. borrow \in {0, 1} /\ diff \in Int /\ 0 <= diff /\ diff < check.base
        BY <1>1, <1>2 DEF BorrowInv
      <3> DEFINE ob == out * check.base
      <3>2. ob \in {0, check.base}
        BY <2>2
      <3>3. z = (r - l - borrow + ob) - diff
        BY Zenon
      <3> DEFINE b == check.base
      <3>4. /\ l \in 0..(b - 1) /\ r \in 0..(b - 1) /\ diff \in 0..(b - 1) /\ b \in Int
            /\ 2 * b < P /\ P \in Int /\ (ob = 0 \/ ob = b) /\ (borrow = 0 \/ borrow = 1)
        BY <3>1, <3>2, <1>2, <1>4
      <3> HIDE DEF l, r, ob, z, b
      <3> QED
        BY ONLY <3>3, <3>4
    <2> QED
      BY <1>2, <2>1, <2>3, SmallMultiple
  <1>7. /\ i' = i + 1 /\ check' = check /\ place' = place * check.base
        /\ sumLeft' = sumLeft + l * place /\ sumRight' = sumRight + r * place
    BY DEF BorrowStep
  <1>8. sumRight' - sumLeft' = sumDiff' - borrow' * place'
    <2>1. sumRight - sumLeft = sumDiff - borrow * place /\ sumDiff \in Nat /\ borrow \in Int
      BY <1>1 DEF BorrowInv
    <2>2. out \in Int /\ diff \in Int
      BY <1>2
    <2>3. (sumRight + r * place) - (sumLeft + l * place) = (sumDiff + diff * place) - out * (place * check.base)
      <3> DEFINE b == check.base
      <3>1. /\ sumLeft \in Int /\ sumRight \in Int /\ sumDiff \in Int /\ place \in Int
            /\ l \in Int /\ r \in Int /\ b \in Int /\ borrow \in Int /\ out \in Int /\ diff \in Int
        BY <1>1, <1>2, <1>4, <2>1, <2>2
      <3>2. sumRight - sumLeft = sumDiff - borrow * place
        BY <2>1
      <3>3. (r - l - borrow + out * b) - diff = 0
        BY <1>6
      <3> HIDE DEF l, r, b
      <3>4. r = l + borrow - out * b + diff
        BY ONLY <3>1, <3>3
      <3>5. r * place = l * place + borrow * place - out * (place * b) + diff * place
        BY ONLY <3>1, <3>4
      <3>6. (sumRight + r * place) - (sumLeft + l * place) = (sumDiff + diff * place) - out * (place * b)
        BY ONLY <3>1, <3>2, <3>5
      <3> QED
        BY <3>6 DEF b
    <2> QED
      BY <1>5, <1>7, <2>3
  <1>9. place' \in Nat \ {0} /\ sumLeft' \in Nat /\ sumRight' \in Nat /\ sumDiff' \in Nat
    BY <1>1, <1>2, <1>4, <1>5, <1>7 DEF BorrowInv
  <1>10. nonzero' => sumDiff' > 0
    <2>1. diff * place \in Nat /\ (diff # 0 => diff * place > 0)
      <3>1. diff \in Nat /\ place \in Nat \ {0}
        BY <1>1, <1>2
      <3> HIDE DEF l, r
      <3> QED
        BY ONLY <3>1, ProductGrows
    <2> QED
      BY <1>1, <1>5, <2>1 DEF BorrowInv
  <1>11. Length' = Length /\ check'.kind = "less"
    BY <1>7 DEF Length, BorrowStep
  <1>12. nonzero' \in BOOLEAN
    BY <1>1, <1>5, Zenon DEF BorrowInv
  <1>13. BorrowInv'
    BY <1>5, <1>8, <1>9, <1>10, <1>12 DEF BorrowInv
  <1> QED
    BY <1>1, <1>7, <1>9, <1>11, <1>13 DEF ChainInv

\* One iteration of the carry chain.
LEMMA CarryStepInv == ChainInv /\ CarryStep => ChainInv'
  <1> SUFFICES ASSUME ChainInv, CarryStep, IsLegal(check) PROVE ChainInv'
    BY DEF ChainInv, CarryStep
  <1> DEFINE l == check.left[i]  r == check.right[i]  rem == Accumulated % check.base
  <1>1. /\ Length \in Nat /\ i \in 0..Length /\ i < Length
        /\ place \in Nat \ {0} /\ sumLeft \in Nat /\ sumRight \in Nat
        /\ CarryInv /\ check.kind = "equal"
    BY DEF ChainInv, CarryStep
  <1>2. /\ P \in Nat \ {0, 1} /\ check.base \in Nat \ {0, 1}
        /\ check.offset \in Nat /\ check.cap \in Nat \ {0}
    BY PrimeAssumption DEF IsLegal
  <1>3. i \in DOMAIN check.left
    BY <1>1, LegalDomain DEF Length
  <1>4. l \in Nat /\ r \in Nat
    BY <1>3 DEF IsLegal
  <1>5. /\ l + check.cap + check.offset < P
        /\ check.cap * check.base + r <= P
        /\ 2 * check.offset + r < P
    BY <1>1, <1>3 DEF IsLegal
  <1>6. PICK out \in 0..(P - 1) : CarryEq(out) /\ CarryOk(out) /\ carry' = out
    BY DEF CarryStep
  <1>7. /\ carry \in Nat /\ carry < check.cap /\ extra \in 0..check.offset
        /\ sumLeft - sumRight = (carry - extra) * place
    BY <1>1 DEF CarryInv
  <1>8. /\ NextExtra \in Nat /\ rem \in 0..(check.base - 1)
        /\ extra + check.offset = check.base * NextExtra + rem
    <2>1. extra + check.offset \in Nat /\ check.base \in Nat \ {0}
      BY <1>2, <1>7
    <2> QED
      BY <2>1, DivMod DEF NextExtra, Accumulated
  <1>9. NextExtra <= check.offset
    <2>1. 2 * NextExtra <= check.base * NextExtra
      <3> DEFINE b == check.base  next == NextExtra
      <3>1. b \in Nat /\ b # 0 /\ b # 1 /\ next \in Nat
        BY <1>2, <1>8
      <3> HIDE DEF b, next
      <3>2. 2 * next <= b * next
        BY ONLY <3>1
      <3> QED
        BY <3>2 DEF b, next
    <2>2. check.base * NextExtra \in Nat /\ check.base * NextExtra <= 2 * check.offset
      BY <1>2, <1>7, <1>8
    <2> QED
      BY <1>2, <1>8, <2>1, <2>2
  <1>10. i + 1 = Length => out = NextExtra
    <2>1. NextExtra < P
      BY <1>2, <1>4, <1>5, <1>8, <1>9
    <2>2. NextExtra % P = NextExtra
      BY <1>2, <1>8, <2>1, ModSelf
    <2>3. i + 1 = Length => out = NextExtra % P
      BY <1>1, <1>6 DEF CarryOk
    <2> QED
      BY <2>2, <2>3
  <1>11. i + 1 < Length => out < check.cap
    BY <1>6 DEF CarryOk
  <1>12. out * check.base + rem + r < P /\ out * check.base \in Nat
    <2>1. CASE i + 1 < Length
      <3>1. out * check.base + check.base <= check.cap * check.base
        <4>1. out + 1 <= check.cap
          BY <2>1, <1>2, <1>11
        <4>2. (out + 1) * check.base <= check.cap * check.base
          BY <4>1, <1>2
        <4> QED
          BY <4>2, <1>2
      <3>2. out * check.base \in Nat
        BY <1>2
      <3>3. check.cap * check.base \in Nat
        BY <1>2
      <3> QED
        BY <3>1, <3>2, <3>3, <1>2, <1>4, <1>5, <1>8
    <2>2. CASE i + 1 = Length
      <3>1. out * check.base = check.base * NextExtra
        BY <2>2, <1>2, <1>8, <1>10
      <3>2. check.base * NextExtra \in Nat
        BY <1>2, <1>8
      <3> QED
        BY <3>1, <3>2, <1>2, <1>4, <1>5, <1>7, <1>8
    <2> QED
      BY <1>1, <2>1, <2>2
  <1>13. (l + carry - r + check.offset) - (out * check.base + rem) = 0
    <2> DEFINE z == (l + carry - r + check.offset) - (out * check.base + rem)
    <2>1. z % P = 0
      BY <1>6 DEF CarryEq, FieldEq
    <2>2. z \in Int /\ -P < z /\ z < P
      BY <1>2, <1>4, <1>5, <1>7, <1>8, <1>12
    <2> QED
      BY <1>2, <2>1, <2>2, SmallMultiple
  <1>14. /\ i' = i + 1 /\ check' = check /\ place' = place * check.base /\ extra' = NextExtra
         /\ sumLeft' = sumLeft + l * place /\ sumRight' = sumRight + r * place
    BY DEF CarryStep
  <1>15. sumLeft' - sumRight' = (carry' - extra') * place'
    <2>1. (sumLeft + l * place) - (sumRight + r * place) = (out - NextExtra) * (place * check.base)
      <3>1. /\ sumLeft \in Int /\ sumRight \in Int /\ place \in Int /\ l \in Int /\ r \in Int
            /\ check.offset \in Int /\ rem \in Int /\ carry \in Int /\ out \in Int
            /\ extra \in Int /\ NextExtra \in Int /\ check.base \in Int
        BY <1>1, <1>2, <1>4, <1>7, <1>8
      <3> DEFINE b == check.base  off == check.offset  next == NextExtra
      <3>2. /\ sumLeft - sumRight = (carry - extra) * place
            /\ extra + off = b * next + rem
            /\ (l + carry - r + off) - (out * b + rem) = 0
            /\ b \in Int /\ off \in Int /\ next \in Int
        BY <3>1, <1>7, <1>8, <1>13
      <3> HIDE DEF l, r, rem, b, off, next
      <3>3. l - r = out * b - b * next + extra - carry
        BY ONLY <3>1, <3>2
      <3>4. (l - r) * place = (out - next) * (place * b) - (carry - extra) * place
        BY ONLY <3>1, <3>2, <3>3
      <3>5. (sumLeft + l * place) - (sumRight + r * place) = (out - next) * (place * b)
        BY ONLY <3>1, <3>2, <3>4
      <3> QED
        BY <3>5 DEF b, next
    <2> QED
      BY <1>6, <1>14, <2>1
  <1>16. place' \in Nat \ {0} /\ sumLeft' \in Nat /\ sumRight' \in Nat
    BY <1>1, <1>2, <1>4, <1>14
  <1>17. Length' = Length /\ check'.kind = "equal"
    BY <1>1, <1>14 DEF Length
  <1>18. CarryInv'
    BY <1>1, <1>2, <1>6, <1>8, <1>9, <1>10, <1>11, <1>14, <1>15, <1>17 DEF CarryInv
  <1> QED
    BY <1>1, <1>14, <1>16, <1>17, <1>18 DEF ChainInv

\* Every step of an operation keeps the loops' invariant.
LEMMA ChainInvNext == ChainInv /\ [Next]_vars => ChainInv'
  <1> SUFFICES ASSUME ChainInv, [Next]_vars PROVE ChainInv'
    OBVIOUS
  <1>1. CASE UNCHANGED <<check, registers, history>>
    BY <1>1 DEF ChainInv, BorrowInv, CarryInv, registers, history, Length
  <1>2. CASE \E c : Restart(c)
    BY <1>2, RestartInv
  <1>3. CASE Allocate
    BY <1>3, <1>1, <1>2 DEF Allocate, Abandon, Add, Sub, Reduce, Mult, MultModChecked,
       MultModUnchecked, SquareMod, PowMod, OpenSignature, Remainder, Enforce, Ready
  <1>4. CASE Loop
    BY <1>4, <1>1, BorrowStepInv, CarryStepInv DEF Loop, ChainStep, Refuse
  <1>5. CASE NextCheck \/ Quotient \/ Satisfied
    BY <1>5, <1>1, <1>2 DEF NextCheck, Quotient, Satisfied
  <1>6. CASE UNCHANGED vars
    BY <1>6, <1>1 DEF vars, chainVars
  <1> QED
    BY <1>3, <1>4, <1>5, <1>6 DEF Next

\* A loop that ends with its constraints satisfied.
LEMMA InvCompares == ChainInv => ChainsCompareNumbers
  <1> SUFFICES ASSUME ChainInv, IsLegal(check), Enforced
               PROVE  IF check.kind = "less" THEN sumLeft < sumRight ELSE sumLeft = sumRight
    BY DEF ChainsCompareNumbers
  <1>1. CASE check.kind = "less"
    BY <1>1 DEF ChainInv, BorrowInv, Enforced, BorrowEnds, BorrowHolds, CarryEnds
  <1>2. CASE check.kind # "less"
    <2>1. carry = extra /\ carry \in Int /\ place \in Int /\ sumLeft \in Int /\ sumRight \in Int
          /\ sumLeft - sumRight = (carry - extra) * place
      BY <1>2, PrimeAssumption DEF ChainInv, CarryInv, Enforced, BorrowEnds, CarryEnds
    <2>2. (carry - extra) * place = 0
      BY <2>1
    <2> QED
      BY <2>1, <2>2, <1>2
  <1> QED
    BY <1>1, <1>2

\* enforce_lt_strict_borrow_chain is sound, and so is the grouped carry chain
\* of conditional_enforce_limbs_equal_when_carried: for every legal check,
\* field and limb layout, whatever the prover allocates.
THEOREM ChainsSound == Spec => []ChainsCompareNumbers
  <1>1. Init => ChainInv
    BY StartInv DEF Init
  <1> QED
    BY <1>1, InvCompares, ChainInvNext, PTL DEF Spec

-----------------------------------------------------------------------------
(* The checks an operation raises.                                         *)

\* A number is below the power of two with that exponent.
LEMMA BelowPower == ASSUME NEW n \in Nat PROVE n < NatPower(2, n)
  <1>. DEFINE T == {k \in Nat : k < NatPower(2, k)}
  <1>1. 0 \in T
    BY PowerStep
  <1>2. ASSUME NEW k \in Nat, k \in T PROVE k + 1 \in T
    <2>1. NatPower(2, k + 1) = NatPower(2, k) * 2 /\ NatPower(2, k) \in Nat /\ k < NatPower(2, k)
      BY <1>2, PowerStep, PowerType
    <2>. QED
      BY <2>1
  <1>3. Nat \subseteq T
    <2>. HIDE DEF T
    <2>. QED
      BY <1>1, <1>2, Induct
  <1>. QED
    BY <1>3

\* BigUint::bits is the number of bits.
LEMMA BitsType ==
    ASSUME NEW n \in Nat
    PROVE  Bits(n) \in Nat /\ n < NatPower(2, Bits(n)) /\ (Bits(n) = 0 \/ NatPower(2, Bits(n) - 1) <= n)
  <1>. DEFINE T == {k \in Nat : n < NatPower(2, k)}
  <1>2. n \in T
    BY BelowPower
  <1>3. PICK k \in T : \A j \in T : k <= j
    <2>. T \in SUBSET Nat /\ T # {}
      BY <1>2
    <2>. HIDE DEF T
    <2>. QED
      BY Least
  <1>4. k \in 0..n /\ n < NatPower(2, k)
    BY <1>2, <1>3
  <1>5. k = 0 \/ NatPower(2, k - 1) <= n
    <2>1. k # 0 => k - 1 \in Nat /\ NatPower(2, k - 1) \in Nat
      BY PowerType, <1>3
    <2>2. k # 0 => ~(k - 1 \in T)
      BY <1>3
    <2>. QED
      BY <2>1, <2>2
  <1>6. \E j \in 0..n : n < NatPower(2, j) /\ (j = 0 \/ NatPower(2, j - 1) <= n)
    BY <1>4, <1>5
  <1>7. Bits(n) \in 0..n /\ n < NatPower(2, Bits(n)) /\ (Bits(n) = 0 \/ NatPower(2, Bits(n) - 1) <= n)
    BY <1>6, Zenon DEF Bits
  <1>. QED
    BY <1>7

\* The constants of a grouped comparison are natural numbers.
LEMMA GroupTypes ==
    ASSUME NEW bound \in Nat, NEW limb, RoomFor(bound, limb)
    PROVE  /\ LimbsPerGroup(bound) \in Nat \ {0}
           /\ GroupedBase(bound) \in Nat \ {0, 1}
           /\ Repunit(LimbsPerGroup(bound)) \in Nat
           /\ GroupedWord(bound) \in Nat
           /\ CarryCap(bound) \in Nat \ {0}
  <1>. DEFINE g == LimbsPerGroup(bound)
  <1>1. P \in Nat /\ P >= 2
    BY PrimeAssumption
  <1>2. FieldBits \in Nat /\ FieldBits # 0
    <2>1. Bits(P) \in Nat /\ P < NatPower(2, Bits(P))
      BY <1>1, BitsType
    <2>2. NatPower(2, 0) = 1
      BY PowerStep
    <2>. QED
      BY <1>1, <2>1, <2>2 DEF FieldBits
  <1>3. CarryBits(bound) \in Int
    BY BitsType, LimbAssumption DEF CarryBits, Larger
  <1>4. g \in Nat \ {0}
    <2>1. FieldBits - 1 - CarryBits(bound) \in Int /\ LimbWidth \in Nat \ {0}
      BY <1>2, <1>3, LimbAssumption
    <2>2. g \in Int
      BY <2>1 DEF LimbsPerGroup
    <2>3. g >= 1
      BY DEF RoomFor, Supported
    <2>. QED
      BY <2>2, <2>3
  <1>5. Base \in Nat \ {0, 1}
    BY BaseType
  <1>. HIDE DEF g
  <1>6. NatPower(Base, g) \in Nat \ {0, 1}
    <2>1. NatPower(Base, 0 + 1) = NatPower(Base, 0) * Base /\ NatPower(Base, 0) = 1
      BY PowerStep
    <2>2. NatPower(Base, 1) <= NatPower(Base, g) /\ NatPower(Base, g) \in Nat \ {0}
      BY <1>4, <1>5, PowerGrows, PowerType
    <2>. QED
      BY <1>5, <2>1, <2>2
  <1>7. Repunit(g) \in Nat
    <2>1. \A j \in 0..(g - 1) : NatPower(Base, j) \in Nat
      BY <1>5, PowerType
    <2>2. IsNats([j \in 0..(g - 1) |-> NatPower(Base, j)], g)
      BY <2>1 DEF IsNats
    <2>. QED
      BY <1>4, <2>2, TotalType DEF Repunit
  <1>8. Repunit(g) * bound \in Nat
    BY <1>7
  <1>9. CarryCap(bound) \in Nat \ {0}
    <2>1. GroupedCarryBits(bound) \in Nat
      BY DEF RoomFor
    <2>2. Smaller(FieldBits - 1, GroupedCarryBits(bound)) \in Nat
      BY <1>2, <2>1 DEF Smaller
    <2>. QED
      BY <2>2, PowerType DEF CarryCap
  <1>. QED
    BY <1>4, <1>6, <1>7, <1>8, <1>9 DEF GroupedBase, GroupedWord, g

\* The numbers a check compares.
LeftOf(c) == Worth(c.left, Size(c.left), c.base)
RightOf(c) == Worth(c.right, Size(c.left), c.base)

\* Limbs the field has room for make a legal check, of the numbers they are.
LEMMA EqualMeans ==
    ASSUME NEW n \in Nat \ {0}, NEW limb \in Nat, NEW bound \in Nat, RoomFor(bound, limb),
           NEW a, NEW b, AreLimbs(a, n, limb), AreLimbs(b, n, limb)
    PROVE  /\ IsLegal(EqualCheck(a, b, bound)) /\ EqualCheck(a, b, bound).kind = "equal"
           /\ LeftOf(EqualCheck(a, b, bound)) = Worth(a, n, Base)
           /\ RightOf(EqualCheck(a, b, bound)) = Worth(b, n, Base)
  <1>. DEFINE g == LimbsPerGroup(bound)
              c == EqualCheck(a, b, bound)
              d == GroupCount(n, g)
              most == Repunit(g) * limb
  <1>1. /\ g \in Nat \ {0} /\ GroupedBase(bound) \in Nat \ {0, 1} /\ Repunit(g) \in Nat
        /\ GroupedWord(bound) \in Nat /\ CarryCap(bound) \in Nat \ {0}
    BY GroupTypes
  <1>2. /\ c.kind = "equal" /\ c.left = GroupLimbs(a, g) /\ c.right = GroupLimbs(b, g)
        /\ c.base = GroupedBase(bound) /\ c.offset = GroupedWord(bound) /\ c.cap = CarryCap(bound)
    BY DEF EqualCheck
  <1>3. /\ most + CarryCap(bound) + GroupedWord(bound) < P
        /\ CarryCap(bound) * GroupedBase(bound) + most <= P
        /\ 2 * GroupedWord(bound) + most < P
    BY DEF RoomFor
  <1>4. most \in Nat /\ P \in Nat
    BY <1>1, PrimeAssumption
  <1>5. most < P
    BY <1>1, <1>3, <1>4
  <1>. HIDE DEF g
  <1>6. /\ AreLimbs(GroupLimbs(a, g), d, most)
        /\ Worth(GroupLimbs(a, g), d, NatPower(Base, g)) = Worth(a, n, Base)
    BY <1>1, <1>5, GroupsWorth
  <1>7. /\ AreLimbs(GroupLimbs(b, g), d, most)
        /\ Worth(GroupLimbs(b, g), d, NatPower(Base, g)) = Worth(b, n, Base)
    BY <1>1, <1>5, GroupsWorth
  <1>8. d \in Nat
    BY <1>1, GroupsCover
  <1>9. c.base = NatPower(Base, g)
    BY <1>2 DEF GroupedBase, g
  <1>. HIDE DEF c, d, most
  <1>10. DOMAIN c.left = 0..(d - 1) /\ DOMAIN c.right = 0..(d - 1) /\ Size(c.left) = d
    BY <1>2, <1>6, <1>7, <1>8, SizeOf DEF AreLimbs
  <1>11. ASSUME NEW k \in DOMAIN c.left
         PROVE  c.left[k] \in 0..most /\ c.right[k] \in 0..most
    BY <1>2, <1>6, <1>7, <1>10 DEF AreLimbs
  <1>12. ASSUME NEW k \in DOMAIN c.left
         PROVE  /\ c.left[k] + c.cap + c.offset < P
                /\ c.cap * c.base + c.right[k] <= P
                /\ 2 * c.offset + c.right[k] < P
    <2>1. CarryCap(bound) * GroupedBase(bound) \in Nat
      BY <1>1
    <2>. QED
      BY <1>1, <1>2, <1>3, <1>4, <1>11, <2>1
  <1>13. IsLegal(c)
    BY <1>1, <1>2, <1>8, <1>10, <1>11, <1>12 DEF IsLegal
  <1>14. LeftOf(c) = Worth(a, n, Base) /\ RightOf(c) = Worth(b, n, Base)
    BY <1>2, <1>6, <1>7, <1>9, <1>10 DEF LeftOf, RightOf
  <1>. QED
    BY <1>2, <1>13, <1>14 DEF c

\* The borrow chain's check compares the numbers of its limbs.
LEMMA LessMeans ==
    ASSUME NEW n \in Nat, NEW a, NEW b, AreLimbs(a, n, MaxWord), AreLimbs(b, n, MaxWord)
    PROVE  /\ IsLegal(LessCheck(a, b)) /\ LessCheck(a, b).kind = "less"
           /\ LeftOf(LessCheck(a, b)) = Worth(a, n, Base)
           /\ RightOf(LessCheck(a, b)) = Worth(b, n, Base)
  <1>. DEFINE c == LessCheck(a, b)
  <1>1. c.kind = "less" /\ c.left = a /\ c.right = b /\ c.base = Base /\ c.offset = 0 /\ c.cap = Base
    BY DEF LessCheck
  <1>. HIDE DEF c
  <1>2. Base \in Nat \ {0, 1} /\ MaxWord = Base - 1
    BY BaseType DEF MaxWord
  <1>3. 2 * Base < P
    BY RoomAssumption
  <1>4. DOMAIN c.left = 0..(n - 1) /\ DOMAIN c.right = 0..(n - 1) /\ Size(c.left) = n
    BY <1>1, SizeOf DEF AreLimbs
  <1>5. \A k \in DOMAIN c.left : /\ c.left[k] \in Nat /\ c.right[k] \in Nat
                                 /\ c.left[k] < c.base /\ c.right[k] < c.base
    BY <1>1, <1>2, <1>4 DEF AreLimbs
  <1>6. IsLegal(c)
    BY <1>1, <1>2, <1>3, <1>4, <1>5 DEF IsLegal
  <1>. QED
    BY <1>1, <1>4, <1>6 DEF c, LeftOf, RightOf

-----------------------------------------------------------------------------
(* What the loops have compared.                                           *)

(* The sums so far are the numbers of the limbs read so far.                *)
SumInv ==
    IsLegal(check) =>
        /\ place = NatPower(check.base, i)
        /\ sumLeft = Worth(check.left, i, check.base)
        /\ sumRight = Worth(check.right, i, check.base)

\* Nothing is compared before the first iteration.
LEMMA StartSums == ASSUME NEW c, Start(c) PROVE SumInv
  <1>1. i = 0 /\ place = 1 /\ sumLeft = 0 /\ sumRight = 0
    BY DEF Start
  <1>2. NatPower(check.base, 0) = 1
    BY PowerStep
  <1>3. Worth(check.left, 0, check.base) = 0 /\ Worth(check.right, 0, check.base) = 0
    BY WorthStep
  <1>. QED
    BY <1>1, <1>2, <1>3 DEF SumInv

\* The same after a loop was left for another check.
LEMMA RestartSums == ASSUME NEW c, Restart(c) PROVE SumInv'
  <1>1. i' = 0 /\ place' = 1 /\ sumLeft' = 0 /\ sumRight' = 0
    BY DEF Restart
  <1>2. NatPower(check'.base, 0) = 1
    BY PowerStep
  <1>3. Worth(check'.left, 0, check'.base) = 0 /\ Worth(check'.right, 0, check'.base) = 0
    BY WorthStep
  <1>. QED
    BY <1>1, <1>2, <1>3 DEF SumInv

\* An iteration adds one limb to either side.
LEMMA StepSums == ChainInv /\ SumInv /\ (BorrowStep \/ CarryStep) => SumInv'
  <1>. SUFFICES ASSUME ChainInv, SumInv, BorrowStep \/ CarryStep, IsLegal(check) PROVE SumInv'
    BY DEF SumInv, BorrowStep, CarryStep
  <1>1. /\ i' = i + 1 /\ check' = check /\ place' = place * check.base
        /\ sumLeft' = sumLeft + check.left[i] * place
        /\ sumRight' = sumRight + check.right[i] * place
    BY DEF BorrowStep, CarryStep
  <1>2. i \in Nat
    BY DEF ChainInv
  <1>3. NatPower(check.base, i + 1) = NatPower(check.base, i) * check.base
    BY <1>2, PowerStep
  <1>4. /\ Worth(check.left, i + 1, check.base)
             = Worth(check.left, i, check.base) + check.left[i] * NatPower(check.base, i)
        /\ Worth(check.right, i + 1, check.base)
             = Worth(check.right, i, check.base) + check.right[i] * NatPower(check.base, i)
    BY <1>2, WorthStep
  <1>. QED
    BY <1>1, <1>3, <1>4 DEF SumInv

\* Every step of an operation keeps the sums.
LEMMA SumInvNext == ChainInv /\ SumInv /\ [Next]_vars => SumInv'
  <1>. SUFFICES ASSUME ChainInv, SumInv, [Next]_vars PROVE SumInv'
    OBVIOUS
  <1>1. CASE UNCHANGED <<check, registers, history>>
    BY <1>1 DEF SumInv, registers, history
  <1>2. CASE \E c : Restart(c)
    BY <1>2, RestartSums
  <1>3. CASE Allocate
    BY <1>3, <1>1, <1>2 DEF Allocate, Abandon, Add, Sub, Reduce, Mult, MultModChecked,
       MultModUnchecked, SquareMod, PowMod, OpenSignature, Remainder, Enforce, Ready
  <1>4. CASE Loop
    BY <1>4, <1>1, StepSums DEF Loop, ChainStep, Refuse
  <1>5. CASE NextCheck \/ Quotient \/ Satisfied
    BY <1>5, <1>1, <1>2 DEF NextCheck, Quotient, Satisfied
  <1>6. CASE UNCHANGED vars
    BY <1>6, <1>1 DEF vars, chainVars
  <1>. QED
    BY <1>3, <1>4, <1>5, <1>6 DEF Next

\* A loop that ends has compared the numbers of its limbs.
LEMMA LoopCompares ==
    ASSUME ChainInv, SumInv, IsLegal(check), Enforced
    PROVE  IF check.kind = "less" THEN LeftOf(check) < RightOf(check) ELSE LeftOf(check) = RightOf(check)
  <1>1. i = Size(check.left)
    BY DEF Enforced, BorrowEnds, CarryEnds, Length
  <1>2. sumLeft = LeftOf(check) /\ sumRight = RightOf(check)
    BY <1>1 DEF SumInv, LeftOf, RightOf
  <1>3. IF check.kind = "less" THEN sumLeft < sumRight ELSE sumLeft = sumRight
    BY InvCompares DEF ChainsCompareNumbers
  <1>. QED
    BY <1>2, <1>3

-----------------------------------------------------------------------------
(* Convolutions.                                                           *)

\* A sum of one term.
IsSingle(f, n, p, v) == \A j \in 0..(n - 1) : f[j] = IF j = p THEN v ELSE 0

\* A sum with a single term that is not zero.
LEMMA TotalSingle ==
    ASSUME NEW n \in Nat, NEW p \in 0..(n - 1), NEW f, NEW v \in Int, IsSingle(f, n, p, v)
    PROVE  Total(f, n) = v
  <1>. DEFINE T == {k \in Nat : k <= n => Total(f, k) = IF k <= p THEN 0 ELSE v}
  <1>1. 0 \in T
    BY TotalStep
  <1>2. ASSUME NEW k \in Nat, k \in T PROVE k + 1 \in T
    <2>1. Total(f, k + 1) = Total(f, k) + f[k]
      BY TotalStep
    <2>2. k + 1 <= n => f[k] = (IF k = p THEN v ELSE 0) /\ Total(f, k) = IF k <= p THEN 0 ELSE v
      BY <1>2 DEF IsSingle
    <2>. QED
      BY <2>1, <2>2
  <1>3. Nat \subseteq T
    <2>. HIDE DEF T
    <2>. QED
      BY <1>1, <1>2, Induct
  <1>. QED
    BY <1>3

\* Coefficient k of the product of the first p limbs of a and d limbs of b,
\* and its summands.
Term(a, p, b, d, k, j) == IF j < p /\ k - j < d THEN a[j] * b[k - j] ELSE 0
Terms(a, p, b, d, k) == [j \in 0..k |-> Term(a, p, b, d, k, j)]
Conv(a, p, b, d, k) == Total(Terms(a, p, b, d, k), k + 1)

\* The terms of a coefficient are natural numbers.
LEMMA TermsType ==
    ASSUME NEW n \in Nat, NEW d \in Nat, NEW a, NEW b, IsNats(a, n), IsNats(b, d),
           NEW p \in Nat, p <= n, NEW k \in Nat
    PROVE  /\ IsNats(Terms(a, p, b, d, k), k + 1) /\ IsInts(Terms(a, p, b, d, k), k + 1)
           /\ \A j \in 0..k : Terms(a, p, b, d, k)[j] = Term(a, p, b, d, k, j)
  <1>1. ASSUME NEW j \in 0..k PROVE Term(a, p, b, d, k, j) \in Nat
    <2>1. j < p /\ k - j < d => a[j] \in Nat /\ b[k - j] \in Nat
      BY DEF IsNats
    <2>2. \A v, w \in Nat : v * w \in Nat
      OBVIOUS
    <2>. QED
      BY <2>1, <2>2 DEF Term
  <1>2. \A j \in 0..k : Terms(a, p, b, d, k)[j] = Term(a, p, b, d, k, j)
    BY DEF Terms
  <1>3. 0..((k + 1) - 1) = 0..k
    OBVIOUS
  <1>. QED
    BY <1>1, <1>2, <1>3 DEF IsNats, IsInts

\* One more limb adds one term to a coefficient.
LEMMA ConvStep ==
    ASSUME NEW n \in Nat, NEW d \in Nat, NEW a, NEW b, IsNats(a, n), IsNats(b, d),
           NEW p \in Nat, p + 1 <= n, NEW k \in Nat
    PROVE  /\ Conv(a, p, b, d, k) \in Nat
           /\ Conv(a, p + 1, b, d, k)
                = Conv(a, p, b, d, k) + (IF p <= k /\ k - p < d THEN a[p] * b[k - p] ELSE 0)
  <1>. DEFINE v == IF p <= k /\ k - p < d THEN a[p] * b[k - p] ELSE 0
              s == [j \in 0..k |-> IF j = p THEN v ELSE 0]
              f == Terms(a, p, b, d, k)
              h == Terms(a, p + 1, b, d, k)
  <1>1. v \in Nat
    <2>1. p <= k /\ k - p < d => a[p] \in Nat /\ b[k - p] \in Nat
      BY DEF IsNats
    <2>2. \A u, w \in Nat : u * w \in Nat
      OBVIOUS
    <2>. QED
      BY <2>1, <2>2
  <1>2. 0..((k + 1) - 1) = 0..k
    OBVIOUS
  <1>0. p <= n /\ p + 1 \in Nat
    OBVIOUS
  <1>3. IsNats(Terms(a, p, b, d, k), k + 1) /\ IsInts(Terms(a, p, b, d, k), k + 1)
    BY <1>0, TermsType
  <1>31. \A j \in 0..k : Terms(a, p, b, d, k)[j] = Term(a, p, b, d, k, j)
    BY <1>0, TermsType
  <1>4. \A j \in 0..k : Terms(a, p + 1, b, d, k)[j] = Term(a, p + 1, b, d, k, j)
    BY DEF Terms
  <1>5. \A j \in 0..k : s[j] = IF j = p THEN v ELSE 0
    OBVIOUS
  <1>51. IsSingle(s, k + 1, p, v)
    BY <1>2, <1>5, Zenon DEF IsSingle
  <1>6. IsInts(s, k + 1)
    BY <1>1, <1>2 DEF IsInts
  <1>7. ASSUME NEW j \in 0..((k + 1) - 1) PROVE h[j] = f[j] + s[j]
    <2>1. j \in 0..k /\ f[j] \in Int
      BY <1>2, <1>3 DEF IsInts
    <2>2. CASE j = p
      <3>1. Term(a, p, b, d, k, j) = 0 /\ Term(a, p + 1, b, d, k, j) = v
        BY <2>1, <2>2 DEF Term
      <3>. HIDE DEF f, h, v, s
      <3>. QED
        BY <1>1, <1>3, <1>31, <1>4, <1>5, <2>1, <2>2, <3>1 DEF f, h
    <2>3. CASE j # p
      <3>1. Term(a, p + 1, b, d, k, j) = Term(a, p, b, d, k, j)
        BY <2>1, <2>3 DEF Term
      <3>. HIDE DEF f, h, v, s
      <3>. QED
        BY <1>3, <1>31, <1>4, <1>5, <2>1, <2>3, <3>1 DEF f, h
    <2>. QED
      BY <2>2, <2>3
  <1>8. Total(s, k + 1) = v
    <2>1. CASE p <= k
      <3>1. p \in 0..((k + 1) - 1)
        BY <2>1
      <3>. HIDE DEF s, v
      <3>. QED
        BY <1>1, <1>51, <3>1, TotalSingle
    <2>2. CASE p > k
      <3>1. \A j \in 0..((k + 1) - 1) : s[j] = 0
        BY <2>2
      <3>2. v = 0
        BY <2>2
      <3>. HIDE DEF s, v
      <3>. QED
        BY <3>1, <3>2, TotalZero
    <2>. QED
      BY <2>1, <2>2
  <1>. HIDE DEF s, v, f, h
  <1>9. Total(h, k + 1) = Total(f, k + 1) + Total(s, k + 1)
    BY <1>3, <1>6, <1>7, TotalAdd DEF f
  <1>10. Total(f, k + 1) \in Nat
    BY <1>3, TotalType DEF f
  <1>. QED
    BY <1>8, <1>9, <1>10 DEF Conv, f, h, v

\* No limbs of a make no product.
LEMMA ConvZero == ASSUME NEW a, NEW b, NEW d, NEW k \in Nat PROVE Conv(a, 0, b, d, k) = 0
  <1>1. \A j \in 0..((k + 1) - 1) : Terms(a, 0, b, d, k)[j] = 0
    BY DEF Terms, Term
  <1>. QED
    BY <1>1, TotalZero DEF Conv

\* A coefficient is a sum of as many products as a has limbs.
LEMMA ConvAtMost ==
    ASSUME NEW n \in Nat, NEW d \in Nat, NEW a, NEW b, IsNats(a, n), IsNats(b, d), NEW c \in Nat, NEW e \in Nat,
           \A j \in 0..(n - 1) : a[j] <= c, \A j \in 0..(d - 1) : b[j] <= e, NEW k \in Nat
    PROVE  Conv(a, n, b, d, k) \in 0..(n * (c * e))
  <1>. DEFINE T == {p \in Nat : p <= n => Conv(a, p, b, d, k) \in Nat /\ Conv(a, p, b, d, k) <= p * (c * e)}
  <1>1. 0 \in T
    <2>1. 0 * (c * e) = 0
      OBVIOUS
    <2>. QED
      BY <2>1, ConvZero
  <1>2. ASSUME NEW p \in Nat, p \in T PROVE p + 1 \in T
    <2>. SUFFICES ASSUME p + 1 <= n
                  PROVE Conv(a, p + 1, b, d, k) \in Nat /\ Conv(a, p + 1, b, d, k) <= (p + 1) * (c * e)
      OBVIOUS
    <2>. DEFINE v == IF p <= k /\ k - p < d THEN a[p] * b[k - p] ELSE 0
    <2>1. Conv(a, p, b, d, k) \in Nat /\ Conv(a, p + 1, b, d, k) = Conv(a, p, b, d, k) + v
      BY ONLY ConvStep, n \in Nat, d \in Nat, IsNats(a, n), IsNats(b, d), p \in Nat, p + 1 <= n, k \in Nat DEF v
    <2>2. v \in Nat /\ v <= c * e
      <3>1. \A u, w \in Nat : u <= c /\ w <= e => u * w \in Nat /\ u * w <= c * e
        <4>. SUFFICES ASSUME NEW u \in Nat, NEW w \in Nat, u <= c, w <= e PROVE u * w \in Nat /\ u * w <= c * e
          OBVIOUS
        <4>1. u * w <= c * w
          OBVIOUS
        <4>2. c * w <= c * e
          OBVIOUS
        <4>3. u * w \in Nat /\ c * w \in Nat /\ c * e \in Nat
          OBVIOUS
        <4>. QED
          BY <4>1, <4>2, <4>3
      <3>2. p <= k /\ k - p < d => /\ p \in 0..(n - 1) /\ k - p \in 0..(d - 1)
                                   /\ a[p] \in Nat /\ b[k - p] \in Nat
        BY DEF IsNats
      <3>3. c * e \in Nat
        OBVIOUS
      <3>. QED
        BY <3>1, <3>2, <3>3
    <2>. HIDE DEF v
    <2>3. Conv(a, p, b, d, k) <= p * (c * e)
      BY <1>2
    <2>4. (p + 1) * (c * e) = p * (c * e) + c * e /\ p * (c * e) \in Nat /\ c * e \in Nat
      OBVIOUS
    <2>. QED
      BY <2>1, <2>2, <2>3, <2>4
  <1>3. Nat \subseteq T
    <2>. HIDE DEF T
    <2>. QED
      BY <1>1, <1>2, Induct
  <1>4. n * (c * e) \in Nat
    OBVIOUS
  <1>. QED
    BY <1>3, <1>4

\* Where one limb of b is less than c, every coefficient that has a place for an
\* addend misses c at least.
LEMMA ConvBelow ==
    ASSUME NEW n \in Nat, NEW a, NEW b, IsNats(a, n), IsNats(b, n), NEW c \in Nat, c > 0,
           \A j \in 0..(n - 1) : a[j] <= c, \A j \in 0..(n - 1) : b[j] <= c,
           NEW t \in Nat, t < n, b[t] < c, NEW k \in Nat, k < n
    PROVE  Conv(a, n, b, n, k) + c <= n * (c * c)
  <1>. DEFINE z == IF t <= k THEN k - t ELSE n - 1
              miss(p) == IF z < p THEN c ELSE 0
              T == {p \in Nat : p <= n => Conv(a, p, b, n, k) \in Nat /\ Conv(a, p, b, n, k) + miss(p) <= p * (c * c)}
  <1>1. z \in 0..(n - 1) /\ k \in Nat /\ n \in Nat
    OBVIOUS
  <1>2. 0 \in T
    <2>1. 0 * (c * c) = 0 /\ miss(0) = 0
      BY <1>1
    <2>. QED
      BY <1>1, <2>1, ConvZero
  <1>3. ASSUME NEW p \in Nat, p \in T PROVE p + 1 \in T
    <2>. SUFFICES ASSUME p + 1 <= n
                  PROVE  /\ Conv(a, p + 1, b, n, k) \in Nat
                         /\ Conv(a, p + 1, b, n, k) + miss(p + 1) <= (p + 1) * (c * c)
      OBVIOUS
    <2>. DEFINE v == IF p <= k /\ k - p < n THEN a[p] * b[k - p] ELSE 0
    <2>1. Conv(a, p, b, n, k) \in Nat /\ Conv(a, p + 1, b, n, k) = Conv(a, p, b, n, k) + v
      BY ONLY ConvStep, n \in Nat, IsNats(a, n), IsNats(b, n), p \in Nat, p + 1 <= n, k \in Nat DEF v
    <2>2. Conv(a, p, b, n, k) + miss(p) <= p * (c * c)
      BY <1>3
    <2>3. \A u, w, e \in Nat : u <= c /\ w <= e => u * w \in Nat /\ u * w <= c * e
      <3>. SUFFICES ASSUME NEW u \in Nat, NEW w \in Nat, NEW e \in Nat, u <= c, w <= e
                    PROVE  u * w \in Nat /\ u * w <= c * e
        OBVIOUS
      <3>1. u * w <= c * w /\ c * w <= c * e /\ u * w \in Nat /\ c * w \in Nat /\ c * e \in Nat
        OBVIOUS
      <3>. QED
        BY <3>1
    <2>4. c * c \in Nat /\ c - 1 \in Nat /\ c * (c - 1) = c * c - c /\ c <= c * c
      OBVIOUS
    <2>5. p <= k /\ k - p < n => /\ p \in 0..(n - 1) /\ k - p \in 0..(n - 1)
                                 /\ a[p] \in Nat /\ b[k - p] \in Nat /\ a[p] <= c /\ b[k - p] <= c
      BY DEF IsNats
    <2>6. v \in Nat /\ v <= c * c
      BY <2>3, <2>4, <2>5
    <2>7. p = z => v + c <= c * c
      <3>. SUFFICES ASSUME p = z PROVE v + c <= c * c
        OBVIOUS
      <3>1. CASE t <= k
        <4>1. k - p = t /\ p <= k /\ k - p < n
          BY <1>1, <3>1
        <4>2. b[k - p] <= c - 1 /\ v = a[p] * b[k - p]
          BY <2>5, <4>1
        <4>3. v <= c * (c - 1)
          BY <2>3, <2>4, <2>5, <4>1, <4>2
        <4>. QED
          BY <2>4, <2>6, <4>3
      <3>2. CASE ~(t <= k)
        <4>1. ~(p <= k)
          BY <1>1, <3>2
        <4>2. v = 0
          BY <4>1
        <4>. QED
          BY <2>4, <4>2
      <3>. QED
        BY <3>1, <3>2
    <2>8. miss(p + 1) = IF p = z THEN c ELSE miss(p)
      BY <1>1
    <2>9. p = z => miss(p) = 0
      BY <1>1
    <2>10. miss(p) \in Nat
      OBVIOUS
    <2>. HIDE DEF v, miss, z
    <2>11. (p + 1) * (c * c) = p * (c * c) + c * c /\ p * (c * c) \in Nat
      BY <2>4
    <2>. QED
      BY <2>1, <2>2, <2>4, <2>6, <2>7, <2>8, <2>9, <2>10, <2>11
  <1>4. Nat \subseteq T
    <2>. HIDE DEF T
    <2>. QED
      BY <1>2, <1>3, Induct
  <1>5. miss(n) = c
    BY <1>1
  <1>. QED
    BY <1>4, <1>5

\* A vector moved up by p places and multiplied by v.
Moved(l, d, p, v, k) == IF p <= k /\ k - p < d THEN v * l[k - p] ELSE 0
IsMoved(s, size, l, d, p, v) == \A k \in 0..(size - 1) : s[k] = Moved(l, d, p, v, k)

\* Limbs moved p places up are worth the p-th power of the base as much.
LEMMA WorthMoved ==
    ASSUME NEW d \in Nat, NEW l, IsNats(l, d), NEW p \in Nat, NEW v \in Nat, NEW size \in Nat, p + d <= size,
           NEW s, IsMoved(s, size, l, d, p, v), NEW b \in Nat \ {0}
    PROVE  Worth(s, size, b) = v * NatPower(b, p) * Worth(l, d, b)
  <1>. DEFINE q == size - p
              r == [j \in 0..(q - 1) |-> s[p + j]]
              t == [j \in 0..(d - 1) |-> v * l[j]]
              z == [j \in 0..(-1) |-> 0]
  <1>1. q \in Nat /\ size = p + q /\ d <= q
    OBVIOUS
  <1>2. \A j \in 0..(d - 1) : l[j] \in Nat /\ v * l[j] \in Nat
    BY DEF IsNats
  <1>3. \A k \in 0..(size - 1) : s[k] \in Nat
    <2>. SUFFICES ASSUME NEW k \in 0..(size - 1) PROVE s[k] \in Nat
      OBVIOUS
    <2>1. p <= k /\ k - p < d => k - p \in 0..(d - 1)
      OBVIOUS
    <2>. QED
      BY <1>2, <2>1 DEF Moved, IsMoved
  <1>4. IsInts(s, p + q)
    BY <1>1, <1>3 DEF IsInts
  <1>5. IsPart(r, s, p, q)
    BY <1>1 DEF IsPart
  <1>6. \A j \in 0..(p - 1) : s[j] = 0
    BY DEF Moved, IsMoved
  <1>7. \A j \in 0..(d - 1) : r[j] = t[j]
    <2>. SUFFICES ASSUME NEW j \in 0..(d - 1) PROVE r[j] = t[j]
      OBVIOUS
    <2>1. j \in 0..(q - 1) /\ p + j \in 0..(size - 1) /\ p <= p + j /\ (p + j) - p < d /\ (p + j) - p = j
      BY <1>1
    <2>2. s[p + j] = v * l[j]
      BY <2>1 DEF Moved, IsMoved
    <2>. QED
      BY <2>1, <2>2
  <1>8. \A j \in d..(q - 1) : r[j] = 0
    <2>. SUFFICES ASSUME NEW j \in d..(q - 1) PROVE r[j] = 0
      OBVIOUS
    <2>1. j \in 0..(q - 1) /\ p + j \in 0..(size - 1) /\ ~((p + j) - p < d)
      BY <1>1
    <2>2. s[p + j] = 0
      BY <2>1 DEF Moved, IsMoved
    <2>. QED
      BY <2>1, <2>2
  <1>9. IsInts(l, d) /\ IsInts(t, d) /\ \A j \in 0..(d - 1) : t[j] = v * l[j]
    BY <1>2 DEF IsInts
  <1>. HIDE DEF q, r, t
  <1>10. Worth(s, p + q, b) = Worth(s, p, b) + NatPower(b, p) * Worth(r, q, b)
    BY <1>1, <1>4, <1>5, WorthSplit
  <1>11. Worth(s, p, b) = 0
    <2>1. \A j \in 0..(p - 1) : s[j] = 0 /\ NatPower(b, j) \in Nat
      BY <1>6, PowerType
    <2>2. \A j \in 0..(p - 1) : [k \in 0..(p - 1) |-> s[k] * NatPower(b, k)][j] = 0
      BY <2>1
    <2>. QED
      BY <2>2, TotalZero DEF Worth
  <1>12. Worth(r, q, b) = Worth(t, d, b)
    <2>1. q \in Nat /\ d <= q
      BY <1>1
    <2>2. IsInts(t, d)
      BY <1>9
    <2>. QED
      BY <1>7, <1>8, <2>1, <2>2, WorthPadded
  <1>13. Worth(t, d, b) = v * Worth(l, d, b)
    BY <1>9, WorthScale
  <1>14. Worth(l, d, b) \in Nat /\ NatPower(b, p) \in Nat
    BY WorthType, PowerType
  <1>15. \A u, w \in Nat : u * (v * w) = v * u * w
    OBVIOUS
  <1>16. NatPower(b, p) * (v * Worth(l, d, b)) \in Nat
    <2>. \A u, w \in Nat : u * (v * w) \in Nat
      OBVIOUS
    <2>. QED
      BY <1>14
  <1>. QED
    BY <1>1, <1>10, <1>11, <1>12, <1>13, <1>14, <1>15, <1>16

\* The convolution is the product.
LEMMA ConvWorth ==
    ASSUME NEW n \in Nat, NEW d \in Nat, NEW a, NEW b, IsNats(a, n), IsNats(b, d), NEW size \in Nat, n + d <= size + 1,
           NEW q \in Nat \ {0}
    PROVE  Worth([k \in 0..(size - 1) |-> Conv(a, n, b, d, k)], size, q) = Worth(a, n, q) * Worth(b, d, q)
  <1>. DEFINE f(p) == [k \in 0..(size - 1) |-> Conv(a, p, b, d, k)]
              T == {p \in Nat : p <= n => Worth(f(p), size, q) = Worth(a, p, q) * Worth(b, d, q)}
  <1>0. Worth(b, d, q) \in Nat
    BY WorthType
  <1>1. 0 \in T
    <2>1. Worth(a, 0, q) = 0
      BY WorthStep
    <2>2. \A k \in 0..(size - 1) : f(0)[k] = 0 /\ NatPower(q, k) \in Nat
      BY ConvZero, PowerType
    <2>3. \A k \in 0..(size - 1) : [j \in 0..(size - 1) |-> f(0)[j] * NatPower(q, j)][k] = 0
      BY <2>2
    <2>4. Worth(f(0), size, q) = 0
      BY <2>3, TotalZero DEF Worth
    <2>. QED
      BY <1>0, <2>1, <2>4
  <1>2. ASSUME NEW p \in Nat, p \in T PROVE p + 1 \in T
    <2>. SUFFICES ASSUME p + 1 <= n PROVE Worth(f(p + 1), size, q) = Worth(a, p + 1, q) * Worth(b, d, q)
      OBVIOUS
    <2>. DEFINE s == [k \in 0..(size - 1) |-> Moved(b, d, p, a[p], k)]
                u == f(p)
                w == f(p + 1)
    <2>1. p \in 0..(n - 1) /\ a[p] \in Nat
      BY DEF IsNats
    <2>2. \A k \in 0..(size - 1) : u[k] \in Nat /\ w[k] = u[k] + s[k]
      <3>. SUFFICES ASSUME NEW k \in 0..(size - 1) PROVE u[k] \in Nat /\ w[k] = u[k] + s[k]
        OBVIOUS
      <3>1. k \in Nat
        OBVIOUS
      <3>2. Conv(a, p, b, d, k) \in Nat
        BY <3>1, ConvStep
      <3>3. Conv(a, p + 1, b, d, k)
              = Conv(a, p, b, d, k) + (IF p <= k /\ k - p < d THEN a[p] * b[k - p] ELSE 0)
        BY <3>1, ConvStep
      <3>. QED
        BY <3>2, <3>3 DEF Moved
    <2>3. IsMoved(s, size, b, d, p, a[p])
      BY DEF IsMoved
    <2>4. \A k \in 0..(size - 1) : s[k] \in Int
      <3>. SUFFICES ASSUME NEW k \in 0..(size - 1) PROVE s[k] \in Int
        OBVIOUS
      <3>1. p <= k /\ k - p < d => b[k - p] \in Nat
        BY DEF IsNats
      <3>2. \A y1, y2 \in Nat : y1 * y2 \in Int
        OBVIOUS
      <3>. QED
        BY <2>1, <3>1, <3>2 DEF Moved
    <2>5. IsInts(u, size) /\ IsInts(s, size) /\ \A k \in 0..(size - 1) : w[k] = u[k] + s[k]
      BY <2>2, <2>4 DEF IsInts
    <2>. HIDE DEF s, u, w
    <2>6. Worth(w, size, q) = Worth(u, size, q) + Worth(s, size, q)
      BY <2>5, WorthAdd
    <2>7. Worth(s, size, q) = a[p] * NatPower(q, p) * Worth(b, d, q)
      <3>1. p + d <= size
        OBVIOUS
      <3>. QED
        BY <2>1, <2>3, <3>1, WorthMoved
    <2>8. Worth(a, p + 1, q) = Worth(a, p, q) + a[p] * NatPower(q, p)
      BY WorthStep
    <2>9. Worth(u, size, q) = Worth(a, p, q) * Worth(b, d, q)
      BY <1>2 DEF u
    <2>10. Worth(a, p, q) \in Nat /\ a[p] * NatPower(q, p) \in Nat
      <3>1. IsNats(a, p)
        BY DEF IsNats
      <3>2. \A y1, y2 \in Nat : y1 * y2 \in Nat
        OBVIOUS
      <3>. QED
        BY <2>1, <3>1, <3>2, WorthType, PowerType
    <2>11. \A y1, y2, y3 \in Nat : (y1 + y2) * y3 = y1 * y3 + y2 * y3
      OBVIOUS
    <2>. QED
      BY <1>0, <2>6, <2>7, <2>8, <2>9, <2>10, <2>11 DEF w
  <1>3. Nat \subseteq T
    <2>. HIDE DEF T
    <2>. QED
      BY <1>1, <1>2, Induct
  <1>. QED
    BY <1>3

-----------------------------------------------------------------------------
(* The sums and products of limb vectors.                                  *)

\* Limbs up to a bound stand for a natural number.
LEMMA LimbsWorthType ==
    ASSUME NEW n \in Nat, NEW c \in Nat, NEW l, AreLimbs(l, n, c)
    PROVE  Worth(l, n, Base) \in Nat /\ LimbsToNat(l) = Worth(l, n, Base)
  <1>1. IsNats(l, n) /\ DOMAIN l = 0..(n - 1)
    BY AreLimbsNats
  <1>. QED
    BY <1>1, BaseType, WorthType, LimbsWorth

\* The coefficients of a product, when they stay below the order of the field.
LEMMA ProductIsConv ==
    ASSUME NEW n \in Nat \ {0}, NEW d \in Nat \ {0}, NEW c \in Nat, NEW e \in Nat, NEW a, NEW b,
           AreLimbs(a, n, c), AreLimbs(b, d, e), n * (c * e) < P
    PROVE  Product(a, b) = [k \in 0..(n + d - 2) |-> Conv(a, n, b, d, k)]
  <1>1. /\ DOMAIN a = 0..(n - 1) /\ Size(a) = n /\ IsNats(a, n)
        /\ DOMAIN b = 0..(d - 1) /\ Size(b) = d /\ IsNats(b, d)
        /\ \A j \in 0..(n - 1) : a[j] <= c
        /\ \A j \in 0..(d - 1) : b[j] <= e
    BY AreLimbsNats, SizeOf
  <1>. DEFINE t(k) == [j \in 0..k |-> IF j \in DOMAIN a /\ k - j \in DOMAIN b THEN a[j] * b[k - j] ELSE 0]
  <1>2. ASSUME NEW k \in 0..(n + d - 2) PROVE Total(t(k), k + 1) % P = Conv(a, n, b, d, k)
    <2>1. k \in Nat /\ 0..((k + 1) - 1) = 0..k
      OBVIOUS
    <2>2. ASSUME NEW j \in 0..k PROVE t(k)[j] = Terms(a, n, b, d, k)[j]
      <3>1. (j \in DOMAIN a /\ k - j \in DOMAIN b) <=> (j < n /\ k - j < d)
        BY <1>1, <2>1
      <3>. QED
        BY <3>1 DEF Terms, Term
    <2>3. Total(t(k), k + 1) = Conv(a, n, b, d, k)
      <3>. HIDE DEF t
      <3>. QED
        BY <2>1, <2>2, TotalSame DEF Conv
    <2>4. Conv(a, n, b, d, k) \in 0..(n * (c * e))
      BY <1>1, <2>1, ConvAtMost
    <2>5. P \in Nat \ {0} /\ n * (c * e) \in Nat
      <3>1. c * e \in Nat
        OBVIOUS
      <3>. QED
        BY <3>1, PrimeAssumption
    <2>6. Conv(a, n, b, d, k) \in Nat /\ Conv(a, n, b, d, k) < P
      BY <2>4, <2>5
    <2>. QED
      BY <2>3, <2>5, <2>6, ModSelf
  <1>3. Product(a, b) = [k \in 0..(n + d - 2) |-> Total(t(k), k + 1) % P]
    BY <1>1 DEF Product
  <1>. HIDE DEF t
  <1>. QED
    BY <1>2, <1>3

\* BigNatVar::mult_no_carry is the product of the numbers.
LEMMA ProductWorth ==
    ASSUME NEW n \in Nat \ {0}, NEW d \in Nat \ {0}, NEW c \in Nat, NEW e \in Nat, NEW a, NEW b,
           AreLimbs(a, n, c), AreLimbs(b, d, e), n * (c * e) < P
    PROVE  /\ AreLimbs(Product(a, b), n + d - 1, n * (c * e))
           /\ Worth(Product(a, b), n + d - 1, Base) = Worth(a, n, Base) * Worth(b, d, Base)
  <1>. DEFINE r == [k \in 0..(n + d - 2) |-> Conv(a, n, b, d, k)]
              s == [k \in 0..((n + d - 1) - 1) |-> Conv(a, n, b, d, k)]
  <1>1. Product(a, b) = r
    BY ProductIsConv
  <1>2. r = s /\ n + d - 1 \in Nat /\ 0..((n + d - 1) - 1) = 0..(n + d - 2)
    OBVIOUS
  <1>3. /\ IsNats(a, n) /\ IsNats(b, d)
        /\ \A j \in 0..(n - 1) : a[j] <= c
        /\ \A j \in 0..(d - 1) : b[j] <= e
    BY AreLimbsNats
  <1>4. ASSUME NEW k \in 0..(n + d - 2) PROVE r[k] \in 0..(n * (c * e))
    <2>1. k \in Nat
      OBVIOUS
    <2>2. Conv(a, n, b, d, k) \in 0..(n * (c * e))
      BY <1>3, <2>1, ConvAtMost
    <2>. QED
      BY <2>2
  <1>5. AreLimbs(r, n + d - 1, n * (c * e))
    BY <1>2, <1>4 DEF AreLimbs
  <1>6. Worth(s, n + d - 1, Base) = Worth(a, n, Base) * Worth(b, d, Base)
    <2>1. n + d - 1 \in Nat /\ n + d <= (n + d - 1) + 1 /\ Base \in Nat \ {0}
      BY BaseType
    <2>. QED
      BY <1>3, <2>1, ConvWorth
  <1>. QED
    BY <1>1, <1>2, <1>5, <1>6

\* The upper triangle of a square sums to the whole of it.
LEMMA SquareIsProduct ==
    ASSUME NEW n \in Nat \ {0}, NEW c \in Nat, NEW a, AreLimbs(a, n, c)
    PROVE  Square(a) = Product(a, a)
  <1>1. DOMAIN a = 0..(n - 1) /\ Size(a) = n /\ \A j \in 0..(n - 1) : a[j] \in Nat
    BY AreLimbsNats, SizeOf DEF AreLimbs
  <1>. DEFINE t(k) == [j \in 0..k |-> IF j \notin DOMAIN a \/ k - j \notin DOMAIN a \/ j > k - j THEN 0
                                      ELSE IF j = k - j THEN a[j] * a[j]
                                      ELSE 2 * a[j] * a[k - j]]
              g(k) == [j \in 0..k |-> IF j \in DOMAIN a /\ k - j \in DOMAIN a THEN a[j] * a[k - j] ELSE 0]
              h(k) == [j \in 0..k |-> t(k)[k - j]]
              u(k) == [j \in 0..k |-> 2 * g(k)[j]]
  <1>2. ASSUME NEW k \in 0..(2 * n - 2) PROVE Total(t(k), k + 1) = Total(g(k), k + 1)
    <2>1. k \in Nat /\ 0..((k + 1) - 1) = 0..k /\ k + 1 \in Nat
      OBVIOUS
    <2>2. \A p, q \in Nat : p * q \in Nat /\ 2 * p * q \in Nat /\ p * q = q * p /\ 2 * p * q = 2 * (p * q)
      OBVIOUS
    <2>3. ASSUME NEW j \in 0..k
          PROVE  /\ t(k)[j] \in Nat /\ g(k)[j] \in Nat
                 /\ t(k)[j] + t(k)[k - j] = 2 * g(k)[j]
      <3>1. k - j \in 0..k /\ k - (k - j) = j
        OBVIOUS
      <3>2. CASE j \in DOMAIN a /\ k - j \in DOMAIN a
        <4>1. a[j] \in Nat /\ a[k - j] \in Nat
          BY <1>1, <3>2
        <4>2. g(k)[j] = a[j] * a[k - j] /\ a[j] * a[k - j] \in Nat /\ a[k - j] * a[j] = a[j] * a[k - j]
          BY <2>2, <3>2, <4>1
        <4>3. CASE j < k - j
          <5>1. t(k)[j] = 2 * (a[j] * a[k - j])
            <6>1. t(k)[j] = 2 * a[j] * a[k - j]
              BY <3>2, <4>3
            <6>. QED
              BY <2>2, <4>1, <6>1
          <5>2. t(k)[k - j] = 0
            BY <3>1, <4>3
          <5>. HIDE DEF t, g
          <5>. QED
            BY <4>2, <5>1, <5>2
        <4>4. CASE j > k - j
          <5>1. t(k)[k - j] = 2 * (a[j] * a[k - j])
            <6>1. t(k)[k - j] = 2 * a[k - j] * a[j]
              BY <3>1, <3>2, <4>4
            <6>2. 2 * a[k - j] * a[j] = 2 * (a[k - j] * a[j])
              BY <2>2, <4>1
            <6>. HIDE DEF t, g
            <6>. QED
              BY <4>2, <6>1, <6>2
          <5>2. t(k)[j] = 0
            BY <4>4
          <5>. HIDE DEF t, g
          <5>. QED
            BY <4>2, <5>1, <5>2
        <4>5. CASE j = k - j
          <5>1. t(k)[j] = a[j] * a[j]
            BY <3>2, <4>5
          <5>2. t(k)[k - j] = t(k)[j] /\ a[k - j] = a[j]
            BY <4>5
          <5>. HIDE DEF t, g
          <5>. QED
            BY <4>2, <5>1, <5>2
        <4>. QED
          BY <4>3, <4>4, <4>5
      <3>3. CASE ~(j \in DOMAIN a /\ k - j \in DOMAIN a)
        <4>1. t(k)[j] = 0 /\ g(k)[j] = 0
          BY <3>3
        <4>2. t(k)[k - j] = 0
          BY <3>1, <3>3
        <4>. QED
          BY <4>1, <4>2
      <3>. QED
        BY <3>2, <3>3
    <2>4. IsInts(t(k), k + 1) /\ IsInts(g(k), k + 1)
      <3>. HIDE DEF t, g
      <3>. QED
        BY <2>1, <2>3 DEF IsInts
    <2>5. \A j \in 0..((k + 1) - 1) : h(k)[j] = t(k)[(k + 1) - 1 - j]
      OBVIOUS
    <2>6. \A j \in 0..((k + 1) - 1) : u(k)[j] = 2 * g(k)[j]
      OBVIOUS
    <2>7. \A j \in 0..((k + 1) - 1) : u(k)[j] = t(k)[j] + h(k)[j]
      BY <2>1, <2>3
    <2>8. IsInts(h(k), k + 1)
      <3>1. \A j \in 0..k : k - j \in 0..k /\ h(k)[j] = t(k)[k - j]
        OBVIOUS
      <3>. HIDE DEF h, t, g
      <3>. QED
        BY <2>1, <2>3, <3>1 DEF IsInts
    <2>. HIDE DEF t, g, h, u
    <2>9. Total(h(k), k + 1) = Total(t(k), k + 1)
      BY <2>1, <2>4, <2>5, TotalReverse
    <2>10. Total(u(k), k + 1) = Total(t(k), k + 1) + Total(h(k), k + 1)
      BY <2>1, <2>4, <2>7, <2>8, TotalAdd
    <2>11. Total(u(k), k + 1) = 2 * Total(g(k), k + 1)
      BY <2>1, <2>4, <2>6, TotalScale
    <2>12. Total(t(k), k + 1) \in Int /\ Total(g(k), k + 1) \in Int
      BY <2>1, <2>4, TotalType
    <2>. QED
      BY <2>9, <2>10, <2>11, <2>12
  <1>3. Square(a) = [k \in 0..(2 * n - 2) |-> Total(t(k), k + 1) % P]
    BY <1>1 DEF Square
  <1>4. Product(a, a) = [k \in 0..(2 * n - 2) |-> Total(g(k), k + 1) % P]
    <2>1. n + n - 2 = 2 * n - 2
      OBVIOUS
    <2>. QED
      BY <1>1, <2>1 DEF Product
  <1>. HIDE DEF t, g
  <1>. QED
    BY <1>2, <1>3, <1>4

\* Zeros above the limbs change no number.
LEMMA ResizedWorth ==
    ASSUME NEW n \in Nat, NEW d \in Nat, n <= d, NEW c \in Nat, NEW a, AreLimbs(a, n, c)
    PROVE  AreLimbs(Resized(a, d), d, c) /\ Worth(Resized(a, d), d, Base) = Worth(a, n, Base)
  <1>1. IsInts(a, n) /\ Size(a) = n /\ Base \in Nat \ {0}
    BY AreLimbsNats, SizeOf, BaseType DEF AreLimbs
  <1>. DEFINE r == Resized(a, d)
  <1>2. DOMAIN r = 0..(d - 1) /\ \A j \in 0..(d - 1) : r[j] = IF j < n THEN a[j] ELSE 0
    BY <1>1 DEF Resized
  <1>. HIDE DEF r
  <1>3. (\A j \in 0..(n - 1) : r[j] = a[j]) /\ (\A j \in n..(d - 1) : r[j] = 0)
    BY <1>2
  <1>4. Worth(r, d, Base) = Worth(a, n, Base)
    BY <1>1, <1>3, WorthPadded
  <1>5. AreLimbs(r, d, c)
    BY <1>2 DEF AreLimbs
  <1>. QED
    BY <1>4, <1>5 DEF r

\* A sum of limbs that stays below the order of the field.
LEMMA SumWorth ==
    ASSUME NEW n \in Nat, NEW d \in Nat, NEW k \in Nat, n <= k, d <= k, NEW c \in Nat, NEW e \in Nat,
           NEW a, NEW b, AreLimbs(a, n, c), AreLimbs(b, d, e), c + e < P
    PROVE  /\ AreLimbs(LimbwiseSum(a, b, k), k, c + e)
           /\ Worth(LimbwiseSum(a, b, k), k, Base) = Worth(a, n, Base) + Worth(b, d, Base)
  <1>. DEFINE u == Resized(a, k)  v == Resized(b, k)  s == LimbwiseSum(a, b, k)
  <1>1. AreLimbs(u, k, c) /\ Worth(u, k, Base) = Worth(a, n, Base)
    BY ResizedWorth
  <1>2. AreLimbs(v, k, e) /\ Worth(v, k, Base) = Worth(b, d, Base)
    BY ResizedWorth
  <1>3. DOMAIN s = 0..(k - 1) /\ \A j \in 0..(k - 1) : s[j] = (u[j] + v[j]) % P
    BY DEF LimbwiseSum, Plus
  <1>. HIDE DEF u, v, s
  <1>4. ASSUME NEW j \in 0..(k - 1) PROVE s[j] = u[j] + v[j] /\ s[j] \in 0..(c + e)
    <2>1. u[j] \in 0..c /\ v[j] \in 0..e /\ P \in Nat \ {0}
      BY <1>1, <1>2, PrimeAssumption DEF AreLimbs
    <2>2. u[j] + v[j] \in Nat /\ u[j] + v[j] < P /\ u[j] + v[j] <= c + e
      BY <2>1
    <2>3. (u[j] + v[j]) % P = u[j] + v[j]
      BY <2>1, <2>2, ModSelf
    <2>. QED
      BY <1>3, <2>2, <2>3
  <1>5. AreLimbs(s, k, c + e)
    BY <1>3, <1>4 DEF AreLimbs
  <1>6. IsInts(u, k) /\ IsInts(v, k) /\ Base \in Nat \ {0}
    BY <1>1, <1>2, AreLimbsNats, BaseType
  <1>7. Worth(s, k, Base) = Worth(u, k, Base) + Worth(v, k, Base)
    BY <1>4, <1>6, WorthAdd
  <1>. QED
    BY <1>1, <1>2, <1>5, <1>7 DEF s

-----------------------------------------------------------------------------
(* Remainders, and the digits of a number.                                 *)

\* A quotient and a remainder below the divisor are the only ones.
LEMMA DivUnique ==
    ASSUME NEW a \in Nat, NEW q \in Nat \ {0}, NEW u \in Nat, NEW r \in Nat, r < q, a = q * u + r
    PROVE  a \div q = u /\ a % q = r
  <1>. DEFINE v == a \div q  s == a % q
  <1>1. v \in Nat /\ s \in 0..(q - 1) /\ a = q * v + s
    BY DivMod
  <1>. HIDE DEF v, s
  <1>2. q * (u - v) = s - r
    BY <1>1
  <1>3. ~(u > v)
    <2>1. u - v >= 1 => q * (u - v) >= q
      BY <1>1
    <2>. QED
      BY <1>1, <1>2, <2>1
  <1>4. ~(u < v)
    <2>1. v - u >= 1 => q * (v - u) >= q
      BY <1>1
    <2>2. q * (v - u) = r - s
      BY <1>1
    <2>. QED
      BY <1>1, <2>1, <2>2
  <1>5. u = v
    BY <1>1, <1>3, <1>4
  <1>6. s = r
    BY <1>1, <1>5
  <1>. QED
    BY <1>5, <1>6 DEF v, s

\* Dividing twice is dividing by the product.
LEMMA DivDiv ==
    ASSUME NEW a \in Nat, NEW p \in Nat \ {0}, NEW q \in Nat \ {0}
    PROVE  (a \div p) \div q = a \div (p * q)
  <1>. DEFINE u == a \div p  r == a % p  t == u \div q  s == u % q
  <1>1. u \in Nat /\ r \in 0..(p - 1) /\ a = p * u + r
    BY DivMod
  <1>. HIDE DEF u, r
  <1>2. t \in Nat /\ s \in 0..(q - 1) /\ u = q * t + s
    BY <1>1, DivMod
  <1>. HIDE DEF t, s
  <1>3. a = (p * q) * t + (p * s + r)
    <2>1. p * u = p * (q * t) + p * s
      BY <1>1, <1>2
    <2>2. p * (q * t) = (p * q) * t
      BY <1>1, <1>2
    <2>3. p * s \in Nat /\ (p * q) * t \in Nat
      BY <1>2
    <2>. QED
      BY <1>1, <2>1, <2>2, <2>3
  <1>4. p * s + r \in Nat /\ p * s + r < p * q
    <2>1. p * (s + 1) <= p * q
      BY <1>2
    <2>2. p * (s + 1) = p * s + p /\ p * s \in Nat /\ p * q \in Nat
      BY <1>2
    <2>. QED
      BY <1>1, <2>1, <2>2
  <1>5. p * q \in Nat \ {0}
    OBVIOUS
  <1>6. a \div (p * q) = t
    BY <1>2, <1>3, <1>4, <1>5, DivUnique
  <1>. QED
    BY <1>6 DEF t, u

\* What a number says of its remainder and its multiples.
LEMMA ModMultiple ==
    ASSUME NEW q \in Nat \ {0}, NEW a \in Nat, NEW u \in Nat
    PROVE  (q * u + a) % q = a % q
  <1>. DEFINE v == a \div q  s == a % q
  <1>1. v \in Nat /\ s \in 0..(q - 1) /\ a = q * v + s
    BY DivMod
  <1>. HIDE DEF v, s
  <1>2. q * u + a = q * (u + v) + s /\ q * u + a \in Nat /\ u + v \in Nat
    <2>1. q * (u + v) = q * u + q * v /\ q * u \in Nat
      BY <1>1
    <2>. QED
      BY <1>1, <2>1
  <1>3. (q * u + a) % q = s
    BY <1>1, <1>2, DivUnique
  <1>. QED
    BY <1>3 DEF s

\* A product may be reduced before it is formed.
LEMMA ModTimesOne ==
    ASSUME NEW q \in Nat \ {0}, NEW a \in Nat, NEW b \in Nat
    PROVE  ((a % q) * b) % q = (a * b) % q
  <1>. DEFINE v == a \div q  s == a % q
  <1>1. v \in Nat /\ s \in 0..(q - 1) /\ a = q * v + s
    BY DivMod
  <1>. HIDE DEF v, s
  <1>2. a * b = q * (v * b) + s * b /\ v * b \in Nat /\ s * b \in Nat
    <2>1. a * b = (q * v) * b + s * b
      BY <1>1
    <2>2. (q * v) * b = q * (v * b)
      BY <1>1
    <2>. QED
      BY <1>1, <2>1, <2>2
  <1>3. (q * (v * b) + s * b) % q = (s * b) % q
    BY <1>2, ModMultiple
  <1>. QED
    BY <1>2, <1>3 DEF s

\* A remainder is below the divisor, and its own remainder.
LEMMA ModType ==
    ASSUME NEW q \in Nat \ {0}, NEW a \in Nat
    PROVE  a % q \in Nat /\ a % q < q /\ (a % q) % q = a % q
  <1>. DEFINE s == a % q
  <1>1. s \in 0..(q - 1)
    BY DivMod
  <1>. HIDE DEF s
  <1>2. s \in Nat /\ s < q
    BY <1>1
  <1>3. s % q = s
    BY <1>2, ModSelf
  <1>. QED
    BY <1>2, <1>3 DEF s

\* Equal remainders.
AreCongruent(a, b, q) == a % q = b % q

\* Congruent factors have congruent products.
LEMMA ModTimes ==
    ASSUME NEW q \in Nat \ {0}, NEW a \in Nat, NEW b \in Nat, NEW c \in Nat, NEW d \in Nat,
           AreCongruent(a, c, q), AreCongruent(b, d, q)
    PROVE  AreCongruent(a * b, c * d, q)
  <1>1. ((a % q) * b) % q = (a * b) % q
    BY ModTimesOne
  <1>2. ((c % q) * b) % q = (c * b) % q
    BY ModTimesOne
  <1>3. ((b % q) * c) % q = (b * c) % q
    BY ModTimesOne
  <1>4. ((d % q) * c) % q = (d * c) % q
    BY ModTimesOne
  <1>5. c * b = b * c /\ d * c = c * d
    OBVIOUS
  <1>. QED
    BY <1>1, <1>2, <1>3, <1>4, <1>5 DEF AreCongruent

\* The first digits of a number are worth its remainder.
LEMMA LowDigits ==
    ASSUME NEW b \in Nat \ {0}, NEW n \in Nat, NEW v \in Nat,
           NEW l, \A j \in 0..(n - 1) : l[j] = (v \div NatPower(b, j)) % b
    PROVE  /\ Worth(l, n, b) \in Nat
           /\ v = NatPower(b, n) * (v \div NatPower(b, n)) + Worth(l, n, b)
  <1>. DEFINE T == {k \in Nat : k <= n => Worth(l, k, b) \in Nat
                                         /\ v = NatPower(b, k) * (v \div NatPower(b, k)) + Worth(l, k, b)}
  <1>1. 0 \in T
    <2>1. NatPower(b, 0) = 1 /\ Worth(l, 0, b) = 0
      BY PowerStep, WorthStep
    <2>2. v \div 1 = v /\ 1 * v = v
      OBVIOUS
    <2>. QED
      BY <2>1, <2>2
  <1>2. ASSUME NEW k \in Nat, k \in T PROVE k + 1 \in T
    <2>. SUFFICES ASSUME k + 1 <= n
                  PROVE /\ Worth(l, k + 1, b) \in Nat
                        /\ v = NatPower(b, k + 1) * (v \div NatPower(b, k + 1)) + Worth(l, k + 1, b)
      OBVIOUS
    <2>. DEFINE q == NatPower(b, k)  u == v \div q  t == u \div b  s == u % b  w == Worth(l, k, b)
    <2>1. q \in Nat \ {0} /\ NatPower(b, k + 1) = q * b
      BY PowerType, PowerStep
    <2>2. u \in Nat
      BY <2>1, DivMod
    <2>3. t \in Nat /\ s \in 0..(b - 1) /\ u = b * t + s
      <3>. HIDE DEF u
      <3>. QED
        BY <2>2, DivMod
    <2>4. v \div (q * b) = t
      BY <2>1, DivDiv
    <2>5. Worth(l, k + 1, b) = w + l[k] * q
      BY WorthStep
    <2>6. l[k] = s
      OBVIOUS
    <2>7. w \in Nat /\ v = q * u + w
      BY <1>2
    <2>. HIDE DEF q, u, t, s, w
    <2>8. q * u = q * (b * t) + q * s /\ q * (b * t) = (q * b) * t /\ q * s = s * q
      BY <2>1, <2>2, <2>3
    <2>9. (q * b) * t \in Nat /\ s * q \in Nat
      BY <2>1, <2>3
    <2>10. v = (q * b) * t + (w + s * q)
      BY <2>7, <2>8, <2>9
    <2>. QED
      BY <2>1, <2>4, <2>5, <2>6, <2>7, <2>9, <2>10
  <1>3. Nat \subseteq T
    <2>. HIDE DEF T
    <2>. QED
      BY <1>1, <1>2, Induct
  <1>. QED
    BY <1>3

\* The digits of a number below a power of the base are worth the number.
LEMMA Digits ==
    ASSUME NEW b \in Nat \ {0}, NEW n \in Nat, NEW v \in Nat, v < NatPower(b, n),
           NEW l, \A j \in 0..(n - 1) : l[j] = (v \div NatPower(b, j)) % b
    PROVE  Worth(l, n, b) = v
  <1>1. Worth(l, n, b) \in Nat /\ v = NatPower(b, n) * (v \div NatPower(b, n)) + Worth(l, n, b)
    BY LowDigits
  <1>2. v \div NatPower(b, n) = 0
    <2>1. NatPower(b, n) \in Nat \ {0}
      BY PowerType
    <2>2. v = NatPower(b, n) * 0 + v
      BY <2>1
    <2>. QED
      BY <2>1, <2>2, DivUnique
  <1>3. NatPower(b, n) * 0 = 0
    BY PowerType
  <1>. QED
    BY <1>1, <1>2, <1>3

\* BigNatVar::nat_to_limbs.
LEMMA NatToLimbsWorth ==
    ASSUME NEW n \in Nat, NEW v \in Nat
    PROVE  /\ AreLimbs(NatToLimbs(v, n), n, MaxWord)
           /\ v < NatPower(Base, n) => LimbsToNat(NatToLimbs(v, n)) = v
  <1>. DEFINE l == NatToLimbs(v, n)
  <1>1. DOMAIN l = 0..(n - 1) /\ \A j \in 0..(n - 1) : l[j] = (v \div NatPower(Base, j)) % Base
    BY DEF NatToLimbs
  <1>2. Base \in Nat \ {0} /\ MaxWord = Base - 1
    BY BaseType DEF MaxWord
  <1>. HIDE DEF l
  <1>3. ASSUME NEW j \in 0..(n - 1) PROVE l[j] \in 0..MaxWord
    <2>1. NatPower(Base, j) \in Nat \ {0}
      BY <1>2, PowerType
    <2>2. v \div NatPower(Base, j) \in Nat
      BY <2>1, DivMod
    <2>. QED
      BY <1>1, <1>2, <2>2, DivMod
  <1>4. AreLimbs(l, n, MaxWord)
    BY <1>1, <1>3 DEF AreLimbs
  <1>5. v < NatPower(Base, n) => Worth(l, n, Base) = v
    BY <1>1, <1>2, Digits
  <1>6. LimbsToNat(l) = Worth(l, n, Base)
    BY <1>1, LimbsWorth
  <1>. QED
    BY <1>4, <1>5, <1>6 DEF l

-----------------------------------------------------------------------------
(* Recursive functions.                                                    *)

\* What is defined from its value at the previous argument exists.
IsRec(f, n, v, G) == f[0] = v /\ \A k \in 1..n : f[k] = G[<<f[k - 1], k>>]

\* What is defined from its value at the previous argument exists.
LEMMA RecExists ==
    ASSUME NEW n \in Nat, NEW v \in Nat, NEW G \in [Nat \X Nat -> Nat]
    PROVE  \E f \in [0..n -> Nat] : IsRec(f, n, v, G)
  <1>. DEFINE T == {k \in Nat : \E f \in [0..k -> Nat] : IsRec(f, k, v, G)}
  <1>1. 0 \in T
    <2>. DEFINE f == [j \in 0..0 |-> v]
    <2>1. f \in [0..0 -> Nat] /\ IsRec(f, 0, v, G)
      BY DEF IsRec
    <2>. QED
      BY <2>1
  <1>2. ASSUME NEW k \in Nat, k \in T PROVE k + 1 \in T
    <2>1. PICK f \in [0..k -> Nat] : IsRec(f, k, v, G)
      BY <1>2
    <2>. DEFINE h == [j \in 0..(k + 1) |-> IF j <= k THEN f[j] ELSE G[<<f[k], k + 1>>]]
    <2>2. f[k] \in Nat /\ G[<<f[k], k + 1>>] \in Nat
      OBVIOUS
    <2>3. h \in [0..(k + 1) -> Nat]
      BY <2>2
    <2>4. h[0] = v
      BY <2>1 DEF IsRec
    <2>5. ASSUME NEW j \in 1..(k + 1) PROVE h[j] = G[<<h[j - 1], j>>]
      <3>1. CASE j <= k
        <4>1. h[j] = f[j] /\ h[j - 1] = f[j - 1]
          BY <3>1
        <4>. QED
          BY <2>1, <3>1, <4>1 DEF IsRec
      <3>2. CASE j = k + 1
        <4>1. h[j] = G[<<f[k], k + 1>>]
          BY <3>2
        <4>2. h[j - 1] = f[k]
          BY <3>2
        <4>. QED
          BY <3>2, <4>1, <4>2
      <3>. QED
        BY <3>1, <3>2
    <2>6. IsRec(h, k + 1, v, G)
      BY <2>4, <2>5 DEF IsRec
    <2>. HIDE DEF h
    <2>. QED
      BY <2>3, <2>6
  <1>3. Nat \subseteq T
    <2>. HIDE DEF T
    <2>. QED
      BY <1>1, <1>2, Induct
  <1>4. n \in T
    BY <1>3
  <1>. QED
    BY <1>4

-----------------------------------------------------------------------------
(* Powers under a modulus.                                                 *)

\* Congruent numbers have congruent powers.
LEMMA PowerCongruent ==
    ASSUME NEW q \in Nat \ {0}, NEW a \in Nat, NEW b \in Nat, AreCongruent(a, b, q), NEW e \in Nat
    PROVE  AreCongruent(NatPower(a, e), NatPower(b, e), q)
  <1>. DEFINE T == {k \in Nat : AreCongruent(NatPower(a, k), NatPower(b, k), q)}
  <1>1. 0 \in T
    BY PowerStep DEF AreCongruent
  <1>2. ASSUME NEW k \in Nat, k \in T PROVE k + 1 \in T
    <2>. DEFINE u == NatPower(a, k)  w == NatPower(b, k)
    <2>1. u \in Nat /\ w \in Nat /\ NatPower(a, k + 1) = u * a /\ NatPower(b, k + 1) = w * b
      BY PowerNat, PowerStep
    <2>2. AreCongruent(u, w, q)
      BY <1>2
    <2>. HIDE DEF u, w
    <2>3. AreCongruent(u * a, w * b, q)
      BY <2>1, <2>2, ModTimes
    <2>. QED
      BY <2>1, <2>3
  <1>3. Nat \subseteq T
    <2>. HIDE DEF T
    <2>. QED
      BY <1>1, <1>2, Induct
  <1>. QED
    BY <1>3

\* What multiplies by v once more at every argument, reducing on the way, is a
\* power of v.
Multiplies(f, n, v, q) == \A k \in 1..n : f[k] = (f[k - 1] * v) % q

\* The residues PowerSound compares with are those of the powers.
LEMMA ResiduesArePowers ==
    ASSUME NEW q \in Nat \ {0}, NEW v \in Nat, NEW n \in Nat, NEW f, f[0] = 1 % q, Multiplies(f, n, v, q),
           NEW k \in 0..n
    PROVE  f[k] = NatPower(v, k) % q
  <1>. DEFINE T == {j \in Nat : j <= n => f[j] = NatPower(v, j) % q}
  <1>1. 0 \in T
    BY PowerStep
  <1>2. ASSUME NEW j \in Nat, j \in T PROVE j + 1 \in T
    <2>. SUFFICES ASSUME j + 1 <= n PROVE f[j + 1] = NatPower(v, j + 1) % q
      OBVIOUS
    <2>. DEFINE w == NatPower(v, j)
    <2>1. w \in Nat /\ NatPower(v, j + 1) = w * v
      BY PowerNat, PowerStep
    <2>2. j + 1 \in 1..n /\ (j + 1) - 1 = j
      OBVIOUS
    <2>3. f[j + 1] = (f[j] * v) % q
      BY <2>2 DEF Multiplies
    <2>4. f[j] = w % q
      BY <1>2
    <2>. HIDE DEF w
    <2>5. ((w % q) * v) % q = (w * v) % q
      BY <2>1, ModTimesOne
    <2>. QED
      BY <2>1, <2>3, <2>4, <2>5
  <1>3. Nat \subseteq T
    <2>. HIDE DEF T
    <2>. QED
      BY <1>1, <1>2, Induct
  <1>. QED
    BY <1>3

\* The table of the powers, whose first two entries are not reduced.
IsTable(f, n, v, q) ==
    \A k \in 0..n : f[k] = IF k = 0 THEN 1 ELSE IF k = 1 THEN v ELSE (f[k - 1] * v) % q

IsEntry(f, k, v, q) ==
    /\ f[k] \in Nat /\ AreCongruent(f[k], NatPower(v, k), q)
    /\ f[k] < q \/ f[k] = 1 \/ f[k] = v

\* Entry k of the table is congruent to the k-th power.
LEMMA TableHoldsPowers ==
    ASSUME NEW q \in Nat \ {0}, NEW v \in Nat, NEW n \in Nat, NEW f, IsTable(f, n, v, q), NEW k \in 0..n
    PROVE  IsEntry(f, k, v, q)
  <1>. DEFINE T == {j \in Nat : j <= n => IsEntry(f, j, v, q)}
  <1>1. 0 \in T
    BY PowerStep DEF IsTable, IsEntry, AreCongruent
  <1>2. ASSUME NEW j \in Nat, j \in T PROVE j + 1 \in T
    <2>. SUFFICES ASSUME j + 1 <= n
                  PROVE IsEntry(f, j + 1, v, q)
      OBVIOUS
    <2>. DEFINE w == NatPower(v, j)
    <2>1. w \in Nat /\ NatPower(v, j + 1) = w * v
      BY PowerNat, PowerStep
    <2>2. j + 1 \in 0..n /\ (j + 1) - 1 = j /\ f[j] \in Nat /\ AreCongruent(f[j], w, q)
      BY <1>2 DEF IsEntry
    <2>3. CASE j = 0
      <3>1. w = 1 /\ f[j + 1] = v
        BY <2>2, <2>3, PowerStep DEF IsTable
      <3>2. 1 * v = v
        OBVIOUS
      <3>. QED
        BY <2>1, <3>1, <3>2 DEF IsEntry, AreCongruent
    <2>4. CASE j # 0
      <3>1. f[j + 1] = (f[j] * v) % q
        BY <2>2, <2>4 DEF IsTable
      <3>. HIDE DEF w
      <3>2. AreCongruent(f[j] * v, w * v, q)
        <4>1. AreCongruent(v, v, q)
          BY DEF AreCongruent
        <4>. QED
          BY <2>1, <2>2, <4>1, ModTimes
      <3>3. f[j] * v \in Nat
        BY <2>2
      <3>. DEFINE z == f[j] * v
      <3>4. z % q \in Nat /\ z % q < q /\ (z % q) % q = z % q
        <4>. HIDE DEF z
        <4>1. z \in Nat
          BY <3>3 DEF z
        <4>. QED
          BY <4>1, ModType
      <3>. QED
        BY <2>1, <3>1, <3>2, <3>4 DEF IsEntry, AreCongruent
    <2>. QED
      BY <2>3, <2>4
  <1>3. Nat \subseteq T
    <2>. HIDE DEF T
    <2>. QED
      BY <1>1, <1>2, Induct
  <1>. QED
    BY <1>3

\* Squaring n times.
Squares(f, n, q) == \A j \in 1..n : f[j] = (f[j - 1] * f[j - 1]) % q

\* Squaring w times is raising to the power 2^w.
LEMMA SquaresArePowers ==
    ASSUME NEW q \in Nat \ {0}, NEW a \in Nat, NEW n \in Nat, NEW f, f[0] = a, Squares(f, n, q), NEW k \in 0..n
    PROVE  f[k] \in Nat /\ AreCongruent(f[k], NatPower(a, NatPower(2, k)), q)
  <1>. DEFINE T == {j \in Nat : j <= n => f[j] \in Nat /\ AreCongruent(f[j], NatPower(a, NatPower(2, j)), q)}
  <1>1. 0 \in T
    <2>1. NatPower(2, 0) = 1 /\ NatPower(a, 0 + 1) = NatPower(a, 0) * a /\ NatPower(a, 0) = 1
      BY PowerStep
    <2>2. NatPower(a, 1) = a
      BY <2>1
    <2>. QED
      BY <2>1, <2>2 DEF AreCongruent
  <1>2. ASSUME NEW j \in Nat, j \in T PROVE j + 1 \in T
    <2>. SUFFICES ASSUME j + 1 <= n
                  PROVE f[j + 1] \in Nat /\ AreCongruent(f[j + 1], NatPower(a, NatPower(2, j + 1)), q)
      OBVIOUS
    <2>. DEFINE e == NatPower(2, j)  w == NatPower(a, e)  u == f[j]
    <2>1. e \in Nat /\ NatPower(2, j + 1) = e * 2 /\ w \in Nat
      BY PowerNat, PowerStep
    <2>2. j + 1 \in 1..n /\ (j + 1) - 1 = j /\ u \in Nat /\ AreCongruent(u, w, q)
      BY <1>2
    <2>3. f[j + 1] = (u * u) % q
      BY <2>2 DEF Squares
    <2>4. NatPower(a, e + e) = w * w
      BY <2>1, PowerAdd
    <2>5. e * 2 = e + e
      BY <2>1
    <2>. HIDE DEF e, w, u
    <2>6. AreCongruent(u * u, w * w, q)
      BY <2>1, <2>2, ModTimes
    <2>. DEFINE z == u * u
    <2>7. z \in Nat
      BY <2>2
    <2>8. z % q \in Nat /\ (z % q) % q = z % q
      <3>. HIDE DEF z
      <3>. QED
        BY <2>7, ModType
    <2>. QED
      BY <2>1, <2>3, <2>4, <2>5, <2>6, <2>8 DEF AreCongruent
  <1>3. Nat \subseteq T
    <2>. HIDE DEF T
    <2>. QED
      BY <1>1, <1>2, Induct
  <1>. QED
    BY <1>3

-----------------------------------------------------------------------------
(* The bits of the exponent.                                               *)

\* Bit j of group k.
LEMMA PositionIn ==
    ASSUME NEW g \in Nat \ {0}, NEW k \in Nat, NEW j \in 0..(g - 1)
    PROVE  g * k + j \in Nat /\ (g * k + j) \div g = k /\ (g * k + j) % g = j
  <1>1. g * k + j \in Nat
    OBVIOUS
  <1>. QED
    BY <1>1, DivUnique

\* The exponent as pow_mod reads it: its limbs fit in the bits given.
IsExponent ==
    /\ AreLimbs(y, NLimbs, MaxWord) /\ expBits \in Nat \ {0}
    /\ FitsInBits

\* The bits of an exponent in range.
LEMMA BitType ==
    ASSUME IsExponent, NEW j \in 0..(LimbWidth * NLimbs - 1)
    PROVE  Bit(j) \in {0, 1} /\ j \div LimbWidth \in 0..(NLimbs - 1)
  <1>. DEFINE k == j \div LimbWidth  r == j % LimbWidth
  <1>1. LimbWidth \in Nat \ {0} /\ NLimbs \in Nat \ {0} /\ LimbWidth * NLimbs \in Nat
    BY LimbAssumption
  <1>2. k \in Nat /\ r \in 0..(LimbWidth - 1) /\ j = LimbWidth * k + r
    <2>1. j \in Nat
      BY <1>1
    <2>. QED
      BY <1>1, <2>1, DivMod
  <1>. HIDE DEF k, r
  <1>3. k < NLimbs
    <2>1. k >= NLimbs => LimbWidth * k >= LimbWidth * NLimbs
      BY <1>1, <1>2
    <2>2. LimbWidth * k \in Nat
      BY <1>1, <1>2
    <2>. QED
      BY <1>1, <1>2, <2>1, <2>2
  <1>4. y[k] \in Nat
    <2>1. k \in 0..(NLimbs - 1)
      BY <1>1, <1>2, <1>3
    <2>2. y[k] \in 0..MaxWord
      BY <2>1 DEF IsExponent, AreLimbs
    <2>. QED
      BY <2>2, BaseType
  <1>5. NatPower(2, r) \in Nat \ {0}
    BY <1>2, PowerType
  <1>6. y[k] \div NatPower(2, r) \in Nat
    BY <1>4, <1>5, DivMod
  <1>7. Bit(j) = (y[k] \div NatPower(2, r)) % 2
    BY DEF Bit, k, r
  <1>. DEFINE z == y[k] \div NatPower(2, r)
  <1>8. z % 2 \in 0..1
    <2>. HIDE DEF z
    <2>1. z \in Nat
      BY <1>6 DEF z
    <2>. QED
      BY <2>1
  <1>. QED
    BY <1>1, <1>2, <1>3, <1>7, <1>8 DEF k

\* No bit is set past the width the limbs were checked against.
LEMMA HighBits ==
    ASSUME IsExponent, NEW j \in 0..(LimbWidth * NLimbs - 1), expBits <= j
    PROVE  Bit(j) = 0
  <1>. DEFINE k == j \div LimbWidth  r == j % LimbWidth  h == expBits \div LimbWidth  t == expBits % LimbWidth
  <1>1. LimbWidth \in Nat \ {0} /\ NLimbs \in Nat \ {0} /\ LimbWidth * NLimbs \in Nat
    BY LimbAssumption
  <1>2. k \in Nat /\ r \in 0..(LimbWidth - 1) /\ j = LimbWidth * k + r
    <2>1. j \in Nat
      BY <1>1
    <2>. QED
      BY <1>1, <2>1, DivMod
  <1>3. h \in Nat /\ t \in 0..(LimbWidth - 1) /\ expBits = LimbWidth * h + t
    BY <1>1, DivMod DEF IsExponent
  <1>4. k \in 0..(NLimbs - 1)
    BY BitType
  <1>5. WidthOf(k) = IF k < h THEN LimbWidth ELSE IF k = h THEN t ELSE 0
    BY DEF WidthOf
  <1>6. DOMAIN y = 0..(NLimbs - 1) /\ y[k] \in Nat
    BY <1>4, BaseType DEF IsExponent, AreLimbs
  <1>7. y[k] < NatPower(2, WidthOf(k))
    BY <1>4, <1>6 DEF IsExponent, FitsInBits
  <1>8. Bit(j) = (y[k] \div NatPower(2, r)) % 2
    BY DEF Bit
  <1>. HIDE DEF k, r, h, t
  <1>9. h <= k
    <2>1. k + 1 <= h => LimbWidth * (k + 1) <= LimbWidth * h
      BY <1>1, <1>2, <1>3
    <2>2. LimbWidth * (k + 1) = LimbWidth * k + LimbWidth /\ LimbWidth * k \in Nat /\ LimbWidth * h \in Nat
      BY <1>1, <1>2, <1>3
    <2>. QED
      BY <1>1, <1>2, <1>3, <2>1, <2>2
  <1>10. WidthOf(k) \in Nat /\ WidthOf(k) <= r
    <2>1. k = h => t <= r
      BY <1>1, <1>2, <1>3
    <2>. QED
      BY <1>2, <1>3, <1>5, <1>9, <2>1
  <1>11. NatPower(2, WidthOf(k)) <= NatPower(2, r) /\ NatPower(2, r) \in Nat \ {0}
         /\ NatPower(2, WidthOf(k)) \in Nat
    BY <1>2, <1>10, PowerGrows, PowerType
  <1>12. y[k] \div NatPower(2, r) = 0
    <2>1. y[k] < NatPower(2, r)
      BY <1>6, <1>7, <1>11
    <2>2. y[k] = NatPower(2, r) * 0 + y[k]
      BY <1>6, <1>11
    <2>. QED
      BY <1>6, <1>11, <2>1, <2>2, DivUnique
  <1>. QED
    BY <1>8, <1>12

\* The bits read, and zeros above them.
BitOrZero(j) == IF j < NumBits THEN Bit(j) ELSE 0

\* pow_mod reads no bit past the limbs.
LEMMA NumBitsType ==
    ASSUME IsExponent
    PROVE  /\ NumBits \in Nat \ {0} /\ NumBits <= LimbWidth * NLimbs /\ LimbWidth * NLimbs \in Nat
           /\ \A j \in Nat : BitOrZero(j) \in {0, 1}
  <1>1. LimbWidth \in Nat \ {0} /\ NLimbs \in Nat \ {0}
    BY LimbAssumption
  <1>2. NLimbs * LimbWidth \in Nat \ {0} /\ NLimbs * LimbWidth = LimbWidth * NLimbs
    BY <1>1
  <1>3. NumBits \in Nat \ {0} /\ NumBits <= LimbWidth * NLimbs
    BY <1>2 DEF NumBits, IsExponent
  <1>4. ASSUME NEW j \in Nat PROVE BitOrZero(j) \in {0, 1}
    <2>1. j < NumBits => j \in 0..(LimbWidth * NLimbs - 1)
      BY <1>2, <1>3
    <2>2. j < NumBits => Bit(j) \in {0, 1}
      BY <2>1, BitType
    <2>. QED
      BY <2>2 DEF BitOrZero
  <1>. QED
    BY <1>2, <1>3, <1>4

\* Together they are the exponent.
LEMMA ExponentBits ==
    ASSUME IsExponent, NEW d \in Nat, NumBits <= d
    PROVE  Worth([j \in 0..(d - 1) |-> BitOrZero(j)], d, 2) = Y
  <1>. DEFINE e == LimbWidth * NLimbs
              l == [j \in 0..(e - 1) |-> Bit(j)]
              s == [j \in 0..(NumBits - 1) |-> Bit(j)]
              r == [j \in 0..(d - 1) |-> BitOrZero(j)]
  <1>1. LimbWidth \in Nat \ {0} /\ NLimbs \in Nat \ {0}
    BY LimbAssumption
  <1>2. e \in Nat /\ NumBits \in Nat \ {0} /\ NumBits <= e
    BY NumBitsType
  <1>3. \A j \in 0..(e - 1) : l[j] \in Nat /\ (expBits <= j => l[j] = 0)
    BY BitType, HighBits
  <1>4. IsInts(l, e)
    BY <1>3 DEF IsInts
  <1>5. AreGroups(y, l, LimbWidth, NLimbs, 2)
    <2>. SUFFICES ASSUME NEW k \in 0..(NLimbs - 1)
                  PROVE y[k] = Worth([j \in 0..(LimbWidth - 1) |-> l[LimbWidth * k + j]], LimbWidth, 2)
      BY DEF AreGroups
    <2>. DEFINE u == [j \in 0..(LimbWidth - 1) |-> l[LimbWidth * k + j]]
    <2>1. y[k] \in Nat /\ y[k] < NatPower(2, LimbWidth)
      <3>1. y[k] \in 0..MaxWord
        BY DEF IsExponent, AreLimbs
      <3>2. MaxWord = Base - 1 /\ Base \in Nat
        BY BaseType DEF MaxWord
      <3>3. y[k] < Base /\ y[k] \in Nat
        BY <3>1, <3>2
      <3>. QED
        BY <3>3 DEF Base
    <2>2. ASSUME NEW j \in 0..(LimbWidth - 1) PROVE u[j] = (y[k] \div NatPower(2, j)) % 2
      <3>1. /\ LimbWidth * k + j \in Nat /\ (LimbWidth * k + j) \div LimbWidth = k
            /\ (LimbWidth * k + j) % LimbWidth = j
        BY <1>1, PositionIn
      <3>2. LimbWidth * k + j \in 0..(e - 1)
        <4>1. LimbWidth * (k + 1) <= e
          BY <1>1
        <4>2. LimbWidth * (k + 1) = LimbWidth * k + LimbWidth /\ LimbWidth * k \in Nat
          BY <1>1
        <4>. QED
          BY <1>1, <1>2, <4>1, <4>2
      <3>3. u[j] = l[LimbWidth * k + j]
        OBVIOUS
      <3>4. l[LimbWidth * k + j] = Bit(LimbWidth * k + j)
        BY <3>2
      <3>. QED
        BY <3>1, <3>3, <3>4 DEF Bit
    <2>. HIDE DEF u
    <2>3. Worth(u, LimbWidth, 2) = y[k]
      BY <1>1, <2>1, <2>2, Digits
    <2>. QED
      BY <2>3 DEF u
  <1>6. Worth(l, e, 2) = Worth(y, NLimbs, NatPower(2, LimbWidth))
    <2>. HIDE DEF l
    <2>. QED
      BY <1>1, <1>4, <1>5, WorthGrouped
  <1>7. Worth(y, NLimbs, NatPower(2, LimbWidth)) = Y
    <2>1. DOMAIN y = 0..(NLimbs - 1)
      BY DEF IsExponent, AreLimbs
    <2>. QED
      BY <1>1, <2>1, LimbsWorth DEF Y, Base
  <1>8. \A j \in 0..(NumBits - 1) : s[j] = l[j] /\ s[j] = r[j]
    BY <1>2 DEF BitOrZero
  <1>9. \A j \in NumBits..(e - 1) : l[j] = 0
    <2>1. NLimbs * LimbWidth = e
      BY <1>1
    <2>2. NumBits = IF expBits < e THEN expBits ELSE e
      BY <2>1 DEF NumBits
    <2>3. expBits \in Nat
      BY DEF IsExponent
    <2>. HIDE DEF e, l
    <2>. QED
      BY <1>2, <1>3, <2>2, <2>3
  <1>10. \A j \in NumBits..(d - 1) : r[j] = 0
    BY <1>2 DEF BitOrZero
  <1>11. IsInts(s, NumBits)
    BY <1>2, <1>3, <1>8 DEF IsInts
  <1>. HIDE DEF e, l, s, r
  <1>12. Worth(l, e, 2) = Worth(s, NumBits, 2)
    BY <1>2, <1>8, <1>9, <1>11, WorthPadded
  <1>13. Worth(r, d, 2) = Worth(s, NumBits, 2)
    BY <1>2, <1>8, <1>10, <1>11, WorthPadded
  <1>. QED
    BY <1>6, <1>7, <1>12, <1>13 DEF r

-----------------------------------------------------------------------------
(* The chunks of the exponent.                                             *)

\* The window has one to six bits.
LEMMA WindowType == Window \in 1..6
  BY DEF Window

\* The index of a chunk: what its bits are worth.
Index(c) == Worth([j \in 0..(Window - 1) |-> BitOrZero(Window * c + j)], Window, 2)

\* The index a chunk selects with.
LEMMA IndexType ==
    ASSUME IsExponent, NEW c \in Nat
    PROVE  Index(c) \in Nat /\ Index(c) <= NatPower(2, Window) - 1
  <1>. DEFINE u == [j \in 0..(Window - 1) |-> BitOrZero(Window * c + j)]
  <1>1. Window \in Nat
    BY WindowType
  <1>2. \A j \in 0..(Window - 1) : u[j] \in {0, 1}
    <2>1. \A j \in 0..(Window - 1) : Window * c + j \in Nat
      BY <1>1
    <2>. QED
      BY <2>1, NumBitsType
  <1>. HIDE DEF u
  <1>3. IsNats(u, Window) /\ \A j \in 0..(Window - 1) : u[j] < 2
    BY <1>2 DEF IsNats
  <1>4. Worth(u, Window, 2) \in Nat /\ Worth(u, Window, 2) < NatPower(2, Window)
    BY <1>1, <1>3, WorthType, WorthBelow
  <1>5. NatPower(2, Window) \in Nat
    BY <1>1, PowerType
  <1>. QED
    BY <1>4, <1>5 DEF Index, u

\* The chunks hold every bit read.
LEMMA LastChunkType ==
    ASSUME IsExponent
    PROVE  /\ LastChunk \in Nat /\ LastChunk + 1 = GroupCount(NumBits, Window)
           /\ NumBits <= Window * (LastChunk + 1) /\ Window * (LastChunk + 1) \in Nat
  <1>1. NumBits \in Nat \ {0} /\ Window \in Nat \ {0}
    BY NumBitsType, WindowType
  <1>2. GroupCount(NumBits, Window) \in Nat \ {0} /\ NumBits <= Window * GroupCount(NumBits, Window)
        /\ Window * GroupCount(NumBits, Window) \in Nat
    BY <1>1, GroupsCover
  <1>3. LastChunk = GroupCount(NumBits, Window) - 1
    BY DEF LastChunk, GroupCount
  <1>. QED
    BY <1>2, <1>3

\* The bits of a chunk added up over all positions, as select_index does.
Summand(c, j) == IF j \in ChunkBits(c) THEN Bit(j) * NatPower(2, j - c * Window) ELSE 0

\* The index as select_index forms it, bit by bit.
LEMMA SelectedIndex ==
    ASSUME IsExponent, NEW c \in 0..LastChunk
    PROVE  Total([j \in 0..(NumBits - 1) |-> Summand(c, j)], NumBits) = Index(c)
  <1>. DEFINE w == Window
              d == w * (LastChunk + 1)
              low == w * c
              s == [j \in 0..(NumBits - 1) |-> Summand(c, j)]
              r == [j \in 0..(d - 1) |-> IF j < NumBits THEN Summand(c, j) ELSE 0]
              u == [j \in 0..(w - 1) |-> BitOrZero(low + j)]
              t == [j \in 0..(w - 1) |-> u[j] * NatPower(2, j)]
              v == [j \in 0..((d - low) - 1) |-> r[low + j]]
  <1>1. w \in Nat \ {0} /\ NumBits \in Nat \ {0} /\ LastChunk \in Nat /\ c \in Nat
    BY WindowType, NumBitsType, LastChunkType
  <1>2. low \in Nat /\ d \in Nat /\ low + w <= d /\ NumBits <= d /\ c * w = low /\ (c + 1) * w = low + w
    <2>1. w * (c + 1) <= d
      BY <1>1
    <2>2. w * (c + 1) = low + w /\ w * (c + 1) = (c + 1) * w /\ c * w = low /\ low \in Nat
      BY <1>1
    <2>. QED
      BY <2>1, <2>2, LastChunkType
  <1>3. \A j \in Nat : j \in ChunkBits(c) <=> low <= j /\ j < low + w /\ j < NumBits
    <2>1. ChunkBits(c) = {j \in (c * w)..((c + 1) * w - 1) : j < NumBits}
      BY DEF ChunkBits
    <2>. HIDE DEF low, w
    <2>. QED
      BY <1>1, <1>2, <2>1
  <1>4. \A j \in Nat : Summand(c, j) = IF low <= j /\ j < low + w /\ j < NumBits
                                       THEN Bit(j) * NatPower(2, j - low) ELSE 0
    BY <1>2, <1>3 DEF Summand
  <1>5. \A j \in 0..(w - 1) : u[j] = BitOrZero(low + j) /\ u[j] \in Nat /\ NatPower(2, j) \in Nat
    <2>1. \A j \in 0..(w - 1) : u[j] = BitOrZero(low + j)
      OBVIOUS
    <2>. HIDE DEF low, u
    <2>2. \A j \in 0..(w - 1) : low + j \in Nat /\ j \in Nat
      BY <1>2
    <2>3. \A j \in 0..(w - 1) : NatPower(2, j) \in Nat
      BY <2>2, PowerType
    <2>4. \A j \in 0..(w - 1) : BitOrZero(low + j) \in {0, 1}
      BY <2>2, NumBitsType
    <2>. QED
      BY <2>1, <2>3, <2>4
  <1>6. \A j \in 0..(w - 1) : t[j] = u[j] * NatPower(2, j) /\ t[j] \in Nat
    <2>1. \A p, q \in Nat : p * q \in Nat
      OBVIOUS
    <2>2. \A j \in 0..(w - 1) : t[j] = u[j] * NatPower(2, j)
      OBVIOUS
    <2>. HIDE DEF t, u
    <2>. QED
      BY <1>5, <2>1, <2>2
  <1>7. ASSUME NEW j \in 0..(w - 1) PROVE v[j] = t[j]
    <2>1. low + j \in 0..(d - 1) /\ j \in 0..((d - low) - 1) /\ low + j \in Nat /\ (low + j) - low = j
          /\ low <= low + j /\ low + j < low + w
      <3>. HIDE DEF low, d, w
      <3>. QED
        BY <1>1, <1>2
    <2>2. v[j] = IF low + j < NumBits THEN Summand(c, low + j) ELSE 0
      BY <2>1
    <2>3. u[j] = IF low + j < NumBits THEN Bit(low + j) ELSE 0
      BY DEF BitOrZero
    <2>4. NatPower(2, j) \in Nat
      BY <1>5
    <2>5. Summand(c, low + j) = IF low + j < NumBits THEN Bit(low + j) * NatPower(2, j) ELSE 0
      BY <1>4, <2>1
    <2>6. t[j] = u[j] * NatPower(2, j)
      OBVIOUS
    <2>. HIDE DEF v, u, t
    <2>. QED
      BY <2>2, <2>3, <2>4, <2>5, <2>6
  <1>8. \A j \in w..((d - low) - 1) : v[j] = 0
    <2>. SUFFICES ASSUME NEW j \in w..((d - low) - 1) PROVE v[j] = 0
      OBVIOUS
    <2>1. low + j \in 0..(d - 1) /\ j \in 0..((d - low) - 1) /\ low + j \in Nat /\ ~(low + j < low + w)
      BY <1>1, <1>2
    <2>2. v[j] = IF low + j < NumBits THEN Summand(c, low + j) ELSE 0
      BY <2>1
    <2>3. Summand(c, low + j) = 0
      BY <1>4, <2>1
    <2>. QED
      BY <2>2, <2>3
  <1>9. \A j \in 0..(low - 1) : r[j] = 0
    <2>. SUFFICES ASSUME NEW j \in 0..(low - 1) PROVE r[j] = 0
      OBVIOUS
    <2>1. j \in 0..(d - 1) /\ j \in Nat /\ ~(low <= j)
      BY <1>1, <1>2
    <2>2. Summand(c, j) = 0
      BY <1>4, <2>1
    <2>. QED
      BY <2>1, <2>2
  <1>10. \A j \in 0..(d - 1) : r[j] \in Nat
    <2>. SUFFICES ASSUME NEW j \in 0..(d - 1) PROVE r[j] \in Nat
      OBVIOUS
    <2>1. CASE j < low
      <3>1. j \in 0..(low - 1)
        <4>. HIDE DEF low, d
        <4>. QED
          BY <1>2, <2>1
      <3>. HIDE DEF r, low
      <3>. QED
        BY <1>9, <3>1
    <2>2. CASE low <= j
      <3>. DEFINE k == j - low
      <3>1. k \in 0..((d - low) - 1) /\ low + k = j
        BY <1>2, <2>2
      <3>2. v[k] = r[j]
        BY <3>1
      <3>. HIDE DEF k, v, t, w, low, d
      <3>3. v[k] \in Nat
        <4>1. CASE k < w
          <5>1. k \in 0..(w - 1)
            BY <1>1, <1>2, <3>1, <4>1
          <5>. QED
            BY <1>6, <1>7, <5>1
        <4>2. CASE ~(k < w)
          <5>1. k \in w..((d - low) - 1)
            BY <1>1, <3>1, <4>2
          <5>. QED
            BY <1>8, <5>1
        <4>. QED
          BY <4>1, <4>2
      <3>. QED
        BY <3>2, <3>3
    <2>. QED
      BY <1>2, <2>1, <2>2
  <1>11. \A j \in 0..(NumBits - 1) : r[j] = s[j]
    BY <1>1, <1>2
  <1>12. \A j \in NumBits..(d - 1) : r[j] = 0
    BY <1>1, <1>2
  <1>13. IsInts(s, NumBits)
    <2>. HIDE DEF s, r
    <2>. QED
      BY <1>1, <1>2, <1>10, <1>11 DEF IsInts
  <1>14. \A j \in 0..((d - low) - 1) : v[j] = r[low + j]
    OBVIOUS
  <1>15. IsInts(r, low + (d - low)) /\ low + (d - low) = d /\ d - low \in Nat /\ w <= d - low
    <2>1. low + (d - low) = d /\ d - low \in Nat /\ w <= d - low
      <3>. HIDE DEF low, d, w
      <3>. QED
        BY <1>1, <1>2
    <2>. HIDE DEF low, d, w, r
    <2>. QED
      BY <1>10, <2>1 DEF IsInts
  <1>16. IsInts(t, w)
    <2>. HIDE DEF t
    <2>. QED
      BY <1>6 DEF IsInts
  <1>17. Index(c) = Total(t, w)
    <2>1. u = [j \in 0..(Window - 1) |-> BitOrZero(Window * c + j)]
      OBVIOUS
    <2>2. Worth(u, w, 2) = Total(t, w)
      BY DEF Worth
    <2>. QED
      BY <2>1, <2>2 DEF Index
  <1>. HIDE DEF s, r, v, t, u, d, low, w
  <1>18. Total(r, d) = Total(s, NumBits)
    BY <1>1, <1>2, <1>11, <1>12, <1>13, TotalPadded
  <1>19. Total(r, low + (d - low)) = Total(r, low) + Total(v, d - low)
    BY <1>2, <1>14, <1>15, TotalSplit
  <1>20. Total(r, low) = 0
    BY <1>2, <1>9, TotalZero
  <1>21. Total(v, d - low) = Total(t, w)
    BY <1>1, <1>7, <1>8, <1>15, <1>16, TotalPadded
  <1>22. Total(t, w) \in Int
    BY <1>1, <1>16, TotalType
  <1>. QED
    BY <1>15, <1>17, <1>18, <1>19, <1>20, <1>21, <1>22 DEF s

-----------------------------------------------------------------------------
(* Exponentiation.                                                         *)

\* The table of powers satisfies its recursion.
LEMMA TableExists ==
    ASSUME X \in Nat, M \in Nat \ {0}
    PROVE  IsTable(BasePowers, NatPower(2, Window) - 1, X, M)
  <1>. DEFINE n == NatPower(2, Window) - 1
              S(f) == f = [k \in 0..n |-> IF k = 0 THEN 1 ELSE IF k = 1 THEN X ELSE (f[k - 1] * X) % M]
              G == [p \in Nat \X Nat |-> IF p[2] = 1 THEN X ELSE (p[1] * X) % M]
  <1>1. n \in Nat
    <2>1. NatPower(2, Window) \in Nat \ {0}
      BY WindowType, PowerType
    <2>. QED
      BY <2>1
  <1>2. \A a \in Nat : (a * X) % M \in Nat
    <2>1. \A a \in Nat : a * X \in Nat
      OBVIOUS
    <2>. QED
      BY <2>1, ModType
  <1>3. G \in [Nat \X Nat -> Nat] /\ \A a, k \in Nat : G[<<a, k>>] = IF k = 1 THEN X ELSE (a * X) % M
    BY <1>2
  <1>. HIDE DEF G
  <1>40. PICK f \in [0..n -> Nat] : IsRec(f, n, 1, G)
    <2>. HIDE DEF n
    <2>. QED
      BY <1>1, <1>3, RecExists
  <1>4. f[0] = 1 /\ \A k \in 1..n : f[k] = G[<<f[k - 1], k>>]
    BY <1>40 DEF IsRec
  <1>5. ASSUME NEW k \in 0..n
        PROVE f[k] = IF k = 0 THEN 1 ELSE IF k = 1 THEN X ELSE (f[k - 1] * X) % M
    <2>. HIDE DEF n
    <2>1. CASE k = 0
      BY <1>4, <2>1
    <2>2. CASE k # 0
      <3>1. k \in 1..n /\ k - 1 \in 0..n
        BY <1>1, <2>2
      <3>2. f[k - 1] \in Nat /\ k \in Nat
        BY <1>4, <3>1
      <3>3. f[k] = G[<<f[k - 1], k>>]
        BY <1>4, <3>1
      <3>4. G[<<f[k - 1], k>>] = IF k = 1 THEN X ELSE (f[k - 1] * X) % M
        BY <1>3, <3>2
      <3>. QED
        BY <2>2, <3>3, <3>4
    <2>. QED
      BY <2>1, <2>2
  <1>6. S(f)
    <2>. HIDE DEF n
    <2>1. f = [k \in 0..n |-> f[k]]
      BY <1>4
    <2>. QED
      BY <1>5, <2>1
  <1>. DEFINE power == CHOOSE g : S(g)
  <1>7. BasePowers = power
    BY DEF BasePowers
  <1>8. S(power)
    <2>. HIDE DEF S
    <2>. QED
      BY <1>6
  <1>. HIDE DEF power
  <1>9. \A k \in 0..n : power[k] = IF k = 0 THEN 1 ELSE IF k = 1 THEN X ELSE (power[k - 1] * X) % M
    <2>. HIDE DEF n
    <2>. QED
      BY <1>8
  <1>. QED
    BY <1>7, <1>9 DEF IsTable

\* The power a chunk selects is that of its index.
LEMMA SelectedIsPower ==
    ASSUME X \in Nat, M \in Nat \ {0}, IsExponent, NEW c \in 0..LastChunk
    PROVE  /\ SelectedPower(c) \in Nat /\ AreCongruent(SelectedPower(c), NatPower(X, Index(c)), M)
           /\ SelectedPower(c) < M \/ SelectedPower(c) = 1 \/ SelectedPower(c) = X
  <1>. DEFINE n == NatPower(2, Window) - 1
  <1>1. n \in Nat
    <2>1. NatPower(2, Window) \in Nat \ {0}
      BY WindowType, PowerType
    <2>. QED
      BY <2>1
  <1>2. c \in Nat
    BY LastChunkType
  <1>3. Index(c) \in 0..n
    BY <1>1, <1>2, IndexType
  <1>4. SelectedPower(c) = BasePowers[Index(c)]
    <2>1. SelectedPower(c) = BasePowers[Total([j \in 0..(NumBits - 1) |-> Summand(c, j)], NumBits)]
      BY DEF SelectedPower, Summand
    <2>. QED
      BY <2>1, SelectedIndex
  <1>5. IsTable(BasePowers, n, X, M)
    BY TableExists
  <1>. HIDE DEF n
  <1>6. IsEntry(BasePowers, Index(c), X, M)
    BY <1>1, <1>3, <1>5, TableHoldsPowers
  <1>. QED
    BY <1>4, <1>6 DEF IsEntry

\* The exponent from chunk c on.
From(c) == Worth([j \in 0..(LastChunk - c) |-> Index(c + j)], LastChunk - c + 1, NatPower(2, Window))

\* A chunk and what stands above it.
LEMMA FromStep ==
    ASSUME IsExponent, NEW c \in 0..LastChunk
    PROVE  /\ From(c) \in Nat
           /\ c = LastChunk => From(c) = Index(c)
           /\ c < LastChunk => From(c) = Index(c) + NatPower(2, Window) * From(c + 1)
  <1>. DEFINE q == NatPower(2, Window)  n == LastChunk - c
              l == [j \in 0..n |-> Index(c + j)]
              r == [j \in 0..(LastChunk - (c + 1)) |-> Index((c + 1) + j)]
  <1>1. q \in Nat \ {0}
    BY WindowType, PowerType
  <1>2. LastChunk \in Nat /\ c \in Nat /\ n \in Nat
    BY LastChunkType
  <1>3. \A j \in 0..n : l[j] \in Nat /\ l[j] = Index(c + j)
    <2>1. \A j \in 0..n : c + j \in Nat
      BY <1>2
    <2>. QED
      BY <2>1, IndexType
  <1>4. IsNats(l, n + 1) /\ IsInts(l, n + 1) /\ IsInts(l, 1 + n)
    <2>. HIDE DEF l, n
    <2>. QED
      BY <1>2, <1>3 DEF IsNats, IsInts
  <1>5. l[0] = Index(c) /\ l[0] \in Nat
    BY <1>2, <1>3
  <1>. HIDE DEF l, q
  <1>6. From(c) = Worth(l, n + 1, q)
    BY DEF From, l, q
  <1>7. From(c) \in Nat
    BY <1>1, <1>2, <1>4, <1>6, WorthType
  <1>8. Worth(l, 1, q) = l[0]
    <2>1. Worth(l, 0 + 1, q) = Worth(l, 0, q) + l[0] * NatPower(q, 0) /\ Worth(l, 0, q) = 0 /\ NatPower(q, 0) = 1
      BY WorthStep, PowerStep
    <2>2. l[0] * 1 = l[0] /\ 0 + l[0] = l[0]
      BY <1>5
    <2>. QED
      BY <2>1, <2>2
  <1>9. c = LastChunk => From(c) = Index(c)
    <2>1. c = LastChunk => n + 1 = 1
      BY <1>2
    <2>. QED
      BY <1>5, <1>6, <1>8, <2>1
  <1>10. ASSUME c < LastChunk PROVE From(c) = Index(c) + q * From(c + 1)
    <2>1. IsPart(r, l, 1, n)
      <3>. SUFFICES ASSUME NEW j \in 0..(n - 1) PROVE r[j] = l[1 + j]
        BY DEF IsPart
      <3>1. j \in 0..(LastChunk - (c + 1)) /\ 1 + j \in 0..n /\ c + (1 + j) = (c + 1) + j
        BY <1>2
      <3>2. r[j] = Index((c + 1) + j)
        BY <3>1
      <3>3. l[1 + j] = Index(c + (1 + j))
        BY <1>3, <3>1
      <3>. QED
        BY <3>1, <3>2, <3>3
    <2>2. From(c + 1) = Worth(r, n, q)
      <3>1. LastChunk - (c + 1) + 1 = n
        BY <1>2
      <3>. HIDE DEF n
      <3>. QED
        BY <3>1 DEF From, q
    <2>. HIDE DEF r, n
    <2>3. Worth(l, 1 + n, q) = Worth(l, 1, q) + NatPower(q, 1) * Worth(r, n, q)
      BY <1>1, <1>2, <1>4, <2>1, WorthSplit
    <2>4. NatPower(q, 1) = q
      <3>1. NatPower(q, 0 + 1) = NatPower(q, 0) * q /\ NatPower(q, 0) = 1
        BY PowerStep
      <3>. QED
        BY <1>1, <3>1
    <2>5. 1 + n = n + 1
      BY <1>2
    <2>. QED
      BY <1>5, <1>6, <1>8, <2>2, <2>3, <2>4, <2>5
  <1>. QED
    BY <1>7, <1>9, <1>10 DEF q

\* From the lowest chunk on stands the whole exponent.
LEMMA FromStart == ASSUME IsExponent PROVE From(0) = Y
  <1>. DEFINE w == Window  n == LastChunk + 1  d == w * n
              s == [j \in 0..(d - 1) |-> BitOrZero(j)]
              l == [j \in 0..(LastChunk - 0) |-> Index(0 + j)]
  <1>1. w \in Nat \ {0} /\ LastChunk \in Nat /\ n \in Nat /\ d \in Nat /\ NumBits <= d
    BY WindowType, LastChunkType
  <1>2. Worth(s, d, 2) = Y
    BY <1>1, ExponentBits
  <1>3. ASSUME NEW k \in 0..(n - 1)
        PROVE l[k] = Worth([j \in 0..(w - 1) |-> s[w * k + j]], w, 2)
    <2>1. k \in 0..(LastChunk - 0) /\ 0 + k = k
      BY <1>1
    <2>2. l[k] = Index(k)
      BY <2>1
    <2>3. ASSUME NEW j \in 0..(w - 1) PROVE s[w * k + j] = BitOrZero(w * k + j)
      <3>1. w * (k + 1) <= d
        BY <1>1
      <3>2. w * (k + 1) = w * k + w /\ w * k \in Nat
        BY <1>1
      <3>. HIDE DEF w, d
      <3>3. w * k + j \in 0..(d - 1)
        BY <1>1, <3>1, <3>2
      <3>. QED
        BY <3>3
    <2>4. [j \in 0..(w - 1) |-> s[w * k + j]] = [j \in 0..(w - 1) |-> BitOrZero(w * k + j)]
      <3>. HIDE DEF s
      <3>. QED
        BY <2>3
    <2>. QED
      BY <2>2, <2>4 DEF Index
  <1>4. AreGroups(l, s, w, n, 2)
    <2>. HIDE DEF l, s, w, n
    <2>. QED
      BY <1>3 DEF AreGroups
  <1>5. IsInts(s, w * n)
    <2>1. \A j \in 0..(d - 1) : s[j] = BitOrZero(j) /\ j \in Nat
      BY <1>1
    <2>. HIDE DEF s
    <2>. QED
      BY <2>1, NumBitsType DEF IsInts
  <1>6. From(0) = Worth(l, n, NatPower(2, w))
    <2>1. LastChunk - 0 + 1 = n
      BY <1>1
    <2>. HIDE DEF n
    <2>. QED
      BY <2>1 DEF From
  <1>. HIDE DEF l, s, w, n
  <1>7. Worth(s, w * n, 2) = Worth(l, n, NatPower(2, w))
    BY <1>1, <1>4, <1>5, WorthGrouped
  <1>. QED
    BY <1>2, <1>6, <1>7

\* A recursive function over 0..n is what its equation says at every argument.
LEMMA SquaresExist ==
    ASSUME NEW q \in Nat \ {0}, NEW a \in Nat, NEW n \in Nat,
           NEW sq, sq = CHOOSE f : f = [j \in 0..n |-> IF j = 0 THEN a ELSE (f[j - 1] * f[j - 1]) % q]
    PROVE  sq[0] = a /\ Squares(sq, n, q)
  <1>. DEFINE S(f) == f = [j \in 0..n |-> IF j = 0 THEN a ELSE (f[j - 1] * f[j - 1]) % q]
              G == [p \in Nat \X Nat |-> (p[1] * p[1]) % q]
  <1>1. \A u \in Nat : (u * u) % q \in Nat
    <2>1. \A u \in Nat : u * u \in Nat
      OBVIOUS
    <2>. QED
      BY <2>1, ModType
  <1>2. G \in [Nat \X Nat -> Nat] /\ \A u, k \in Nat : G[<<u, k>>] = (u * u) % q
    BY <1>1
  <1>. HIDE DEF G
  <1>3. PICK f \in [0..n -> Nat] : IsRec(f, n, a, G)
    BY <1>2, RecExists
  <1>4. ASSUME NEW k \in 0..n PROVE f[k] = IF k = 0 THEN a ELSE (f[k - 1] * f[k - 1]) % q
    <2>1. CASE k = 0
      BY <1>3, <2>1 DEF IsRec
    <2>2. CASE k # 0
      <3>1. k \in 1..n /\ k - 1 \in 0..n
        BY <2>2
      <3>2. f[k - 1] \in Nat /\ k \in Nat
        BY <3>1
      <3>3. f[k] = G[<<f[k - 1], k>>]
        BY <1>3, <3>1 DEF IsRec
      <3>. QED
        BY <1>2, <2>2, <3>2, <3>3
    <2>. QED
      BY <2>1, <2>2
  <1>5. S(f)
    <2>1. f = [k \in 0..n |-> f[k]]
      OBVIOUS
    <2>. QED
      BY <1>4, <2>1
  <1>6. sq = CHOOSE f1 : S(f1)
    OBVIOUS
  <1>7. S(sq)
    <2>. HIDE DEF S
    <2>. QED
      BY <1>5, <1>6
  <1>8. \A k \in 0..n : sq[k] = IF k = 0 THEN a ELSE (sq[k - 1] * sq[k - 1]) % q
    BY <1>7
  <1>9. sq[0] = a
    <2>1. 0 \in 0..n
      OBVIOUS
    <2>. QED
      BY <1>8, <2>1
  <1>10. ASSUME NEW k \in 1..n PROVE sq[k] = (sq[k - 1] * sq[k - 1]) % q
    <2>1. k \in 0..n /\ k # 0
      OBVIOUS
    <2>. QED
      BY <1>8, <2>1
  <1>. QED
    BY <1>9, <1>10 DEF Squares

\* What pow_mod has after chunk c, in the order it takes the chunks.
IsBauer(f, squared) ==
    /\ f[LastChunk] = SelectedPower(LastChunk)
    /\ \A c \in 0..(LastChunk - 1) : f[c] = (squared[f[c + 1]] * SelectedPower(c)) % M

\* BauerPower satisfies its recursion.
LEMMA BauerExists ==
    ASSUME X \in Nat, M \in Nat \ {0}, IsExponent
    PROVE  \E f, squared :
              /\ BauerPower = f[0] /\ IsBauer(f, squared)
              /\ squared \in [Nat -> Nat]
              /\ \A a \in Nat : AreCongruent(squared[a], NatPower(a, NatPower(2, Window)), M)
  <1>. DEFINE n == LastChunk
              squared(a) == LET sq[j \in 0..Window] == IF j = 0 THEN a ELSE (sq[j - 1] * sq[j - 1]) % M
                            IN sq[Window]
              S(f) == f = [c \in 0..n |-> IF c = n THEN SelectedPower(c)
                                          ELSE (squared(f[c + 1]) * SelectedPower(c)) % M]
              bauer == CHOOSE f : S(f)
  <1>1. n \in Nat /\ Window \in Nat
    BY LastChunkType, WindowType
  <1>2. ASSUME NEW a \in Nat
        PROVE squared(a) \in Nat /\ AreCongruent(squared(a), NatPower(a, NatPower(2, Window)), M)
    <2>. DEFINE sq == CHOOSE f : f = [j \in 0..Window |-> IF j = 0 THEN a ELSE (f[j - 1] * f[j - 1]) % M]
    <2>1. squared(a) = sq[Window]
      OBVIOUS
    <2>2. sq[0] = a /\ Squares(sq, Window, M)
      BY <1>1, SquaresExist
    <2>3. Window \in 0..Window
      BY <1>1
    <2>. HIDE DEF sq
    <2>4. sq[Window] \in Nat /\ AreCongruent(sq[Window], NatPower(a, NatPower(2, Window)), M)
      BY <1>1, <2>2, <2>3, SquaresArePowers
    <2>. QED
      BY <2>1, <2>4
  <1>3. BauerPower = bauer[0]
    BY DEF BauerPower
  <1>. HIDE DEF squared
  <1>4. \A c \in 0..n : SelectedPower(c) \in Nat
    BY SelectedIsPower
  <1>5. \A a \in Nat, c \in 0..n : (squared(a) * SelectedPower(c)) % M \in Nat
    <2>1. \A u, v \in Nat : u * v \in Nat
      OBVIOUS
    <2>. QED
      BY <1>2, <1>4, <2>1, ModType
  <1>. DEFINE G == [p \in Nat \X Nat |-> IF p[2] \in 1..n THEN (squared(p[1]) * SelectedPower(n - p[2])) % M ELSE 0]
  <1>6. /\ G \in [Nat \X Nat -> Nat]
        /\ \A u \in Nat, k \in 1..n : G[<<u, k>>] = (squared(u) * SelectedPower(n - k)) % M
    <2>1. \A k \in 1..n : n - k \in 0..n /\ k \in Nat
      BY <1>1
    <2>. HIDE DEF n
    <2>. QED
      BY <1>5, <2>1
  <1>. HIDE DEF G
  <1>7. PICK g \in [0..n -> Nat] : IsRec(g, n, SelectedPower(n), G)
    <2>1. n \in 0..n
      BY <1>1
    <2>2. SelectedPower(n) \in Nat
      BY <1>4, <2>1
    <2>. HIDE DEF n
    <2>. QED
      BY <1>1, <1>6, <2>2, RecExists
  <1>. DEFINE f == [c \in 0..n |-> g[n - c]]
  <1>8. ASSUME NEW c \in 0..n
        PROVE f[c] = IF c = n THEN SelectedPower(c) ELSE (squared(f[c + 1]) * SelectedPower(c)) % M
    <2>. HIDE DEF n
    <2>1. f[c] = g[n - c]
      OBVIOUS
    <2>2. CASE c = n
      <3>1. n - c = 0
        BY <1>1, <2>2
      <3>. QED
        BY <1>7, <2>1, <2>2, <3>1 DEF IsRec
    <2>3. CASE c # n
      <3>. DEFINE k == n - c
      <3>1. k \in 1..n /\ k - 1 \in 0..n /\ c + 1 \in 0..n /\ n - (c + 1) = k - 1 /\ n - k = c
        BY <1>1, <2>3
      <3>2. f[c + 1] = g[n - (c + 1)]
        BY <3>1
      <3>. HIDE DEF k
      <3>3. g[k - 1] \in Nat
        BY <3>1
      <3>4. g[k] = G[<<g[k - 1], k>>]
        BY <1>7, <3>1 DEF IsRec
      <3>5. G[<<g[k - 1], k>>] = (squared(g[k - 1]) * SelectedPower(n - k)) % M
        BY <1>6, <3>1, <3>3
      <3>6. f[c] = g[k]
        BY <2>1 DEF k
      <3>. HIDE DEF f
      <3>. QED
        BY <2>3, <3>1, <3>2, <3>4, <3>5, <3>6
    <2>. QED
      BY <2>2, <2>3
  <1>9. S(f)
    <2>. HIDE DEF n
    <2>1. f = [c \in 0..n |-> f[c]]
      OBVIOUS
    <2>. HIDE DEF f
    <2>. QED
      BY <1>8, <2>1
  <1>10. S(bauer)
    <2>. HIDE DEF S
    <2>. QED
      BY <1>9
  <1>. HIDE DEF bauer, f
  <1>11. \A c \in 0..n : bauer[c] = IF c = n THEN SelectedPower(c)
                                    ELSE (squared(bauer[c + 1]) * SelectedPower(c)) % M
    <2>. HIDE DEF n
    <2>. QED
      BY <1>10
  \* Every value is a natural number, so squared may be taken for a function.
  <1>12. ASSUME NEW k \in Nat PROVE k <= n => bauer[n - k] \in Nat
    <2>. DEFINE T == {j \in Nat : j <= n => bauer[n - j] \in Nat}
    <2>. HIDE DEF n
    <2>1. 0 \in T
      <3>1. n - 0 = n /\ n \in 0..n
        BY <1>1
      <3>. QED
        BY <1>4, <1>11, <3>1
    <2>2. ASSUME NEW j \in Nat, j \in T PROVE j + 1 \in T
      <3>. SUFFICES ASSUME j + 1 <= n PROVE bauer[n - (j + 1)] \in Nat
        OBVIOUS
      <3>. DEFINE c == n - (j + 1)
      <3>1. c \in 0..n /\ c # n /\ c + 1 = n - j
        BY <1>1
      <3>2. bauer[c + 1] \in Nat
        <4>1. bauer[n - j] \in Nat
          BY <1>1, <2>2
        <4>. HIDE DEF c
        <4>. QED
          BY <3>1, <4>1
      <3>. HIDE DEF c
      <3>3. bauer[c] = (squared(bauer[c + 1]) * SelectedPower(c)) % M
        BY <1>11, <3>1
      <3>. QED
        BY <1>5, <3>1, <3>2, <3>3 DEF c
    <2>3. Nat \subseteq T
      <3>. HIDE DEF T
      <3>. QED
        BY <2>1, <2>2, Induct
    <2>. QED
      BY <2>3
  <1>. DEFINE h == [a \in Nat |-> squared(a)]
  <1>13. h \in [Nat -> Nat] /\ \A a \in Nat : AreCongruent(h[a], NatPower(a, NatPower(2, Window)), M)
    BY <1>2
  <1>14. \A a \in Nat : h[a] = squared(a)
    OBVIOUS
  <1>. HIDE DEF h
  <1>15. bauer[n] = SelectedPower(n)
    <2>1. n \in 0..n
      BY <1>1
    <2>. QED
      BY <1>11, <2>1
  <1>16. ASSUME NEW c \in 0..(n - 1) PROVE bauer[c] = (h[bauer[c + 1]] * SelectedPower(c)) % M
    <2>. DEFINE k == n - (c + 1)
    <2>1. c \in 0..n /\ c # n /\ k \in Nat /\ k <= n /\ n - k = c + 1
      <3>. HIDE DEF n
      <3>. QED
        BY <1>1
    <2>2. bauer[c + 1] \in Nat
      <3>. HIDE DEF k, n
      <3>. QED
        BY <1>12, <2>1
    <2>. QED
      BY <1>11, <1>14, <2>1, <2>2
  <1>17. IsBauer(bauer, h)
    BY <1>15, <1>16 DEF IsBauer
  <1>. QED
    BY <1>3, <1>13, <1>17

\* pow_mod computes a power: the chunks from c on stand for the power of the
\* exponent from c on.
LEMMA BauerIsPower ==
    ASSUME X \in Nat, M \in Nat \ {0}, IsExponent
    PROVE  /\ BauerPower \in Nat /\ AreCongruent(BauerPower, NatPower(X, Y), M)
           /\ LastChunk > 0 => BauerPower < M
           /\ BauerPower < M \/ BauerPower = 1 \/ BauerPower = X
  <1>. DEFINE n == LastChunk  q == NatPower(2, Window)
              Good(f, c) == f[c] \in Nat /\ AreCongruent(f[c], NatPower(X, From(c)), M)
  <1>1. n \in Nat /\ q \in Nat
    BY LastChunkType, WindowType, PowerType
  <1>2. PICK f, squared :
              /\ BauerPower = f[0] /\ IsBauer(f, squared)
              /\ squared \in [Nat -> Nat]
              /\ \A a \in Nat : AreCongruent(squared[a], NatPower(a, q), M)
    BY BauerExists
  <1>3. Good(f, n)
    <2>1. n \in 0..n
      BY <1>1
    <2>2. f[n] = SelectedPower(n)
      BY <1>2 DEF IsBauer
    <2>3. SelectedPower(n) \in Nat /\ AreCongruent(SelectedPower(n), NatPower(X, Index(n)), M)
      BY <2>1, SelectedIsPower
    <2>4. From(n) = Index(n)
      BY <2>1, FromStep
    <2>. QED
      BY <2>2, <2>3, <2>4
  <1>4. ASSUME NEW c \in 0..(n - 1), Good(f, c + 1) PROVE Good(f, c) /\ f[c] < M
    <2>. DEFINE b == f[c + 1]  u == squared[b]  v == SelectedPower(c)
                e == From(c + 1)  d == Index(c)  w == NatPower(X, e)
    <2>1. c \in 0..n /\ c + 1 \in 0..n /\ c < n /\ c \in Nat
      BY <1>1
    <2>2. f[c] = (u * v) % M
      BY <1>2 DEF IsBauer
    <2>3. b \in Nat /\ AreCongruent(b, w, M)
      BY <1>4
    <2>4. u \in Nat /\ AreCongruent(u, NatPower(b, q), M)
      BY <1>2, <2>3
    <2>5. e \in Nat /\ d \in Nat /\ w \in Nat
      BY <2>1, FromStep, IndexType, PowerNat
    <2>6. v \in Nat /\ AreCongruent(v, NatPower(X, d), M)
      BY <2>1, SelectedIsPower
    <2>7. From(c) = d + q * e
      BY <2>1, FromStep
    <2>. HIDE DEF b, u, v, e, d, w, q, n
    <2>8. AreCongruent(NatPower(b, q), NatPower(w, q), M)
      BY <1>1, <2>3, <2>5, PowerCongruent
    <2>9. NatPower(w, q) = NatPower(X, e * q)
      BY <1>1, <2>5, PowerMultiply DEF w
    <2>10. AreCongruent(u, NatPower(X, e * q), M)
      BY <2>4, <2>8, <2>9 DEF AreCongruent
    <2>11. e * q \in Nat /\ e * q + d = d + q * e
      BY <1>1, <2>5
    <2>12. NatPower(X, e * q + d) = NatPower(X, e * q) * NatPower(X, d)
      BY <2>5, <2>11, PowerAdd
    <2>13. NatPower(X, e * q) \in Nat /\ NatPower(X, d) \in Nat
      BY <2>5, <2>11, PowerNat
    <2>14. AreCongruent(u * v, NatPower(X, e * q) * NatPower(X, d), M)
      BY <2>4, <2>6, <2>10, <2>13, ModTimes
    <2>15. AreCongruent(u * v, NatPower(X, From(c)), M)
      BY <2>7, <2>11, <2>12, <2>14
    <2>. DEFINE z == u * v
    <2>16. z \in Nat
      BY <2>4, <2>6
    <2>17. z % M \in Nat /\ z % M < M /\ (z % M) % M = z % M
      <3>. HIDE DEF z
      <3>. QED
        BY <2>16, ModType
    <2>. QED
      BY <2>2, <2>15, <2>17 DEF AreCongruent
  <1>. DEFINE T == {j \in Nat : j <= n => Good(f, n - j)}
  <1>5. 0 \in T
    <2>1. n - 0 = n
      BY <1>1
    <2>. HIDE DEF n, Good
    <2>. QED
      BY <1>3, <2>1
  <1>6. ASSUME NEW j \in Nat, j \in T PROVE j + 1 \in T
    <2>. HIDE DEF n, Good
    <2>. SUFFICES ASSUME j + 1 <= n PROVE Good(f, n - (j + 1))
      OBVIOUS
    <2>. DEFINE c == n - (j + 1)
    <2>1. c \in 0..(n - 1) /\ c + 1 = n - j
      BY <1>1
    <2>2. Good(f, n - j)
      BY <1>1, <1>6
    <2>. HIDE DEF c
    <2>3. Good(f, c + 1)
      BY <2>1, <2>2
    <2>4. Good(f, c)
      BY <1>4, <2>1, <2>3
    <2>. QED
      BY <2>4 DEF c
  <1>7. Nat \subseteq T
    <2>. HIDE DEF T
    <2>. QED
      BY <1>5, <1>6, Induct
  <1>8. \A j \in 0..n : Good(f, j)
    <2>. HIDE DEF n, Good
    <2>. SUFFICES ASSUME NEW j \in 0..n PROVE Good(f, j)
      OBVIOUS
    <2>. DEFINE k == n - j
    <2>1. k \in Nat /\ k <= n /\ n - k = j
      BY <1>1
    <2>. HIDE DEF k
    <2>2. Good(f, n - k)
      BY <1>7, <2>1
    <2>. QED
      BY <2>1, <2>2
  <1>9. Good(f, 0)
    <2>1. 0 \in 0..n
      BY <1>1
    <2>. HIDE DEF n, Good
    <2>. QED
      BY <1>8, <2>1
  <1>10. From(0) = Y
    BY FromStart
  <1>11. LastChunk > 0 => f[0] < M
    <2>. SUFFICES ASSUME n > 0 PROVE f[0] < M
      OBVIOUS
    <2>1. 0 \in 0..(n - 1) /\ 0 + 1 \in 0..n
      BY <1>1
    <2>. HIDE DEF n, Good
    <2>2. Good(f, 0 + 1)
      BY <1>8, <2>1
    <2>. QED
      BY <1>4, <2>1, <2>2
  <1>12. ~(LastChunk > 0) => f[0] < M \/ f[0] = 1 \/ f[0] = X
    <2>. SUFFICES ASSUME ~(n > 0) PROVE f[0] < M \/ f[0] = 1 \/ f[0] = X
      OBVIOUS
    <2>1. n = 0
      BY <1>1
    <2>2. f[0] = SelectedPower(0) /\ 0 \in 0..LastChunk
      BY <1>2, <2>1 DEF IsBauer
    <2>. QED
      BY <2>2, SelectedIsPower
  <1>. QED
    BY <1>2, <1>9, <1>10, <1>11, <1>12

-----------------------------------------------------------------------------
(* The operations' checks.                                                 *)

\* A group's limbs weigh at least one.
LEMMA RepunitPositive ==
    ASSUME NEW bound \in Nat, NEW limb \in Nat, RoomFor(bound, limb)
    PROVE  Repunit(LimbsPerGroup(bound)) \in Nat \ {0}
  <1>. DEFINE g == LimbsPerGroup(bound)
              f == [j \in 0..(g - 1) |-> NatPower(Base, j)]
              s == [j \in 0..(g - 1) |-> IF j = 0 THEN 1 ELSE 0]
  <1>1. g \in Nat \ {0} /\ Repunit(g) \in Nat
    BY GroupTypes
  <1>. HIDE DEF g
  <1>2. ASSUME NEW j \in 0..(g - 1) PROVE f[j] \in Nat \ {0}
    <2>1. j \in Nat /\ Base \in Nat \ {0}
      BY <1>1, BaseType
    <2>2. NatPower(Base, j) \in Nat \ {0}
      BY <2>1, PowerType
    <2>. QED
      BY <2>2
  <1>3. \A j \in 0..(g - 1) : s[j] \in {0, 1}
    OBVIOUS
  <1>4. IsSingle(s, g, 0, 1)
    BY DEF IsSingle
  <1>5. Repunit(g) = Total(f, g)
    BY DEF Repunit
  <1>. HIDE DEF f, s
  <1>6. IsInts(f, g) /\ IsInts(s, g)
    BY <1>2, <1>3 DEF IsInts
  <1>7. \A j \in 0..(g - 1) : s[j] <= f[j]
    BY <1>2, <1>3
  <1>8. Total(s, g) <= Total(f, g)
    BY <1>1, <1>6, <1>7, TotalAtMost
  <1>9. Total(s, g) = 1
    <2>1. 0 \in 0..(g - 1)
      BY <1>1
    <2>. QED
      BY <1>1, <1>4, <2>1, TotalSingle
  <1>. QED
    BY <1>1, <1>5, <1>8, <1>9 DEF g

\* What a check can be raised on is below the order of the field.
LEMMA RoomBelow ==
    ASSUME NEW bound \in Nat, NEW limb \in Nat, RoomFor(bound, limb)
    PROVE  limb < P
  <1>. DEFINE r == Repunit(LimbsPerGroup(bound))  c == CarryCap(bound)  w == GroupedWord(bound)
  <1>1. r \in Nat \ {0} /\ w \in Nat /\ c \in Nat
    BY GroupTypes, RepunitPositive
  <1>2. r * limb + c + w < P
    BY DEF RoomFor
  <1>. HIDE DEF r, c, w
  <1>3. limb <= r * limb /\ r * limb \in Nat
    BY <1>1
  <1>. QED
    BY <1>1, <1>2, <1>3, PrimeAssumption

\* A vector of limbs of a variable.
IsVar(l) == AreLimbs(l, NLimbs, MaxWord)

\* A variable stands for a number below Base^NLimbs.
LEMMA VarType ==
    ASSUME NEW l, IsVar(l)
    PROVE  LimbsToNat(l) \in Nat /\ LimbsToNat(l) = Worth(l, NLimbs, Base) /\ LimbsToNat(l) < NatPower(Base, NLimbs)
  <1>1. NLimbs \in Nat /\ MaxWord \in Nat /\ Base \in Nat \ {0} /\ MaxWord = Base - 1
    BY LimbAssumption, BaseType DEF MaxWord
  <1>2. LimbsToNat(l) \in Nat /\ LimbsToNat(l) = Worth(l, NLimbs, Base)
    BY <1>1, LimbsWorthType DEF IsVar
  <1>3. IsNats(l, NLimbs) /\ \A j \in 0..(NLimbs - 1) : l[j] <= MaxWord
    BY <1>1, AreLimbsNats DEF IsVar
  <1>4. \A j \in 0..(NLimbs - 1) : l[j] < Base
    BY <1>1, <1>3 DEF IsNats
  <1>5. Worth(l, NLimbs, Base) < NatPower(Base, NLimbs)
    BY <1>1, <1>3, <1>4, WorthBelow
  <1>. QED
    BY <1>2, <1>5

\* What a prover allocates is a vector of limbs in range.
LEMMA BigNatIsVar == ASSUME NEW l \in BigNats PROVE IsVar(l)
  BY BaseType DEF BigNats, IsVar, AreLimbs

\* A bound may be raised.
LEMMA AreLimbsMore ==
    ASSUME NEW l, NEW n \in Nat, NEW c \in Nat, NEW d \in Nat, c <= d, AreLimbs(l, n, c)
    PROVE  AreLimbs(l, n, d)
  BY DEF AreLimbs

\* c compares the numbers u and v.
ComparesTo(c, u, v) == IsLegal(c) /\ c.kind = "equal" /\ LeftOf(c) = u /\ RightOf(c) = v
Orders(c, u, v) == IsLegal(c) /\ c.kind = "less" /\ LeftOf(c) = u /\ RightOf(c) = v

\* Two variables compared (reduce, and the second check of sub).
LEMMA VarCheck ==
    ASSUME NEW a, NEW b, IsVar(a), IsVar(b)
    PROVE  ComparesTo(EqualCheck(a, b, EqualWord(MaxWord, MaxWord)), LimbsToNat(a), LimbsToNat(b))
  <1>1. EqualWord(MaxWord, MaxWord) = MaxWord
    BY DEF EqualWord, Larger
  <1>2. RoomFor(MaxWord, MaxWord) /\ MaxWord \in Nat /\ NLimbs \in Nat \ {0}
    BY RoomAssumption, BaseType, LimbAssumption
  <1>. QED
    BY <1>1, <1>2, EqualMeans, VarType DEF ComparesTo, IsVar

\* A sum compared with a variable (add, and the first check of sub).
LEMMA SumCheck ==
    ASSUME NEW a, NEW b, NEW c, IsVar(a), IsVar(b), IsVar(c)
    PROVE  ComparesTo(EqualCheck(LimbwiseSum(a, b, NLimbs), c, EqualWord(AddWord(MaxWord, MaxWord), MaxWord)),
                    LimbsToNat(a) + LimbsToNat(b), LimbsToNat(c))
  <1>. DEFINE w == MaxWord  s == LimbwiseSum(a, b, NLimbs)
  <1>1. w \in Nat /\ NLimbs \in Nat \ {0}
    BY BaseType, LimbAssumption
  <1>2. EqualWord(AddWord(w, w), w) = 2 * w /\ w + w = 2 * w /\ 2 * w \in Nat /\ w <= 2 * w
    BY <1>1 DEF EqualWord, AddWord, Larger
  <1>3. RoomFor(2 * w, 2 * w)
    BY RoomAssumption
  <1>4. 2 * w < P
    BY <1>2, <1>3, RoomBelow
  <1>5. AreLimbs(s, NLimbs, 2 * w) /\ Worth(s, NLimbs, Base) = Worth(a, NLimbs, Base) + Worth(b, NLimbs, Base)
    <2>. HIDE DEF w
    <2>1. w + w < P /\ NLimbs \in Nat /\ NLimbs <= NLimbs
      BY <1>1, <1>2, <1>4
    <2>2. AreLimbs(a, NLimbs, w) /\ AreLimbs(b, NLimbs, w)
      BY DEF IsVar, w
    <2>3. /\ AreLimbs(s, NLimbs, w + w)
          /\ Worth(s, NLimbs, Base) = Worth(a, NLimbs, Base) + Worth(b, NLimbs, Base)
      BY <1>1, <2>1, <2>2, SumWorth
    <2>. QED
      BY <1>2, <2>3
  <1>. HIDE DEF s, w
  <1>6. AreLimbs(c, NLimbs, 2 * w)
    BY <1>1, <1>2, AreLimbsMore DEF IsVar, w
  <1>7. ComparesTo(EqualCheck(s, c, 2 * w), Worth(s, NLimbs, Base), Worth(c, NLimbs, Base))
    BY <1>1, <1>2, <1>3, <1>5, <1>6, EqualMeans DEF ComparesTo
  <1>8. /\ LimbsToNat(a) = Worth(a, NLimbs, Base) /\ LimbsToNat(b) = Worth(b, NLimbs, Base)
        /\ LimbsToNat(c) = Worth(c, NLimbs, Base)
    BY VarType
  <1>. QED
    BY <1>2, <1>5, <1>7, <1>8 DEF s, w

\* A variable ordered below another (the remainder and the modulus).
LEMMA VarOrder ==
    ASSUME NEW a, NEW b, IsVar(a), IsVar(b)
    PROVE  Orders(LessCheck(a, b), LimbsToNat(a), LimbsToNat(b))
  BY LimbAssumption, LessMeans, VarType DEF Orders, IsVar

\* The bounds operands are allocated with are numbers.
LEMMA WordsType ==
    ASSUME NEW w \in Words \cup {Canonical}
    PROVE  w.x \in Nat /\ w.y \in Nat /\ w.m \in Nat
  BY BaseType, OperandAssumption DEF Canonical

\* The bound of a modular operation is above both of its sides'.
LEMMA ModWordType ==
    ASSUME NEW a \in Nat, NEW b \in Nat, NEW c \in Nat
    PROVE  /\ ModWord(a, b, c) \in Nat
           /\ NLimbs * (a * b) \in Nat /\ NLimbs * (a * b) <= ModWord(a, b, c)
           /\ NLimbs * (c * MaxWord) \in Nat /\ NLimbs * (c * MaxWord) + MaxWord <= ModWord(a, b, c)
  <1>. DEFINE n == NLimbs  mw == MaxWord
  <1>1. n \in Nat /\ mw \in Nat
    BY BaseType, LimbAssumption
  <1>2. ModWord(a, b, c) = IF n * a * b < n * c * mw + mw THEN n * c * mw + mw ELSE n * a * b
    BY DEF ModWord, Larger
  <1>. HIDE DEF n, mw
  <1>3. /\ a * b \in Nat /\ n * a * b = n * (a * b)
        /\ c * mw \in Nat /\ n * c * mw = n * (c * mw)
    BY <1>1
  <1>4. n * (a * b) \in Nat /\ n * (c * mw) \in Nat
    BY <1>1, <1>3
  <1>. QED
    BY <1>1, <1>2, <1>3, <1>4 DEF n, mw

\* The product of a modular operation compared with modulus times quotient
\* plus remainder.
LEMMA QuotientCheck ==
    ASSUME NEW a, NEW b, NEW c, NEW r, NEW h, NEW quo \in {NLimbs, 2 * NLimbs}, NEW u, NEW len,
           IsVar(a), IsVar(b), IsVar(c), IsVar(r), AreLimbs(h, quo, MaxWord),
           u = Product(a, b), len = IF Size(u) < Size(Product(c, h)) THEN Size(Product(c, h)) ELSE Size(u),
           NEW w \in Words \cup {Canonical}
    PROVE  ComparesTo(EqualCheck(Resized(u, len), LimbwiseSum(Product(c, h), r, len), ModWord(w.x, w.y, w.m)),
                    LimbsToNat(a) * LimbsToNat(b), LimbsToNat(c) * LimbsToNat(h) + LimbsToNat(r))
  <1>. DEFINE n == NLimbs  mw == MaxWord  most == n * (mw * mw)  limb == most + mw
              bound == ModWord(w.x, w.y, w.m)  v == Product(c, h)  s == LimbwiseSum(v, r, len)  z == Resized(u, len)
  <1>1. n \in Nat \ {0} /\ mw \in Nat \ {0}
    BY BaseType, LimbAssumption
  <1>2. most \in Nat /\ limb \in Nat /\ most <= limb /\ n * mw * mw + mw = limb
    <2>. HIDE DEF n, mw
    <2>1. mw * mw \in Nat /\ n * mw * mw = n * (mw * mw)
      BY <1>1
    <2>2. n * (mw * mw) \in Nat
      BY <1>1, <2>1
    <2>. QED
      BY <1>1, <2>1, <2>2
  <1>3. bound \in Nat
    BY WordsType, ModWordType
  <1>4. RoomFor(bound, limb)
    <2>1. RoomFor(ModWord(w.x, w.y, w.m), n * mw * mw + mw)
      BY RoomAssumption
    <2>. QED
      BY <1>2, <2>1
  <1>. HIDE DEF bound, limb
  <1>5. limb < P
    BY <1>2, <1>3, <1>4, RoomBelow
  <1>6. most < P /\ most + mw < P /\ limb = most + mw
    BY <1>1, <1>2, <1>5, PrimeAssumption DEF limb
  <1>7. /\ AreLimbs(u, n + n - 1, most)
        /\ Worth(u, n + n - 1, Base) = Worth(a, n, Base) * Worth(b, n, Base)
    <2>. HIDE DEF n, mw
    <2>1. AreLimbs(a, n, mw) /\ AreLimbs(b, n, mw)
      BY DEF IsVar, n, mw
    <2>. QED
      BY <1>1, <1>6, <2>1, ProductWorth
  <1>8. /\ AreLimbs(v, n + quo - 1, most) /\ quo \in Nat \ {0} /\ n <= quo
        /\ Worth(v, n + quo - 1, Base) = Worth(c, n, Base) * Worth(h, quo, Base)
    <2>1. quo \in Nat \ {0} /\ n <= quo
      BY <1>1
    <2>. HIDE DEF n, mw
    <2>2. AreLimbs(c, n, mw) /\ AreLimbs(h, quo, mw)
      BY DEF IsVar, n, mw
    <2>. QED
      BY <1>1, <1>6, <2>1, <2>2, ProductWorth
  <1>9. Size(u) = n + n - 1 /\ Size(v) = n + quo - 1 /\ len = n + quo - 1 /\ len \in Nat \ {0}
    <2>. HIDE DEF n, v, mw, most
    <2>1. n + n - 1 \in Nat /\ n + quo - 1 \in Nat
      BY <1>1, <1>8
    <2>2. Size(u) = n + n - 1
      BY <1>7, <2>1, SizeOf DEF AreLimbs
    <2>3. Size(v) = n + quo - 1
      BY <1>8, <2>1, SizeOf DEF AreLimbs
    <2>4. len = IF Size(u) < Size(v) THEN Size(v) ELSE Size(u)
      BY DEF v
    <2>. QED
      BY <1>1, <1>8, <2>1, <2>2, <2>3, <2>4
  <1>10. AreLimbs(z, len, most) /\ Worth(z, len, Base) = Worth(u, n + n - 1, Base)
    <2>. HIDE DEF n, mw, most
    <2>1. n + n - 1 \in Nat /\ n + n - 1 <= len
      BY <1>1, <1>8, <1>9
    <2>. QED
      BY <1>2, <1>7, <1>9, <2>1, ResizedWorth
  <1>11. AreLimbs(s, len, limb) /\ Worth(s, len, Base) = Worth(v, len, Base) + Worth(r, n, Base)
    <2>1. AreLimbs(r, n, mw)
      BY DEF IsVar
    <2>. HIDE DEF n, mw, most, v
    <2>2. n <= len /\ len <= len /\ n \in Nat /\ len \in Nat /\ mw \in Nat
      BY <1>1, <1>8, <1>9
    <2>4. AreLimbs(v, len, most) /\ most + mw < P /\ most \in Nat
      BY <1>2, <1>6, <1>8, <1>9
    <2>. DEFINE t == LimbwiseSum(v, r, len)
    <2>3. /\ AreLimbs(t, len, most + mw)
          /\ Worth(t, len, Base) = Worth(v, len, Base) + Worth(r, n, Base)
      BY <2>1, <2>2, <2>4, SumWorth
    <2>. QED
      BY <1>6, <2>3 DEF s
  <1>12. AreLimbs(z, len, limb)
    <2>. HIDE DEF z, most, mw
    <2>. QED
      BY <1>2, <1>9, <1>10, AreLimbsMore
  <1>13. ComparesTo(EqualCheck(z, s, bound), Worth(z, len, Base), Worth(s, len, Base))
    <2>. HIDE DEF z, s
    <2>. QED
      BY <1>2, <1>3, <1>4, <1>9, <1>11, <1>12, EqualMeans DEF ComparesTo
  <1>14. /\ LimbsToNat(a) = Worth(a, n, Base) /\ LimbsToNat(b) = Worth(b, n, Base)
         /\ LimbsToNat(c) = Worth(c, n, Base) /\ LimbsToNat(r) = Worth(r, n, Base)
    BY VarType
  <1>15. LimbsToNat(h) = Worth(h, quo, Base)
    BY <1>1, <1>8, LimbsWorthType
  <1>. HIDE DEF z, s, v, n, most, mw
  <1>16. Worth(z, len, Base) = LimbsToNat(a) * LimbsToNat(b)
    BY <1>7, <1>10, <1>14
  <1>17. Worth(s, len, Base) = LimbsToNat(c) * LimbsToNat(h) + LimbsToNat(r)
    BY <1>8, <1>9, <1>11, <1>14, <1>15
  <1>. QED
    BY <1>13, <1>16, <1>17 DEF z, s, v, bound

-----------------------------------------------------------------------------
(* The operations' invariant.                                              *)

\* The operands are what an operation is called with.
Inputs ==
    /\ op \in Ops /\ x \in [0..(NLimbs - 1) -> Nat] /\ y \in [0..(NLimbs - 1) -> Nat]
    /\ op \in Modular => m \in [0..(NLimbs - 1) -> Nat]
    /\ op \in {"reduce", "square_mod_unchecked", "verify_opt"} => y = x
    /\ op \in Modular \ Checked => IsCanonical(x) /\ IsCanonical(y) /\ IsCanonical(m)
    /\ word \in Words \cup {Canonical} /\ (op \notin Modular \ Checked => word = Canonical)
    /\ op \in Powers => expBits \in Nat \ {0}

Out == LimbsToNat(result)

(* What the check being enforced, and the ones that wait, say of the result. *)
AddTied == op = "add" => checks = <<>> /\ ComparesTo(check, X + Y, Out)
ReduceTied == op = "reduce" => checks = <<>> /\ ComparesTo(check, X, Out)
SubTied ==
    op = "sub" =>
        \/ checks = <<>> /\ ComparesTo(check, X, Y + Out)
        \/ \E c : /\ checks = <<c>> /\ ComparesTo(check, Y + Out, RightOf(c))
                  /\ ComparesTo(c, X, RightOf(c))
ModTied ==
    op \in Modular =>
        /\ checks = <<>>
        /\ \/ Orders(check, Out, M)
           \/ Out < M /\ \E q \in Nat : ComparesTo(check, X * Y, M * q + Out)

Enforcing ==
    /\ verdict = "running" /\ op \notin Powers \cup {"mult"}
    /\ IsVar(x) /\ IsVar(y) /\ (op \in Modular => IsVar(m)) /\ IsVar(result)
    /\ IsLegal(check) /\ \A k \in DOMAIN checks : IsLegal(checks[k])
    /\ AddTied /\ ReduceTied /\ SubTied /\ ModTied

OpInv ==
    /\ Inputs
    /\ phase \in {"allocate", "enforce", "done"}
    /\ phase = "allocate" => verdict = "running"
    /\ phase = "enforce" => Enforcing
    /\ OperationSound

\* What is checked, or called unchecked as it may be, has limbs in range.
LEMMA CanonicalIsVar ==
    ASSUME NEW l \in [0..(NLimbs - 1) -> Nat], IsCanonical(l)
    PROVE  IsVar(l)
  BY BaseType DEF IsCanonical, IsVar, AreLimbs

\* An operation that can be satisfied has operands with limbs in range.
LEMMA InputsReady ==
    ASSUME Inputs, ~Impossible
    PROVE  IsVar(x) /\ IsVar(y) /\ (op \in Modular => IsVar(m))
  <1>1. IsCanonical(x) /\ IsCanonical(y) /\ (op \in Modular => IsCanonical(m))
    BY DEF Inputs, Impossible, InputsOk, Ops
  <1>. QED
    BY <1>1, CanonicalIsVar DEF Inputs

\* A step that keeps the operation and raises its checks.
Kept == op' = op /\ x' = x /\ y' = y /\ m' = m /\ word' = word /\ expBits' = expBits

\* The operands' numbers and the exponent's chunks stay with the operands.
LEMMA KeptInputs ==
    ASSUME Kept
    PROVE  /\ X' = X /\ Y' = Y /\ M' = M /\ LastChunk' = LastChunk /\ Exponent' = Exponent
           /\ Inputs => Inputs'
  BY DEF Kept, X, Y, M, LastChunk, NumBits, Window, Exponent, Inputs

\* Raising legal checks that bind the result.
LEMMA EnforceInv ==
    ASSUME OpInv, phase = "allocate", ~Impossible, op \notin Powers \cup {"mult"},
           NEW res, IsVar(res), NEW todo, NEW h, Enforce(res, todo, h),
           IsLegal(Head(todo)), \A k \in DOMAIN Tail(todo) : IsLegal(Tail(todo)[k]),
           AddTied', ReduceTied', SubTied', ModTied'
    PROVE  OpInv'
  <1>1. Kept /\ phase' = "enforce" /\ result' = res /\ checks' = Tail(todo) /\ check' = Head(todo)
        /\ verdict' = verdict
    BY DEF Enforce, Restart, Kept
  <1>2. Inputs /\ verdict = "running"
    BY DEF OpInv
  <1>3. Inputs'
    BY <1>1, <1>2, KeptInputs
  <1>4. IsVar(x)' /\ IsVar(y)' /\ (op \in Modular => IsVar(m))' /\ IsVar(result)'
    BY <1>1, <1>2, InputsReady DEF Kept, IsVar, AreLimbs
  <1>5. IsLegal(check)' /\ (\A k \in DOMAIN checks : IsLegal(checks[k]))'
    BY <1>1 DEF IsLegal
  <1>6. (verdict = "running")' /\ (op \notin Powers \cup {"mult"})'
    BY <1>1, <1>2 DEF Kept
  <1>7. Enforcing'
    BY <1>4, <1>5, <1>6 DEF Enforcing
  <1>8. OperationSound'
    BY <1>6 DEF OperationSound
  <1>. QED
    BY <1>1, <1>3, <1>6, <1>7, <1>8 DEF OpInv

\* What a single check says of the result.
LEMMA SingleTodo == ASSUME NEW c PROVE Head(<<c>>) = c /\ Tail(<<c>>) = <<>>
  OBVIOUS

\* The first of two checks, and the one that waits.
LEMMA TwoTodo == ASSUME NEW c, NEW d PROVE Head(<<c, d>>) = c /\ Tail(<<c, d>>) = <<d>>
  OBVIOUS

\* Only the fast path takes other bounds than a canonical variable's.
LEMMA PlainWord ==
    ASSUME Inputs, op \notin Modular \ Checked
    PROVE  word.x = MaxWord /\ word.y = MaxWord
  BY DEF Inputs, Canonical

\* x + y compared with the result.
LEMMA AddInv == ASSUME OpInv, Add PROVE OpInv'
  <1>1. op = "add" /\ phase = "allocate" /\ ~Impossible /\ Inputs
    BY DEF Add, Ready, OpInv
  <1>2. word.x = MaxWord /\ word.y = MaxWord /\ IsVar(x) /\ IsVar(y)
    BY <1>1, InputsReady, PlainWord DEF Checked
  <1>3. PICK out \in BigNats :
          Enforce(out,
                  <<EqualCheck(LimbwiseSum(x, y, NLimbs), out, EqualWord(AddWord(word.x, word.y), MaxWord))>>,
                  out = NatToLimbs(X + Y, NLimbs))
    BY DEF Add
  <1>. DEFINE c == EqualCheck(LimbwiseSum(x, y, NLimbs), out, EqualWord(AddWord(word.x, word.y), MaxWord))
              h == (out = NatToLimbs(X + Y, NLimbs))
  <1>4. IsVar(out)
    BY BigNatIsVar
  <1>5. ComparesTo(c, X + Y, LimbsToNat(out))
    BY <1>2, <1>4, SumCheck DEF X, Y
  <1>. HIDE DEF c, h
  <1>6. Enforce(out, <<c>>, h)
    BY <1>3 DEF c, h
  <1>7. Head(<<c>>) = c /\ Tail(<<c>>) = <<>>
    BY SingleTodo
  <1>8. op' = op /\ X' = X /\ Y' = Y /\ result' = out /\ checks' = <<>> /\ check' = c
    BY <1>6, <1>7 DEF Enforce, Restart, X, Y
  <1>9. AddTied'
    BY <1>5, <1>8 DEF AddTied, Out, ComparesTo
  <1>10. ReduceTied' /\ SubTied' /\ ModTied'
    BY <1>1, <1>8 DEF ReduceTied, SubTied, ModTied, Modular, Powers, Windowed
  <1>11. IsLegal(Head(<<c>>)) /\ \A k \in DOMAIN Tail(<<c>>) : IsLegal(Tail(<<c>>)[k])
    BY <1>5, <1>7 DEF ComparesTo
  <1>. QED
    BY <1>1, <1>4, <1>6, <1>9, <1>10, <1>11, EnforceInv DEF Powers, Windowed

\* x compared with the result.
LEMMA ReduceInv == ASSUME OpInv, Reduce PROVE OpInv'
  <1>1. op = "reduce" /\ phase = "allocate" /\ ~Impossible /\ Inputs
    BY DEF Reduce, Ready, OpInv
  <1>2. word.x = MaxWord /\ IsVar(x)
    BY <1>1, InputsReady, PlainWord DEF Checked
  <1>3. PICK out \in BigNats :
          Enforce(out, <<EqualCheck(x, out, EqualWord(word.x, MaxWord))>>, out = NatToLimbs(X, NLimbs))
    BY DEF Reduce
  <1>. DEFINE c == EqualCheck(x, out, EqualWord(word.x, MaxWord))
              h == (out = NatToLimbs(X, NLimbs))
  <1>4. IsVar(out)
    BY BigNatIsVar
  <1>5. ComparesTo(c, X, LimbsToNat(out))
    BY <1>2, <1>4, VarCheck DEF X
  <1>. HIDE DEF c, h
  <1>6. Enforce(out, <<c>>, h)
    BY <1>3 DEF c, h
  <1>7. Head(<<c>>) = c /\ Tail(<<c>>) = <<>>
    BY SingleTodo
  <1>8. op' = op /\ X' = X /\ result' = out /\ checks' = <<>> /\ check' = c
    BY <1>6, <1>7 DEF Enforce, Restart, X
  <1>9. ReduceTied'
    BY <1>5, <1>8 DEF ReduceTied, Out, ComparesTo
  <1>10. AddTied' /\ SubTied' /\ ModTied'
    BY <1>1, <1>8 DEF AddTied, SubTied, ModTied, Modular, Powers, Windowed
  <1>11. IsLegal(Head(<<c>>)) /\ \A k \in DOMAIN Tail(<<c>>) : IsLegal(Tail(<<c>>)[k])
    BY <1>5, <1>7 DEF ComparesTo
  <1>. QED
    BY <1>1, <1>4, <1>6, <1>9, <1>10, <1>11, EnforceInv DEF Powers, Windowed

\* y + result compared with a sum, x with the same sum.
LEMMA SubInv == ASSUME OpInv, Sub PROVE OpInv'
  <1>1. op = "sub" /\ phase = "allocate" /\ ~Impossible /\ Inputs
    BY DEF Sub, Ready, OpInv
  <1>2. word.x = MaxWord /\ word.y = MaxWord /\ IsVar(x) /\ IsVar(y)
    BY <1>1, InputsReady, PlainWord DEF Checked
  <1>. DEFINE clamped == IF X >= Y THEN X - Y ELSE 0
              first(diff, sum) ==
                  EqualCheck(LimbwiseSum(y, diff, NLimbs), sum, EqualWord(AddWord(word.y, MaxWord), MaxWord))
              second(sum) == EqualCheck(x, sum, EqualWord(word.x, MaxWord))
  <1>3. PICK diff \in BigNats, sum \in BigNats :
          Enforce(diff, <<first(diff, sum), second(sum)>>,
                  diff = NatToLimbs(clamped, NLimbs) /\ sum = NatToLimbs(Y + clamped, NLimbs))
    BY DEF Sub
  <1>. DEFINE c == first(diff, sum)  d == second(sum)
              h == (diff = NatToLimbs(clamped, NLimbs) /\ sum = NatToLimbs(Y + clamped, NLimbs))
  <1>4. IsVar(diff) /\ IsVar(sum)
    BY BigNatIsVar
  <1>5. ComparesTo(c, Y + LimbsToNat(diff), LimbsToNat(sum))
    BY <1>2, <1>4, SumCheck DEF Y
  <1>6. ComparesTo(d, X, LimbsToNat(sum))
    BY <1>2, <1>4, VarCheck DEF X
  <1>7. Enforce(diff, <<c, d>>, h)
    BY <1>3
  <1>. HIDE DEF c, d, h
  <1>8. Head(<<c, d>>) = c /\ Tail(<<c, d>>) = <<d>>
    BY TwoTodo
  <1>9. op' = op /\ X' = X /\ Y' = Y /\ result' = diff /\ checks' = <<d>> /\ check' = c
    BY <1>7, <1>8 DEF Enforce, Restart, X, Y
  <1>10. RightOf(d) = LimbsToNat(sum)
    BY <1>6 DEF ComparesTo
  <1>11. ComparesTo(c, Y + LimbsToNat(diff), RightOf(d)) /\ ComparesTo(d, X, RightOf(d))
    BY <1>5, <1>6, <1>10
  <1>12. SubTied'
    BY <1>9, <1>11 DEF SubTied, Out, ComparesTo
  <1>13. AddTied' /\ ReduceTied' /\ ModTied'
    BY <1>1, <1>9 DEF AddTied, ReduceTied, ModTied, Modular, Powers, Windowed
  <1>14. IsLegal(c) /\ IsLegal(d)
    BY <1>5, <1>6 DEF ComparesTo
  <1>15. IsLegal(Head(<<c, d>>)) /\ \A k \in DOMAIN Tail(<<c, d>>) : IsLegal(Tail(<<c, d>>)[k])
    BY <1>8, <1>14
  <1>. QED
    BY <1>1, <1>4, <1>7, <1>12, <1>13, <1>15, EnforceInv DEF Powers, Windowed

\* The remainder is ordered below the modulus first.
LEMMA RemainderInv ==
    ASSUME OpInv, phase = "allocate", ~Impossible, op \in Modular \ Powers, Remainder
    PROVE  OpInv'
  <1>1. Inputs /\ op \in Modular
    BY DEF OpInv
  <1>2. IsVar(m)
    BY <1>1, InputsReady
  <1>. DEFINE c(rem) == LessCheck(rem, m)
              h(rem) == IF M = 0 THEN IsZero(rem) ELSE rem = NatToLimbs((X * Y) % M, NLimbs)
  <1>3. PICK rem \in BigNats : Enforce(rem, <<c(rem)>>, h(rem))
    BY DEF Remainder
  <1>. DEFINE d == c(rem)  k == h(rem)
  <1>4. IsVar(rem)
    BY BigNatIsVar
  <1>5. Orders(d, LimbsToNat(rem), M)
    BY <1>2, <1>4, VarOrder DEF M
  <1>6. Enforce(rem, <<d>>, k)
    BY <1>3
  <1>. HIDE DEF d, k
  <1>7. Head(<<d>>) = d /\ Tail(<<d>>) = <<>>
    BY SingleTodo
  <1>8. op' = op /\ M' = M /\ result' = rem /\ checks' = <<>> /\ check' = d
    BY <1>6, <1>7 DEF Enforce, Restart, M
  <1>9. ModTied'
    BY <1>5, <1>8 DEF ModTied, Out, Orders
  <1>10. AddTied' /\ ReduceTied' /\ SubTied'
    BY <1>1, <1>8 DEF AddTied, ReduceTied, SubTied, Modular, Powers, Windowed
  <1>11. IsLegal(Head(<<d>>)) /\ \A j \in DOMAIN Tail(<<d>>) : IsLegal(Tail(<<d>>)[j])
    BY <1>5, <1>7 DEF Orders
  <1>. QED
    BY <1>1, <1>4, <1>6, <1>9, <1>10, <1>11, EnforceInv DEF Modular, Powers, Windowed

\* A product of limbs in range, with nothing carried.
LEMMA MultInv == ASSUME OpInv, Mult PROVE OpInv'
  <1>1. op = "mult" /\ phase = "allocate" /\ ~Impossible /\ Inputs
    BY DEF Mult, Ready, OpInv
  <1>2. word.x = MaxWord /\ word.y = MaxWord /\ IsVar(x) /\ IsVar(y)
    BY <1>1, InputsReady, PlainWord DEF Checked
  <1>3. MultWord(word.x, word.y) < P
    BY <1>1 DEF Impossible, WordOk
  <1>4. NLimbs \in Nat \ {0} /\ MaxWord \in Nat /\ P \in Nat
    BY BaseType, LimbAssumption, PrimeAssumption
  <1>5. NLimbs * (MaxWord * MaxWord) < P
    <2>. DEFINE mw == MaxWord  n == NLimbs  q == mw * mw
    <2>1. q * n * n < P
      BY <1>2, <1>3 DEF MultWord
    <2>2. n \in Nat \ {0} /\ q \in Nat /\ P \in Nat
      BY <1>4
    <2>. HIDE DEF q, n
    <2>3. q * n \in Nat
      BY <2>2
    <2>4. q * n <= (q * n) * n
      <3>. DEFINE t == q * n
      <3>. HIDE DEF t
      <3>1. t \in Nat
        BY <2>3 DEF t
      <3>2. t <= t * n
        BY <2>2, <3>1, ProductGrows
      <3>. QED
        BY <3>2 DEF t
    <2>5. n * q = q * n /\ (q * n) * n \in Nat
      BY <2>2, <2>3
    <2>6. n * q < P
      BY <2>1, <2>2, <2>3, <2>4, <2>5
    <2>. QED
      BY <2>6 DEF q, n
  <1>. DEFINE u == Product(x, y)  n == NLimbs
  <1>6. AreLimbs(u, n + n - 1, n * (MaxWord * MaxWord)) /\ Worth(u, n + n - 1, Base) = X * Y
    <2>1. X = Worth(x, n, Base) /\ Y = Worth(y, n, Base)
      BY <1>2, VarType DEF X, Y
    <2>2. AreLimbs(x, n, MaxWord) /\ AreLimbs(y, n, MaxWord)
      BY <1>2 DEF IsVar
    <2>. QED
      BY <1>4, <1>5, <2>1, <2>2, ProductWorth
  <1>7. LimbsToNat(u) = X * Y
    <2>1. n + n - 1 \in Nat /\ n * (MaxWord * MaxWord) \in Nat
      BY <1>4
    <2>. HIDE DEF u, n
    <2>. QED
      BY <1>6, <2>1, LimbsWorthType
  <1>8. Kept /\ phase' = "done" /\ verdict' = "satisfied" /\ result' = u
    BY DEF Mult, Kept
  <1>. HIDE DEF u
  <1>9. Inputs' /\ X' = X /\ Y' = Y /\ op' = "mult"
    BY <1>1, <1>8, KeptInputs DEF Kept
  <1>10. OperationSound'
    BY <1>7, <1>8, <1>9 DEF OperationSound, Powers, Windowed
  <1>. QED
    BY <1>8, <1>9, <1>10 DEF OpInv

\* The result is the power it is named for, if it is so modulo M.
PowerComputed ==
    /\ X \in Nat /\ Exponent \in Nat /\ M \in Nat
    /\ M > 0 => /\ Out \in Nat /\ AreCongruent(Out, NatPower(X, Exponent), M)
                /\ LastChunk > 0 \/ op = "verify_opt" => Out < M

\* PowerSound's own recursion, which stands for a power of X modulo M.
LEMMA PowerComputedSound == PowerComputed => PowerSound
  <1>. SUFFICES ASSUME PowerComputed PROVE PowerSound
    OBVIOUS
  <1>. DEFINE e == Exponent
              S(f) == f = [k \in 0..e |-> IF k = 0 THEN 1 % M ELSE (f[k - 1] * X) % M]
              power == CHOOSE f : S(f)
  <1>. SUFFICES ASSUME M > 0
                PROVE  /\ LimbsToNat(result) % M = power[e]
                       /\ LastChunk > 0 \/ op = "verify_opt" => LimbsToNat(result) < M
    BY DEF PowerSound, e
  <1>1. /\ X \in Nat /\ e \in Nat /\ M \in Nat \ {0}
        /\ Out \in Nat /\ AreCongruent(Out, NatPower(X, e), M)
        /\ LastChunk > 0 \/ op = "verify_opt" => Out < M
    BY DEF PowerComputed, e
  <1>. HIDE DEF e
  <1>. DEFINE G == [p \in Nat \X Nat |-> (p[1] * X) % M]
  <1>2. \A a \in Nat : (a * X) % M \in Nat
    <2>1. \A a \in Nat : a * X \in Nat
      BY <1>1
    <2>. QED
      BY <1>1, <2>1, ModType
  <1>3. G \in [Nat \X Nat -> Nat] /\ \A a, k \in Nat : G[<<a, k>>] = (a * X) % M
    BY <1>2
  <1>. HIDE DEF G
  <1>4. 1 % M \in Nat
    BY <1>1, ModType
  <1>5. PICK f \in [0..e -> Nat] : IsRec(f, e, 1 % M, G)
    <2>. DEFINE one == 1 % M
    <2>. HIDE DEF one
    <2>1. one \in Nat
      BY <1>4 DEF one
    <2>2. \E f \in [0..e -> Nat] : IsRec(f, e, one, G)
      BY <1>1, <1>3, <2>1, RecExists
    <2>. QED
      BY <2>2 DEF one
  <1>6. f[0] = 1 % M /\ \A k \in 1..e : f[k] = G[<<f[k - 1], k>>]
    BY <1>5 DEF IsRec
  <1>7. ASSUME NEW k \in 0..e PROVE f[k] = IF k = 0 THEN 1 % M ELSE (f[k - 1] * X) % M
    <2>1. CASE k = 0
      BY <1>6, <2>1
    <2>2. CASE k # 0
      <3>1. k \in 1..e /\ k - 1 \in 0..e
        BY <1>1, <2>2
      <3>2. f[k - 1] \in Nat /\ k \in Nat
        BY <1>1, <1>5, <3>1
      <3>3. f[k] = G[<<f[k - 1], k>>]
        BY <1>6, <3>1
      <3>4. G[<<f[k - 1], k>>] = (f[k - 1] * X) % M
        BY <1>3, <3>2
      <3>. QED
        BY <2>2, <3>3, <3>4
    <2>. QED
      BY <2>1, <2>2
  <1>8. S(f)
    <2>1. f = [k \in 0..e |-> f[k]]
      BY <1>5
    <2>. QED
      BY <1>7, <2>1
  <1>9. S(power)
    <2>. HIDE DEF S
    <2>. QED
      BY <1>8
  <1>. HIDE DEF power
  <1>10. \A k \in 0..e : power[k] = IF k = 0 THEN 1 % M ELSE (power[k - 1] * X) % M
    BY <1>9
  <1>11. power[0] = 1 % M /\ Multiplies(power, e, X, M)
    <2>1. 0 \in 0..e
      BY <1>1
    <2>2. power[0] = 1 % M
      BY <1>10, <2>1
    <2>3. \A k \in 1..e : k \in 0..e /\ k # 0
      BY <1>1
    <2>4. \A k \in 1..e : power[k] = (power[k - 1] * X) % M
      BY <1>10, <2>3
    <2>. QED
      BY <2>2, <2>4 DEF Multiplies
  <1>12. power[e] = NatPower(X, e) % M
    <2>1. e \in 0..e
      BY <1>1
    <2>. QED
      BY <1>1, <1>11, <2>1, ResiduesArePowers
  <1>13. Out % M = power[e] /\ (LastChunk > 0 \/ op = "verify_opt" => Out < M)
    BY <1>1, <1>12 DEF AreCongruent
  <1>. QED
    BY <1>13 DEF Out

\* The window method leaves the power.
LEMMA PowModInv == ASSUME OpInv, PowMod PROVE OpInv'
  <1>1. /\ op \in Powers /\ op \in Modular /\ op \in Windowed /\ op # "verify_opt"
        /\ phase = "allocate" /\ ~Impossible /\ Inputs
    BY DEF PowMod, Ready, OpInv, Powers, Windowed, Modular
  <1>2. IsVar(x) /\ IsVar(y) /\ IsVar(m)
    BY <1>1, InputsReady
  <1>3. /\ X \in Nat /\ X < NatPower(Base, NLimbs) /\ Y \in Nat /\ M \in Nat /\ M < NatPower(Base, NLimbs)
    BY <1>2, VarType DEF X, Y, M
  <1>4. IsExponent
    BY <1>1, <1>2 DEF Impossible, Inputs, IsExponent, IsVar
  <1>5. Kept /\ phase' = "done" /\ verdict' = "satisfied" /\ result' = NatToLimbs(BauerPower, NLimbs)
    BY DEF PowMod, Kept
  <1>6. ASSUME M > 0
        PROVE  /\ Out' \in Nat /\ AreCongruent(Out', NatPower(X, Y), M)
               /\ LastChunk > 0 => Out' < M
    <2>1. M \in Nat \ {0}
      BY <1>3, <1>6
    <2>2. /\ BauerPower \in Nat /\ AreCongruent(BauerPower, NatPower(X, Y), M)
          /\ LastChunk > 0 => BauerPower < M
          /\ BauerPower < M \/ BauerPower = 1 \/ BauerPower = X
      BY <1>3, <1>4, <2>1, BauerIsPower
    <2>3. NLimbs \in Nat /\ NatPower(Base, NLimbs) \in Nat
      BY LimbAssumption, BaseType, PowerType
    <2>4. BauerPower < NatPower(Base, NLimbs)
      BY <1>3, <2>1, <2>2, <2>3
    <2>5. LimbsToNat(NatToLimbs(BauerPower, NLimbs)) = BauerPower
      BY <2>2, <2>3, <2>4, NatToLimbsWorth
    <2>6. Out' = BauerPower
      BY <1>5, <2>5 DEF Out
    <2>. QED
      BY <2>2, <2>6
  <1>7. /\ X' = X /\ Y' = Y /\ M' = M /\ LastChunk' = LastChunk /\ Inputs' /\ op' = op
        /\ Exponent = Y /\ Exponent' = Y
    BY <1>1, <1>5, KeptInputs DEF Kept, Exponent
  <1>8. PowerComputed'
    BY <1>1, <1>3, <1>6, <1>7 DEF PowerComputed
  <1>9. PowerSound'
    BY <1>8, PowerComputedSound, PTL
  <1>10. OperationSound'
    BY <1>1, <1>7, <1>9 DEF OperationSound, Powers, Windowed
  <1>. QED
    BY <1>5, <1>7, <1>10 DEF OpInv

\* The chain of squarings and the product after it leave the power.
LEMMA OpeningIsPower ==
    ASSUME X \in Nat, M \in Nat \ {0}, expBits \in Nat
    PROVE  Opening \in Nat /\ Opening < M /\ AreCongruent(Opening, NatPower(X, NatPower(2, expBits) + 1), M)
  <1>. DEFINE n == expBits  e == NatPower(2, n)
              sq == CHOOSE f : f = [j \in 0..n |-> IF j = 0 THEN X ELSE (f[j - 1] * f[j - 1]) % M]
  <1>1. Opening = (sq[n] * X) % M
    BY DEF Opening
  <1>2. sq[0] = X /\ Squares(sq, n, M)
    BY SquaresExist
  <1>3. n \in 0..n /\ e \in Nat /\ NatPower(X, e) \in Nat
    BY PowerNat
  <1>. HIDE DEF sq
  <1>4. sq[n] \in Nat /\ AreCongruent(sq[n], NatPower(X, e), M)
    BY <1>2, <1>3, SquaresArePowers
  <1>. HIDE DEF e
  <1>5. AreCongruent(sq[n] * X, NatPower(X, e) * X, M)
    <2>1. AreCongruent(X, X, M)
      BY DEF AreCongruent
    <2>. QED
      BY <1>3, <1>4, <2>1, ModTimes
  <1>6. NatPower(X, e + 1) = NatPower(X, e) * X
    BY <1>3, PowerStep
  <1>. DEFINE z == sq[n] * X
  <1>7. z \in Nat
    BY <1>4
  <1>8. z % M \in Nat /\ z % M < M /\ (z % M) % M = z % M
    <2>. HIDE DEF z
    <2>. QED
      BY <1>7, ModType
  <1>. QED
    BY <1>1, <1>5, <1>6, <1>8 DEF AreCongruent, e

\* What verify_opt compares with the padded digest is the signature's power.
LEMMA OpenInv == ASSUME OpInv, OpenSignature PROVE OpInv'
  <1>1. /\ op = "verify_opt" /\ op \in Powers /\ op \in Modular
        /\ phase = "allocate" /\ ~Impossible /\ Inputs
    BY DEF OpenSignature, Ready, OpInv, Powers, Windowed, Modular
  <1>2. IsVar(x) /\ IsVar(m)
    BY <1>1, InputsReady
  <1>3. X \in Nat /\ M \in Nat /\ M < NatPower(Base, NLimbs) /\ X < M /\ expBits \in Nat
    BY <1>1, <1>2, VarType DEF X, M, Impossible, Inputs
  <1>4. Kept /\ phase' = "done" /\ verdict' = "satisfied" /\ result' = NatToLimbs(Opening, NLimbs)
    BY DEF OpenSignature, Kept
  <1>5. X' = X /\ M' = M /\ Inputs' /\ op' = op /\ Exponent' = Exponent
    BY <1>1, <1>4, KeptInputs DEF Kept
  <1>6. Exponent = NatPower(2, expBits) + 1 /\ Exponent \in Nat
    <2>1. NatPower(2, expBits) \in Nat
      BY <1>3, PowerNat
    <2>. QED
      BY <1>1, <2>1 DEF Exponent
  <1>7. Out' \in Nat /\ Out' < M /\ AreCongruent(Out', NatPower(X, Exponent), M)
    <2>1. M \in Nat \ {0}
      BY <1>3
    <2>2. Opening \in Nat /\ Opening < M /\ AreCongruent(Opening, NatPower(X, NatPower(2, expBits) + 1), M)
      BY <1>3, <2>1, OpeningIsPower
    <2>3. NLimbs \in Nat /\ NatPower(Base, NLimbs) \in Nat
      BY LimbAssumption, BaseType, PowerType
    <2>4. Opening < NatPower(Base, NLimbs)
      BY <1>3, <2>2, <2>3
    <2>5. LimbsToNat(NatToLimbs(Opening, NLimbs)) = Opening
      BY <2>2, <2>3, <2>4, NatToLimbsWorth
    <2>6. Out' = Opening
      BY <1>4, <2>5 DEF Out
    <2>. QED
      BY <1>6, <2>2, <2>6
  <1>8. PowerComputed'
    BY <1>3, <1>5, <1>6, <1>7 DEF PowerComputed
  <1>9. PowerSound'
    BY <1>8, PowerComputedSound, PTL
  <1>10. OperationSound'
    BY <1>1, <1>5, <1>9 DEF OperationSound, Powers, Windowed
  <1>. QED
    BY <1>4, <1>5, <1>10 DEF OpInv

\* Constraints no witness satisfies.
LEMMA AbandonInv == ASSUME OpInv, Abandon PROVE OpInv'
  <1>1. Kept /\ phase' = "done" /\ verdict' = "unsatisfied"
    BY DEF Abandon, Kept
  <1>2. Inputs'
    BY <1>1, KeptInputs DEF OpInv
  <1>. QED
    BY <1>1, <1>2 DEF OpInv, OperationSound

\* Every way an operation allocates its witnesses.
LEMMA AllocateInv == ASSUME OpInv, Allocate PROVE OpInv'
  <1>1. CASE MultModChecked \/ MultModUnchecked \/ SquareMod
    BY <1>1, RemainderInv DEF MultModChecked, MultModUnchecked, SquareMod, Ready, Modular, Powers, Windowed
  <1>2. CASE ~(MultModChecked \/ MultModUnchecked \/ SquareMod)
    BY <1>2, AbandonInv, AddInv, SubInv, ReduceInv, MultInv, PowModInv, OpenInv DEF Allocate
  <1>. QED
    BY <1>1, <1>2

\* An iteration changes neither the check nor what is bound to it.
LEMMA LoopInv == ASSUME OpInv, Loop PROVE OpInv'
  <1>1. Kept /\ phase = "enforce" /\ result' = result /\ checks' = checks
    BY DEF Loop, Kept
  <1>2. check' = check /\ verdict' \in {verdict, "unsatisfied"}
    BY DEF Loop, ChainStep, BorrowStep, CarryStep, Refuse
  <1>3. Inputs /\ Enforcing
    BY <1>1 DEF OpInv
  <1>4. Inputs' /\ X' = X /\ Y' = Y /\ M' = M /\ Out' = Out
    BY <1>1, <1>3, KeptInputs DEF Out
  <1>5. verdict' # "satisfied"
    BY <1>2, <1>3 DEF Enforcing
  <1>6. phase' = IF verdict' = "unsatisfied" THEN "done" ELSE "enforce"
    BY <1>1 DEF Loop
  <1>7. AddTied' /\ ReduceTied' /\ SubTied' /\ ModTied'
    BY <1>1, <1>2, <1>3, <1>4 DEF Enforcing, AddTied, ReduceTied, SubTied, ModTied, Kept, ComparesTo, Orders
  <1>8. phase' = "enforce" => verdict' = "running"
    BY <1>2, <1>3, <1>6 DEF Enforcing
  <1>9. IsVar(x)' /\ IsVar(y)' /\ (op \in Modular => IsVar(m))' /\ IsVar(result)'
    BY <1>1, <1>3 DEF Enforcing, Kept, IsVar, AreLimbs
  <1>10. IsLegal(check)' /\ (\A k \in DOMAIN checks : IsLegal(checks[k]))' /\ (op \notin Powers \cup {"mult"})'
    BY <1>1, <1>2, <1>3 DEF Enforcing, Kept, IsLegal
  <1>11. phase' = "enforce" => Enforcing'
    BY <1>7, <1>8, <1>9, <1>10 DEF Enforcing
  <1>12. OperationSound'
    BY <1>5 DEF OperationSound
  <1>. QED
    BY <1>4, <1>6, <1>11, <1>12 DEF OpInv

\* Only sub has a second check: the sum it allocated is what x is compared with.
LEMMA NextCheckInv == ASSUME OpInv, ChainInv, SumInv, NextCheck PROVE OpInv'
  <1>1. /\ Kept /\ phase = "enforce" /\ phase' = phase /\ verdict' = verdict /\ result' = result
        /\ Enforced /\ checks # <<>> /\ check' = Head(checks) /\ checks' = Tail(checks)
    BY DEF NextCheck, Kept, Restart
  <1>2. Inputs /\ Enforcing
    BY <1>1 DEF OpInv
  <1>3. op = "sub"
    BY <1>1, <1>2 DEF Enforcing, AddTied, ReduceTied, ModTied, Inputs, Ops, Checked, Modular, Powers, Windowed
  <1>4. PICK c : /\ checks = <<c>> /\ ComparesTo(check, Y + Out, RightOf(c))
                 /\ ComparesTo(c, X, RightOf(c))
    BY <1>1, <1>2, <1>3 DEF Enforcing, SubTied
  <1>5. Y + Out = RightOf(c)
    BY <1>1, <1>2, <1>4, LoopCompares DEF Enforcing, ComparesTo
  <1>6. ComparesTo(c, X, Y + Out)
    BY <1>4, <1>5
  <1>7. check' = c /\ checks' = <<>>
    BY <1>1, <1>4, SingleTodo
  <1>8. Inputs' /\ X' = X /\ Y' = Y /\ Out' = Out /\ op' = "sub"
    BY <1>1, <1>2, <1>3, KeptInputs DEF Out, Kept
  <1>9. SubTied'
    BY <1>6, <1>7, <1>8 DEF SubTied, ComparesTo
  <1>10. AddTied' /\ ReduceTied' /\ ModTied'
    BY <1>8 DEF AddTied, ReduceTied, ModTied, Modular, Powers, Windowed
  <1>11. IsVar(x)' /\ IsVar(y)' /\ (op \in Modular => IsVar(m))' /\ IsVar(result)'
    BY <1>1, <1>2 DEF Enforcing, Kept, IsVar, AreLimbs
  <1>12. IsLegal(check)' /\ (\A k \in DOMAIN checks : IsLegal(checks[k]))'
    <2>1. IsLegal(c)
      BY <1>6 DEF ComparesTo
    <2>. QED
      BY <1>7, <2>1 DEF IsLegal
  <1>13. (verdict = "running")' /\ (op \notin Powers \cup {"mult"})'
    BY <1>1, <1>2, <1>8 DEF Enforcing, Powers, Windowed
  <1>14. Enforcing'
    BY <1>9, <1>10, <1>11, <1>12, <1>13 DEF Enforcing
  <1>15. OperationSound'
    BY <1>13 DEF OperationSound
  <1>. QED
    BY <1>1, <1>8, <1>13, <1>14, <1>15 DEF OpInv

\* Squaring by the upper triangle is a product too.
LEMMA ModProductIsProduct ==
    ASSUME Inputs, IsVar(x)
    PROVE  ModProduct = Product(x, y)
  <1>1. op = "square_mod_unchecked" => y = x
    BY DEF Inputs
  <1>2. Square(x) = Product(x, x)
    BY BaseType, LimbAssumption, SquareIsProduct DEF IsVar
  <1>. QED
    BY <1>1, <1>2 DEF ModProduct

\* The remainder is below the modulus; a quotient binds it to the product.
LEMMA QuotientInv == ASSUME OpInv, ChainInv, SumInv, Quotient PROVE OpInv'
  <1>. DEFINE len(h) == IF Size(ModProduct) < Size(Product(m, h)) THEN Size(Product(m, h)) ELSE Size(ModProduct)
              c(h) == EqualCheck(Resized(ModProduct, len(h)), LimbwiseSum(Product(m, h), result, len(h)),
                                 ModWord(word.x, word.y, word.m))
  <1>1. /\ Kept /\ phase = "enforce" /\ phase' = phase /\ verdict' = verdict /\ result' = result
        /\ Enforced /\ checks' = checks /\ op \in Modular /\ check.kind = "less"
    BY DEF Quotient, Kept
  <1>2. PICK h \in [0..(QuotientLimbs - 1) -> Limb] : check' = c(h)
    BY DEF Quotient, Restart
  <1>3. Inputs /\ Enforcing /\ ModTied
    BY <1>1 DEF OpInv, Enforcing
  <1>4. IsVar(x) /\ IsVar(y) /\ IsVar(m) /\ IsVar(result) /\ IsLegal(check)
    BY <1>1, <1>3 DEF Enforcing
  <1>5. checks = <<>> /\ Orders(check, Out, M)
    BY <1>1, <1>3 DEF ModTied, ComparesTo
  <1>6. Out < M
    BY <1>1, <1>4, <1>5, LoopCompares DEF Orders
  <1>7. QuotientLimbs \in {NLimbs, 2 * NLimbs} /\ word \in Words \cup {Canonical}
    BY <1>3 DEF QuotientLimbs, Inputs
  <1>8. AreLimbs(h, QuotientLimbs, MaxWord)
    BY BaseType DEF AreLimbs
  <1>9. ModProduct = Product(x, y)
    BY <1>3, <1>4, ModProductIsProduct
  <1>10. ComparesTo(check', X * Y, M * LimbsToNat(h) + Out)
    <2>. DEFINE n == len(h)  u == ModProduct  q == QuotientLimbs
    <2>1. n = IF Size(u) < Size(Product(m, h)) THEN Size(Product(m, h)) ELSE Size(u)
      OBVIOUS
    <2>2. check' = EqualCheck(Resized(u, n), LimbwiseSum(Product(m, h), result, n), ModWord(word.x, word.y, word.m))
      BY <1>2
    <2>. HIDE DEF n, u, q
    <2>3. q \in {NLimbs, 2 * NLimbs} /\ AreLimbs(h, q, MaxWord) /\ u = Product(x, y)
      BY <1>7, <1>8, <1>9 DEF q, u
    <2>4. ComparesTo(EqualCheck(Resized(u, n), LimbwiseSum(Product(m, h), result, n), ModWord(word.x, word.y, word.m)),
                   LimbsToNat(x) * LimbsToNat(y), LimbsToNat(m) * LimbsToNat(h) + LimbsToNat(result))
      BY <1>4, <1>7, <2>1, <2>3, QuotientCheck
    <2>. QED
      BY <2>2, <2>4 DEF X, Y, M, Out
  <1>11. LimbsToNat(h) \in Nat
    <2>1. QuotientLimbs \in Nat /\ MaxWord \in Nat
      BY <1>7, LimbAssumption, BaseType
    <2>. QED
      BY <1>8, <2>1, LimbsWorthType
  <1>12. Inputs' /\ X' = X /\ Y' = Y /\ M' = M /\ Out' = Out /\ op' = op
    BY <1>1, <1>3, KeptInputs DEF Out, Kept
  <1>13. ModTied'
    <2>1. checks' = <<>> /\ Out' < M'
      BY <1>1, <1>5, <1>6, <1>12
    <2>2. \E q \in Nat : ComparesTo(check', X' * Y', M' * q + Out')
      BY <1>10, <1>11, <1>12
    <2>. QED
      BY <2>1, <2>2 DEF ModTied, ComparesTo
  <1>14. AddTied' /\ ReduceTied' /\ SubTied'
    BY <1>1, <1>12 DEF AddTied, ReduceTied, SubTied, Modular, Powers, Windowed
  <1>15. IsVar(x)' /\ IsVar(y)' /\ (op \in Modular => IsVar(m))' /\ IsVar(result)'
    BY <1>1, <1>4 DEF Kept, IsVar, AreLimbs
  <1>16. IsLegal(check)' /\ (\A k \in DOMAIN checks : IsLegal(checks[k]))'
    <2>1. IsLegal(check')
      BY <1>10 DEF ComparesTo
    <2>. QED
      BY <1>1, <1>5, <2>1 DEF IsLegal
  <1>17. (verdict = "running")' /\ (op \notin Powers \cup {"mult"})'
    BY <1>1, <1>3, <1>12 DEF Enforcing
  <1>18. Enforcing'
    BY <1>13, <1>14, <1>15, <1>16, <1>17 DEF Enforcing
  <1>19. OperationSound'
    BY <1>17 DEF OperationSound
  <1>. QED
    BY <1>1, <1>12, <1>17, <1>18, <1>19 DEF OpInv

\* The last check ends: the result is the number the operation is named for.
LEMMA SatisfiedInv == ASSUME OpInv, ChainInv, SumInv, Satisfied PROVE OpInv'
  <1>1. /\ Kept /\ phase = "enforce" /\ phase' = "done" /\ verdict' = "satisfied" /\ result' = result
        /\ Enforced /\ checks = <<>> /\ (op \in Modular => check.kind = "equal")
    BY DEF Satisfied, Kept
  <1>2. Inputs /\ Enforcing
    BY <1>1 DEF OpInv
  <1>3. Inputs' /\ X' = X /\ Y' = Y /\ M' = M /\ Out' = Out /\ op' = op
    BY <1>1, <1>2, KeptInputs DEF Out, Kept
  <1>4. X \in Nat /\ Y \in Nat /\ Out \in Nat /\ (op \in Modular => M \in Nat)
    BY <1>2, VarType DEF Enforcing, X, Y, M, Out
  <1>5. check.kind = "equal" => LeftOf(check) = RightOf(check)
    BY <1>1, <1>2, LoopCompares DEF Enforcing
  <1>6. CASE op = "add"
    <2>1. Out = X + Y
      BY <1>2, <1>5, <1>6 DEF Enforcing, AddTied, ComparesTo
    <2>2. OperationSound'
      BY <1>3, <1>6, <2>1 DEF OperationSound, Out, Powers, Windowed
    <2>. QED
      BY <1>1, <1>3, <2>2 DEF OpInv
  <1>7. CASE op = "sub"
    <2>1. ComparesTo(check, X, Y + Out)
      BY <1>1, <1>2, <1>7 DEF Enforcing, SubTied
    <2>2. X = Y + Out
      BY <1>5, <2>1 DEF ComparesTo
    <2>3. Out = X - Y
      BY <1>4, <2>2
    <2>4. OperationSound'
      BY <1>3, <1>7, <2>3 DEF OperationSound, Out, Powers, Windowed
    <2>. QED
      BY <1>1, <1>3, <2>4 DEF OpInv
  <1>8. CASE op = "reduce"
    <2>1. Out = X
      BY <1>2, <1>5, <1>8 DEF Enforcing, ReduceTied, ComparesTo
    <2>2. OperationSound'
      BY <1>3, <1>8, <2>1 DEF OperationSound, Out, Powers, Windowed
    <2>. QED
      BY <1>1, <1>3, <2>2 DEF OpInv
  <1>9. CASE op \in Modular
    <2>1. PICK q \in Nat : Out < M /\ ComparesTo(check, X * Y, M * q + Out)
      BY <1>1, <1>2, <1>9 DEF Enforcing, ModTied, Orders
    <2>2. X * Y = M * q + Out
      BY <1>5, <2>1 DEF ComparesTo
    <2>3. M \in Nat \ {0} /\ X * Y \in Nat
      BY <1>4, <1>9, <2>1
    <2>4. (X * Y) % M = Out
      BY <1>4, <2>1, <2>2, <2>3, DivUnique
    <2>5. op \notin Powers \cup {"add", "sub", "reduce", "mult"}
      BY <1>2, <1>9 DEF Enforcing, Modular, Powers, Windowed
    <2>6. OperationSound'
      BY <1>3, <2>4, <2>5 DEF OperationSound, Out
    <2>. QED
      BY <1>1, <1>3, <2>6 DEF OpInv
  <1>. QED
    BY <1>2, <1>6, <1>7, <1>8, <1>9 DEF Enforcing, Inputs, Ops, Checked, Modular, Powers, Windowed

\* Every step keeps the operations' invariant, given the loops'.
LEMMA OpInvNext == OpInv /\ ChainInv /\ SumInv /\ [Next]_vars => OpInv'
  <1>. SUFFICES ASSUME OpInv, ChainInv, SumInv, [Next]_vars PROVE OpInv'
    OBVIOUS
  <1>1. CASE UNCHANGED vars
    <2>1. Kept /\ phase' = phase /\ result' = result /\ checks' = checks /\ check' = check /\ verdict' = verdict
      BY <1>1 DEF vars, chainVars, Kept
    <2>2. Inputs'
      BY <2>1, KeptInputs DEF OpInv
    <2>3. X' = X /\ Y' = Y /\ M' = M /\ Out' = Out /\ LastChunk' = LastChunk /\ Exponent' = Exponent
      BY <2>1, KeptInputs DEF Out, OpInv
    <2>4. OperationSound'
      <3>1. PowerSound' = PowerSound
        BY <2>1, <2>3 DEF PowerSound, Kept, Out
      <3>. QED
        BY <2>1, <2>3, <3>1 DEF OpInv, OperationSound, Kept, Out
    <2>5. Enforcing => Enforcing'
      <3>. SUFFICES ASSUME Enforcing PROVE Enforcing'
        OBVIOUS
      <3>1. AddTied' /\ ReduceTied' /\ SubTied' /\ ModTied'
        BY <2>1, <2>3 DEF Enforcing, AddTied, ReduceTied, SubTied, ModTied, Kept, ComparesTo, Orders
      <3>2. IsVar(x)' /\ IsVar(y)' /\ (op \in Modular => IsVar(m))' /\ IsVar(result)'
        BY <2>1 DEF Enforcing, Kept, IsVar, AreLimbs
      <3>3. IsLegal(check)' /\ (\A k \in DOMAIN checks : IsLegal(checks[k]))' /\ (op \notin Powers \cup {"mult"})'
        BY <2>1 DEF Enforcing, Kept, IsLegal
      <3>4. (verdict = "running")'
        BY <2>1 DEF Enforcing
      <3>. QED
        BY <3>1, <3>2, <3>3, <3>4 DEF Enforcing
    <2>. QED
      BY <2>1, <2>2, <2>4, <2>5 DEF OpInv
  <1>. QED
    BY <1>1, AllocateInv, LoopInv, NextCheckInv, QuotientInv, SatisfiedInv DEF Next

\* No check has been raised yet.
LEMMA OpInvInit == Init => OpInv
  <1>. SUFFICES ASSUME Init PROVE OpInv
    OBVIOUS
  <1>1. Inputs
    <2>1. /\ op \in Ops /\ x \in [0..(NLimbs - 1) -> Nat] /\ y \in [0..(NLimbs - 1) -> Nat]
          /\ op \in Modular => m \in [0..(NLimbs - 1) -> Nat]
          /\ op \in {"reduce", "square_mod_unchecked", "verify_opt"} => y = x
          /\ op \in Modular \ Checked => IsCanonical(x) /\ IsCanonical(y) /\ IsCanonical(m)
      BY OperandAssumption DEF Init
    <2>2. word \in Words \cup {Canonical} /\ (op \notin Modular \ Checked => word = Canonical)
      BY DEF Init
    <2>3. op \in Powers => expBits \in Nat \ {0}
      BY OperandAssumption DEF Init, Powers
    <2>. QED
      BY <2>1, <2>2, <2>3 DEF Inputs
  <1>2. phase = "allocate" /\ verdict = "running"
    BY DEF Init
  <1>. QED
    BY <1>1, <1>2 DEF OpInv, OperationSound

\* The three invariants together.
LEMMA AllInv == Spec => [](OpInv /\ ChainInv /\ SumInv)
  <1>1. Init => OpInv /\ ChainInv /\ SumInv
    BY OpInvInit, StartInv, StartSums DEF Init
  <1>. QED
    BY <1>1, OpInvNext, ChainInvNext, SumInvNext, PTL DEF Spec

\* Every check an operation raises is one the loops are sound for, in every
\* field that has the room and for every limb layout: the bounds the
\* operations propagate (word_size) keep all sums below the order of the field.
THEOREM ChecksLegal == Spec => []ChecksStayInField
  <1>1. OpInv => ChecksStayInField
    BY DEF OpInv, Enforcing, ChecksStayInField
  <1>. QED
    BY <1>1, AllInv, PTL

\* BigNatVar's operations are sound: whatever the prover allocates, satisfied
\* constraints leave the sum, the difference, the product, the residue or the
\* power the operation is named for.
THEOREM OperationsSound == Spec => []OperationSound
  <1>1. OpInv => OperationSound
    BY DEF OpInv
  <1>. QED
    BY <1>1, AllInv, PTL

-----------------------------------------------------------------------------
(* The loops of a prover who keeps to the code.                            *)

\* What such a prover can go through to the end: a comparison of numbers in
\* order, or of equal numbers whose carries do not exceed their range; with the
\* right-hand side within the bound, no carry falls below zero either.
Roomy(c) == \A k \in DOMAIN c.left : c.left[k] + c.offset + c.cap <= c.cap * c.base
Snug(c) == c.kind = "equal" => \A k \in DOMAIN c.right : c.right[k] <= c.offset
Promising(c) ==
    IF c.kind = "less" THEN LeftOf(c) < RightOf(c) ELSE LeftOf(c) = RightOf(c) /\ Roomy(c)

(* The differences allocated so far are digits, and a nonzero one is noticed. *)
DigitInv ==
    IsLegal(check) /\ check.kind = "less" => sumDiff < place /\ (sumDiff > 0 => nonzero)

\* Nothing is allocated before the first iteration.
LEMMA StartDigits ==
    /\ \A c : Start(c) => DigitInv
    /\ \A c : Restart(c) => DigitInv'
  BY DEF Start, Restart, DigitInv

\* An iteration of the borrow chain adds one digit.
LEMMA BorrowDigits == ChainInv /\ DigitInv /\ BorrowStep => DigitInv'
  <1>. SUFFICES ASSUME ChainInv, DigitInv, BorrowStep, IsLegal(check) PROVE DigitInv'
    BY DEF DigitInv, BorrowStep
  <1>1. check.kind = "less" /\ check' = check /\ place' = place * check.base
    BY DEF BorrowStep
  <1>2. /\ place \in Nat \ {0} /\ sumDiff \in Nat /\ check.base \in Nat \ {0, 1}
        /\ sumDiff < place /\ (sumDiff > 0 => nonzero)
    BY <1>1 DEF ChainInv, BorrowInv, IsLegal, DigitInv
  <1>3. PICK diff \in 0..(check.base - 1) :
            nonzero' = (nonzero \/ diff # 0) /\ sumDiff' = sumDiff + diff * place
    BY DEF BorrowStep
  <1>. DEFINE b == check.base
  <1>. HIDE DEF b
  <1>4. b \in Nat \ {0, 1} /\ diff \in 0..(b - 1) /\ place' = place * b
    BY <1>1, <1>2, <1>3 DEF b
  <1>5. diff * place \in Nat /\ (b - 1) * place \in Nat /\ diff * place <= (b - 1) * place
    BY <1>2, <1>4
  <1>6. place * b = place + (b - 1) * place
    BY <1>2, <1>4
  <1>7. sumDiff' < place'
    BY <1>2, <1>3, <1>4, <1>5, <1>6
  <1>8. sumDiff' > 0 => nonzero'
    <2>1. CASE diff = 0
      <3>1. sumDiff' = sumDiff
        BY <1>2, <1>3, <2>1
      <3>. QED
        BY <1>2, <1>3, <3>1
    <2>2. CASE diff # 0
      BY <1>3, <2>2
    <2>. QED
      BY <2>1, <2>2
  <1>. QED
    BY <1>7, <1>8 DEF DigitInv

\* Every step of an operation keeps the digits.
LEMMA DigitInvNext == ChainInv /\ DigitInv /\ [Next]_vars => DigitInv'
  <1>. SUFFICES ASSUME ChainInv, DigitInv, [Next]_vars PROVE DigitInv'
    OBVIOUS
  <1>1. CASE UNCHANGED <<check, registers, history>>
    BY <1>1 DEF DigitInv, registers, history
  <1>2. CASE \E c : Restart(c)
    BY <1>2, StartDigits
  <1>3. CASE Allocate
    BY <1>3, <1>1, <1>2 DEF Allocate, Abandon, Add, Sub, Reduce, Mult, MultModChecked,
       MultModUnchecked, SquareMod, PowMod, OpenSignature, Remainder, Enforce, Ready
  <1>4. CASE Loop
    <2>1. CarryStep => DigitInv'
      BY DEF CarryStep, DigitInv
    <2>. QED
      BY <1>4, <1>1, <2>1, BorrowDigits DEF Loop, ChainStep, Refuse
  <1>5. CASE NextCheck \/ Quotient \/ Satisfied
    BY <1>5, <1>1, <1>2 DEF NextCheck, Quotient, Satisfied
  <1>6. CASE UNCHANGED vars
    BY <1>6, <1>1 DEF vars, chainVars
  <1>. QED
    BY <1>3, <1>4, <1>5, <1>6 DEF Next

\* An iteration of the borrow chain always has witnesses.
LEMMA BorrowExists ==
    ASSUME IsLegal(check), check.kind = "less", ChainInv, i < Length
    PROVE  \E diff \in 0..(check.base - 1), out \in {0, 1} : BorrowEq(diff, out)
  <1>. DEFINE l == check.left[i]  r == check.right[i]  b == check.base
  <1>1. i \in DOMAIN check.left
    BY LegalDomain DEF ChainInv, Length
  <1>2. l \in Nat /\ r \in Nat /\ b \in Nat \ {0, 1} /\ l < b /\ r < b /\ borrow \in {0, 1}
    BY <1>1 DEF IsLegal, ChainInv, BorrowInv
  <1>. HIDE DEF l, r, b
  <1>3. P \in Nat \ {0}
    BY PrimeAssumption
  <1>4. \E diff \in 0..(b - 1), out \in {0, 1} : r - l - borrow + out * b = diff
    <2>1. CASE r < l + borrow
      <3>1. r - l - borrow + 1 * b \in 0..(b - 1)
        BY <1>2, <2>1
      <3>. QED
        BY <3>1
    <2>2. CASE ~(r < l + borrow)
      <3>1. r - l - borrow + 0 * b \in 0..(b - 1)
        BY <1>2, <2>2
      <3>. QED
        BY <3>1
    <2>. QED
      BY <2>1, <2>2
  <1>5. PICK diff \in 0..(b - 1), out \in {0, 1} : r - l - borrow + out * b = diff
    BY <1>4
  <1>6. (diff - diff) % P = 0
    BY <1>2, <1>3
  <1>7. BorrowEq(diff, out)
    BY <1>5, <1>6 DEF BorrowEq, FieldEq, l, r, b
  <1>. QED
    BY <1>7 DEF b

\* The borrow chain refuses no two numbers in order.
LEMMA BorrowGoesThrough ==
    ASSUME ChainInv, SumInv, DigitInv, IsLegal(check), check.kind = "less", LeftOf(check) < RightOf(check)
    PROVE  ~BorrowFails
  <1>1. ~(i < Length /\ \A diff \in 0..(check.base - 1), out \in {0, 1} : ~BorrowEq(diff, out))
    BY BorrowExists
  <1>2. BorrowEnds => BorrowHolds
    <2>. SUFFICES ASSUME BorrowEnds PROVE BorrowHolds
      OBVIOUS
    <2>1. sumLeft = LeftOf(check) /\ sumRight = RightOf(check)
      BY DEF BorrowEnds, Length, SumInv, LeftOf, RightOf
    <2>2. /\ place \in Nat \ {0} /\ sumLeft \in Nat /\ sumRight \in Nat /\ sumDiff \in Nat /\ borrow \in {0, 1}
          /\ sumRight - sumLeft = sumDiff - borrow * place /\ sumDiff < place /\ (sumDiff > 0 => nonzero)
      BY DEF ChainInv, BorrowInv, DigitInv
    <2>3. sumDiff - borrow * place > 0
      BY <2>1, <2>2
    <2>4. borrow = 0
      <3>1. CASE borrow = 1
        BY <2>2, <2>3, <3>1
      <3>. QED
        BY <2>2, <3>1
    <2>5. sumDiff > 0
      BY <2>2, <2>3, <2>4
    <2>. QED
      BY <2>2, <2>4, <2>5 DEF BorrowHolds
  <1>. QED
    BY <1>1, <1>2 DEF BorrowFails

\* What is left to compare is worth what the carry says: a multiple of the base.
LEMMA CarryDivides ==
    ASSUME IsLegal(check), check.kind = "equal", ChainInv, SumInv, LeftOf(check) = RightOf(check), i < Length
    PROVE  \E z \in Int : /\ check.left[i] + carry - check.right[i] - extra = check.base * z
                          /\ i + 1 = Length => z = 0
  <1>. DEFINE n == Length  b == check.base  d == i + 1
              left == [j \in Int |-> check.left[d + j]]  right == [j \in Int |-> check.right[d + j]]
  <1>1. /\ n \in Nat /\ i \in Nat /\ i < n /\ b \in Nat \ {0, 1}
        /\ DOMAIN check.left = 0..(n - 1) /\ DOMAIN check.right = 0..(n - 1)
        /\ \A k \in 0..(n - 1) : check.left[k] \in Nat /\ check.right[k] \in Nat
    BY LegalDomain DEF ChainInv, IsLegal, Length
  <1>2. /\ sumLeft = Worth(check.left, i, b) /\ sumRight = Worth(check.right, i, b)
        /\ place = NatPower(b, i) /\ n = Size(check.left)
    BY DEF SumInv, Length
  <1>3. /\ carry \in Nat /\ extra \in Nat /\ place \in Nat \ {0} /\ sumLeft \in Nat /\ sumRight \in Nat
        /\ sumLeft - sumRight = (carry - extra) * place
    BY PrimeAssumption DEF ChainInv, CarryInv, IsLegal
  <1>4. /\ IsInts(check.left, d + (n - d)) /\ IsInts(check.right, d + (n - d))
        /\ IsPart(left, check.left, d, n - d) /\ IsPart(right, check.right, d, n - d)
        /\ IsInts(left, n - d) /\ IsInts(right, n - d) /\ n - d \in Nat /\ d + (n - d) = n
    <2>. HIDE DEF n, b
    <2>1. n - d \in Nat /\ d + (n - d) = n
      BY <1>1
    <2>2. IsInts(check.left, n) /\ IsInts(check.right, n)
      BY <1>1 DEF IsInts
    <2>3. IsPart(left, check.left, d, n - d) /\ IsPart(right, check.right, d, n - d)
      BY <1>1 DEF IsPart
    <2>4. \A j \in 0..(n - d - 1) : j \in Int /\ d + j \in 0..(n - 1)
      BY <1>1
    <2>5. \A j \in 0..(n - d - 1) : left[j] \in Int /\ right[j] \in Int
      BY <1>1, <2>4
    <2>6. IsInts(left, n - d) /\ IsInts(right, n - d)
      BY <2>5 DEF IsInts
    <2>. QED
      BY <2>1, <2>2, <2>3, <2>6
  <1>5. /\ Worth(check.left, n, b) = Worth(check.left, d, b) + NatPower(b, d) * Worth(left, n - d, b)
        /\ Worth(check.right, n, b) = Worth(check.right, d, b) + NatPower(b, d) * Worth(right, n - d, b)
    <2>1. d \in Nat /\ n - d \in Nat /\ b \in Nat \ {0}
      BY <1>1
    <2>. HIDE DEF left, right, d, b, n
    <2>2. /\ Worth(check.left, d + (n - d), b) = Worth(check.left, d, b) + NatPower(b, d) * Worth(left, n - d, b)
          /\ Worth(check.right, d + (n - d), b) = Worth(check.right, d, b) + NatPower(b, d) * Worth(right, n - d, b)
      BY <1>4, <2>1, WorthSplit
    <2>. QED
      BY <1>4, <2>2
  <1>6. /\ Worth(check.left, d, b) = sumLeft + check.left[i] * place
        /\ Worth(check.right, d, b) = sumRight + check.right[i] * place
        /\ NatPower(b, d) = place * b
    <2>. HIDE DEF b, n
    <2>1. i \in Nat
      BY <1>1
    <2>2. /\ Worth(check.left, i + 1, b) = Worth(check.left, i, b) + check.left[i] * NatPower(b, i)
          /\ Worth(check.right, i + 1, b) = Worth(check.right, i, b) + check.right[i] * NatPower(b, i)
      BY <2>1, WorthStep
    <2>3. NatPower(b, i + 1) = NatPower(b, i) * b
      BY <2>1, PowerStep
    <2>. QED
      BY <1>2, <2>2, <2>3
  <1>7. Worth(left, n - d, b) \in Int /\ Worth(right, n - d, b) \in Int
    <2>1. n - d \in Nat /\ b \in Nat \ {0}
      BY <1>1
    <2>. HIDE DEF left, right, d, b, n
    <2>. QED
      BY <1>4, <2>1, WorthType
  <1>8. Worth(check.left, n, b) = Worth(check.right, n, b)
    BY <1>2 DEF LeftOf, RightOf
  <1>. DEFINE tl == Worth(left, n - d, b)  tr == Worth(right, n - d, b)
              l == check.left[i]  r == check.right[i]  z == tr - tl
  <1>9. l \in Nat /\ r \in Nat /\ tl \in Int /\ tr \in Int
    <2>1. i \in 0..(n - 1)
      BY <1>1
    <2>2. l \in Nat /\ r \in Nat
      BY <1>1, <2>1
    <2>. QED
      BY <1>7, <2>2
  <1>10. d = n => tl = 0 /\ tr = 0
    <2>. HIDE DEF left, right, b
    <2>1. Worth(left, 0, b) = 0 /\ Worth(right, 0, b) = 0
      BY WorthStep
    <2>2. d = n => n - d = 0
      BY <1>1
    <2>. QED
      BY <2>1, <2>2
  <1>. HIDE DEF tl, tr, l, r, left, right, d, b, n
  <1>11. sumLeft + l * place + (place * b) * tl = sumRight + r * place + (place * b) * tr
    BY <1>5, <1>6, <1>8 DEF tl, tr, l, r
  <1>12. l + carry - r - extra = b * z
    <2>1. (place * b) * tl = place * (b * tl) /\ (place * b) * tr = place * (b * tr)
      BY <1>1, <1>3, <1>9
    <2>. DEFINE u == b * tl  v == b * tr
    <2>2. u \in Int /\ v \in Int /\ b * z = v - u
      BY <1>1, <1>9
    <2>. HIDE DEF u, v, z
    <2>3. sumLeft + l * place + place * u = sumRight + r * place + place * v
      BY <1>11, <2>1 DEF u, v
    <2>4. place * (carry - extra + l - r + u - v) = 0
      BY <1>3, <1>9, <2>2, <2>3
    <2>. DEFINE t == carry - extra + l - r + u - v
    <2>5. t \in Int /\ place * t = 0
      BY <1>3, <1>9, <2>2, <2>4
    <2>. HIDE DEF t
    <2>6. t = 0
      BY <1>3, <2>5
    <2>7. carry - extra + l - r + u - v = 0
      BY <2>6 DEF t
    <2>. QED
      BY <1>3, <1>9, <2>2, <2>7
  <1>13. z \in Int /\ (d = n => z = 0)
    BY <1>9, <1>10
  <1>. QED
    BY <1>12, <1>13 DEF l, r, b, d, n

\* A comparison within its bound keeps the code's subtraction above zero.
LEMMA SnugHolds ==
    ASSUME IsLegal(check), check.kind = "equal", ChainInv, Snug(check), i < Length
    PROVE  HonestCarryExists
  <1>. DEFINE l == check.left[i]  r == check.right[i]  off == check.offset
  <1>1. i \in DOMAIN check.left /\ i \in DOMAIN check.right
    BY LegalDomain DEF ChainInv, Length
  <1>2. l \in Nat /\ r \in Nat /\ off \in Nat /\ r <= off
    BY <1>1 DEF IsLegal, Snug
  <1>3. carry \in Nat
    BY PrimeAssumption DEF ChainInv, CarryInv
  <1>. HIDE DEF l, r, off
  <1>4. l + carry + off >= r
    BY <1>2, <1>3
  <1>. QED
    BY <1>4 DEF HonestCarryExists, l, r, off

\* The carry chain refuses no two equal numbers with room for their carries,
\* where the code's subtraction does not go below zero.
LEMMA CarryGoesThrough ==
    ASSUME IsLegal(check), check.kind = "equal", ChainInv, SumInv, LeftOf(check) = RightOf(check),
           Roomy(check), i < Length => HonestCarryExists
    PROVE  ~CarryFails
  <1>. SUFFICES ASSUME i < Length, HonestCarryExists
                PROVE  \E out \in 0..(P - 1) : CarryEq(out) /\ CarryOk(out)
    BY DEF CarryFails
  <1>. DEFINE l == check.left[i]  r == check.right[i]  b == check.base  off == check.offset  cap == check.cap
              e == NextExtra  rest == Accumulated % b
  <1>1. i \in DOMAIN check.left /\ i \in Nat /\ Length \in Nat
    BY LegalDomain DEF ChainInv, Length
  <1>2. /\ l \in Nat /\ r \in Nat /\ b \in Nat \ {0, 1} /\ off \in Nat /\ cap \in Nat \ {0}
        /\ l + cap + off < P /\ 2 * off + r < P
    BY <1>1 DEF IsLegal
  <1>3. l + off + cap <= cap * b /\ l + carry + off >= r
    BY <1>1 DEF Roomy, HonestCarryExists
  <1>4. carry \in Nat /\ carry < cap /\ extra \in 0..off
    BY PrimeAssumption DEF ChainInv, CarryInv
  <1>5. PICK z \in Int : l + carry - r - extra = b * z /\ (i + 1 = Length => z = 0)
    BY CarryDivides
  <1>6. e \in Nat /\ rest \in 0..(b - 1) /\ extra + off = b * e + rest
    <2>1. extra + off \in Nat /\ b \in Nat \ {0}
      BY <1>2, <1>4
    <2>. HIDE DEF b, off
    <2>2. (extra + off) \div b \in Nat /\ (extra + off) % b \in 0..(b - 1)
          /\ extra + off = b * ((extra + off) \div b) + ((extra + off) % b)
      BY <2>1, DivMod
    <2>. QED
      BY <2>2 DEF NextExtra, Accumulated, b, off
  <1>7. P \in Nat \ {0}
    BY PrimeAssumption
  <1>. HIDE DEF l, r, b, off, cap, e, rest
  <1>. DEFINE out == z + e
  <1>8. out \in Int /\ b * out = b * z + b * e /\ b * z \in Int /\ b * e \in Nat
    BY <1>2, <1>5, <1>6
  <1>. HIDE DEF out
  <1>9. l + carry - r + off = b * out + rest
    BY <1>2, <1>4, <1>5, <1>6, <1>8
  <1>10. out >= 0
    <2>1. b * out > -b
      BY <1>2, <1>3, <1>4, <1>6, <1>8, <1>9
    <2>2. CASE out <= -1
      <3>1. b * out <= -b
        BY <1>2, <1>8, <2>2
      <3>. QED
        BY <1>2, <1>8, <2>1, <3>1
    <2>. QED
      BY <1>8, <2>2
  <1>11. out < cap
    <2>1. b * out < cap * b
      <3>1. b * out \in Int /\ cap * b \in Nat
        BY <1>2, <1>8
      <3>. QED
        BY <1>2, <1>3, <1>4, <1>6, <1>9, <3>1
    <2>2. CASE cap <= out
      <3>1. cap * b <= b * out
        BY <1>2, <1>8, <2>2
      <3>. QED
        BY <1>2, <1>8, <2>1, <3>1
    <2>. QED
      BY <1>2, <1>8, <2>2
  <1>12. out \in 0..(P - 1)
    BY <1>2, <1>7, <1>8, <1>10, <1>11
  <1>13. CarryEq(out)
    <2>1. l + carry - r + off = (out * b) + rest
      BY <1>2, <1>8, <1>9
    <2>2. (l + carry - r + off) - ((out * b) + rest) = 0
      <3>1. out * b \in Int
        BY <1>2, <1>8
      <3>. QED
        BY <1>2, <1>4, <1>6, <2>1, <3>1
    <2>3. 0 % P = 0
      BY <1>7
    <2>. QED
      BY <2>2, <2>3 DEF CarryEq, FieldEq, l, r, off, b, rest
  <1>14. CarryOk(out)
    <2>1. CASE i + 1 < Length
      BY <1>11, <2>1 DEF CarryOk, cap
    <2>2. CASE ~(i + 1 < Length)
      <3>1. i + 1 = Length
        BY <1>1, <2>2
      <3>2. out = e
        BY <1>5, <1>6, <3>1 DEF out
      <3>3. e % P = e
        BY <1>7, <1>12, <3>2
      <3>. QED
        BY <2>2, <3>2, <3>3 DEF CarryOk, e
    <2>. QED
      BY <2>1, <2>2
  <1>. QED
    BY <1>12, <1>13, <1>14

-----------------------------------------------------------------------------
(* The checks of such a prover.                                            *)

\* A bound the field has room for is below its order.
LEMMA BoundBelow ==
    ASSUME NEW bound \in Nat, NEW limb \in Nat, RoomFor(bound, limb)
    PROVE  bound < P
  <1>. DEFINE r == Repunit(LimbsPerGroup(bound))
  <1>1. r \in Nat \ {0} /\ GroupedWord(bound) = r * bound
    BY RepunitPositive DEF GroupedWord
  <1>2. 2 * GroupedWord(bound) + r * limb < P
    BY DEF RoomFor
  <1>. HIDE DEF r
  <1>3. r * bound \in Nat /\ r * limb \in Nat /\ bound <= r * bound
    BY <1>1
  <1>. QED
    BY <1>1, <1>2, <1>3, PrimeAssumption

\* Limbs on the left that leave room for the carries of a comparison.
LEMMA EqualRoomy ==
    ASSUME NEW n \in Nat \ {0}, NEW bound \in Nat, NEW limb \in Nat, RoomFor(bound, limb),
           NEW low \in Nat, CarriesFit(bound, low), NEW a, NEW b, AreLimbs(a, n, low)
    PROVE  Roomy(EqualCheck(a, b, bound))
  <1>. DEFINE g == LimbsPerGroup(bound)  c == EqualCheck(a, b, bound)  d == GroupCount(n, g)  rep == Repunit(g)
              cap == CarryCap(bound)  gb == GroupedBase(bound)  gw == GroupedWord(bound)
  <1>1. /\ g \in Nat \ {0} /\ gb \in Nat \ {0, 1} /\ rep \in Nat /\ gw \in Nat /\ cap \in Nat \ {0}
        /\ P \in Nat
    BY GroupTypes, PrimeAssumption
  <1>2. c.left = GroupLimbs(a, g) /\ c.base = gb /\ c.offset = gw /\ c.cap = cap
    BY DEF EqualCheck
  <1>3. rep * low + gw + cap <= cap * gb /\ cap * gb + rep * limb <= P
    BY DEF RoomFor, CarriesFit
  <1>. HIDE DEF g, c, d, rep, cap, gb, gw
  <1>4. rep * low \in Nat /\ rep * limb \in Nat /\ cap * gb \in Nat
    BY <1>1
  <1>5. rep * low < P
    BY <1>1, <1>3, <1>4
  <1>6. AreLimbs(GroupLimbs(a, g), d, rep * low)
    <2>1. Repunit(g) * low < P
      BY <1>5 DEF rep
    <2>. QED
      BY <1>1, <2>1, GroupsWorth DEF rep, d
  <1>7. ASSUME NEW k \in DOMAIN c.left PROVE c.left[k] \in 0..(rep * low)
    BY <1>2, <1>6 DEF AreLimbs
  <1>8. ASSUME NEW k \in DOMAIN c.left PROVE c.left[k] + c.offset + c.cap <= c.cap * c.base
    BY <1>1, <1>2, <1>3, <1>4, <1>7
  <1>. QED
    BY <1>8 DEF Roomy, c

\* Limbs on the right within the bound of a comparison.
LEMMA EqualSnug ==
    ASSUME NEW n \in Nat \ {0}, NEW bound \in Nat, NEW limb \in Nat, RoomFor(bound, limb),
           NEW high \in Nat, high <= bound, NEW a, NEW b, AreLimbs(b, n, high)
    PROVE  Snug(EqualCheck(a, b, bound))
  <1>. DEFINE g == LimbsPerGroup(bound)  c == EqualCheck(a, b, bound)  d == GroupCount(n, g)  rep == Repunit(g)
              gw == GroupedWord(bound)
  <1>1. g \in Nat \ {0} /\ rep \in Nat /\ gw \in Nat /\ P \in Nat
    BY GroupTypes, PrimeAssumption
  <1>2. c.right = GroupLimbs(b, g) /\ c.offset = gw
    BY DEF EqualCheck
  <1>3. 2 * gw + rep * limb < P /\ gw = rep * bound
    BY DEF RoomFor, GroupedWord
  <1>. HIDE DEF g, c, d, rep, gw
  <1>4. rep * high \in Nat /\ rep * limb \in Nat /\ rep * high <= gw
    <2>1. rep * high <= rep * bound
      BY <1>1
    <2>. QED
      BY <1>1, <1>3, <2>1
  <1>5. rep * high < P
    BY <1>1, <1>3, <1>4
  <1>6. AreLimbs(GroupLimbs(b, g), d, rep * high)
    <2>1. Repunit(g) * high < P
      BY <1>5 DEF rep
    <2>. QED
      BY <1>1, <2>1, GroupsWorth DEF rep, d
  <1>7. ASSUME NEW k \in DOMAIN c.right PROVE c.right[k] <= c.offset
    <2>1. c.right[k] \in 0..(rep * high)
      BY <1>2, <1>6 DEF AreLimbs
    <2>. QED
      BY <1>1, <1>2, <1>4, <2>1
  <1>. QED
    BY <1>7 DEF Snug, c

\* Two variables compared.
LEMMA VarRoomy ==
    ASSUME NEW a, NEW b, IsVar(a), IsVar(b)
    PROVE  /\ Roomy(EqualCheck(a, b, EqualWord(MaxWord, MaxWord)))
           /\ Snug(EqualCheck(a, b, EqualWord(MaxWord, MaxWord)))
  <1>1. EqualWord(MaxWord, MaxWord) = MaxWord
    BY DEF EqualWord, Larger
  <1>2. RoomFor(MaxWord, MaxWord) /\ CarriesFit(MaxWord, MaxWord) /\ MaxWord \in Nat /\ NLimbs \in Nat \ {0}
    BY RoomAssumption, HonestRoomAssumption, BaseType, LimbAssumption
  <1>3. MaxWord <= MaxWord
    BY <1>2
  <1>. QED
    BY <1>1, <1>2, <1>3, EqualRoomy, EqualSnug DEF IsVar

\* A sum compared with a variable.
LEMMA SumRoomy ==
    ASSUME NEW a, NEW b, NEW c, IsVar(a), IsVar(b), IsVar(c)
    PROVE  /\ Roomy(EqualCheck(LimbwiseSum(a, b, NLimbs), c, EqualWord(AddWord(MaxWord, MaxWord), MaxWord)))
           /\ Snug(EqualCheck(LimbwiseSum(a, b, NLimbs), c, EqualWord(AddWord(MaxWord, MaxWord), MaxWord)))
  <1>. DEFINE w == MaxWord  s == LimbwiseSum(a, b, NLimbs)
  <1>1. w \in Nat /\ NLimbs \in Nat \ {0}
    BY BaseType, LimbAssumption
  <1>2. EqualWord(AddWord(w, w), w) = 2 * w /\ w + w = 2 * w /\ 2 * w \in Nat /\ w <= 2 * w
    BY <1>1 DEF EqualWord, AddWord, Larger
  <1>3. RoomFor(2 * w, 2 * w) /\ CarriesFit(2 * w, 2 * w)
    BY RoomAssumption, HonestRoomAssumption
  <1>4. 2 * w < P
    BY <1>2, <1>3, RoomBelow
  <1>5. AreLimbs(s, NLimbs, 2 * w)
    <2>. HIDE DEF w
    <2>1. w + w < P /\ NLimbs \in Nat /\ NLimbs <= NLimbs
      BY <1>1, <1>2, <1>4
    <2>2. AreLimbs(a, NLimbs, w) /\ AreLimbs(b, NLimbs, w)
      BY DEF IsVar, w
    <2>3. AreLimbs(s, NLimbs, w + w)
      BY <1>1, <2>1, <2>2, SumWorth
    <2>. QED
      BY <1>2, <2>3
  <1>. HIDE DEF s, w
  <1>6. AreLimbs(c, NLimbs, w)
    BY DEF IsVar, w
  <1>7. Roomy(EqualCheck(s, c, 2 * w))
    BY <1>1, <1>2, <1>3, <1>5, EqualRoomy
  <1>8. Snug(EqualCheck(s, c, 2 * w))
    BY <1>1, <1>2, <1>3, <1>6, EqualSnug
  <1>. QED
    BY <1>2, <1>7, <1>8 DEF s, w

\* The vectors of a product and of modulus times quotient, and the room their
\* comparison has whatever bounds the operands were allocated with.
FullLimb == NLimbs * (MaxWord * MaxWord)
LEMMA QuotientShapes ==
    ASSUME NEW w \in Words \cup {Canonical}, NEW a, NEW b, NEW c, NEW h, NEW quo \in {NLimbs, 2 * NLimbs},
           IsVar(a), IsVar(b), IsVar(c), AreLimbs(h, quo, MaxWord), NEW u, NEW len,
           u = Product(a, b), len = IF Size(u) < Size(Product(c, h)) THEN Size(Product(c, h)) ELSE Size(u)
    PROVE  /\ ModWord(w.x, w.y, w.m) \in Nat /\ ModWord(w.x, w.y, w.m) < P
           /\ RoomFor(ModWord(w.x, w.y, w.m), FullLimb + MaxWord) /\ CarriesFit(ModWord(w.x, w.y, w.m), FullLimb)
           /\ FullLimb \in Nat /\ FullLimb + MaxWord \in Nat /\ FullLimb + MaxWord < P
           /\ quo \in Nat \ {0} /\ NLimbs <= quo /\ len = NLimbs + quo - 1 /\ len \in Nat \ {0}
           /\ AreLimbs(Resized(u, len), len, FullLimb)
  <1>. DEFINE n == NLimbs  mw == MaxWord  most == FullLimb  limb == most + mw
              bound == ModWord(w.x, w.y, w.m)  v == Product(c, h)  z == Resized(u, len)
  <1>1. n \in Nat \ {0} /\ mw \in Nat \ {0} /\ most = n * (mw * mw)
    BY BaseType, LimbAssumption DEF FullLimb
  <1>2. most \in Nat /\ limb \in Nat /\ n * mw * mw = most /\ n * mw * mw + mw = limb
    <2>. HIDE DEF n, mw, most
    <2>1. mw * mw \in Nat /\ n * mw * mw = n * (mw * mw)
      BY <1>1
    <2>2. n * (mw * mw) \in Nat
      BY <1>1, <2>1
    <2>. QED
      BY <1>1, <2>1, <2>2
  <1>3. bound \in Nat
    BY WordsType, ModWordType
  <1>4. RoomFor(bound, limb) /\ CarriesFit(bound, most)
    <2>1. RoomFor(ModWord(w.x, w.y, w.m), n * mw * mw + mw)
      BY RoomAssumption
    <2>2. CarriesFit(ModWord(w.x, w.y, w.m), n * mw * mw)
      BY HonestRoomAssumption
    <2>. QED
      BY <1>2, <2>1, <2>2
  <1>. HIDE DEF bound, limb
  <1>5. limb < P /\ bound < P
    BY <1>2, <1>3, <1>4, RoomBelow, BoundBelow
  <1>6. most < P /\ most + mw < P /\ limb = most + mw
    BY <1>1, <1>2, <1>5, PrimeAssumption DEF limb
  <1>7. quo \in Nat \ {0} /\ n <= quo
    BY <1>1
  <1>8. AreLimbs(u, n + n - 1, most) /\ AreLimbs(v, n + quo - 1, most)
    <2>. HIDE DEF n, mw, most
    <2>1. AreLimbs(a, n, mw) /\ AreLimbs(b, n, mw) /\ AreLimbs(c, n, mw) /\ AreLimbs(h, quo, mw)
      BY DEF IsVar, n, mw
    <2>2. n * (mw * mw) < P
      BY <1>1, <1>6
    <2>3. AreLimbs(Product(a, b), n + n - 1, n * (mw * mw))
      BY <1>1, <2>1, <2>2, ProductWorth
    <2>4. AreLimbs(Product(c, h), n + quo - 1, n * (mw * mw))
      BY <1>1, <1>7, <2>1, <2>2, ProductWorth
    <2>. QED
      BY <1>1, <2>3, <2>4
  <1>9. Size(u) = n + n - 1 /\ len = n + quo - 1 /\ len \in Nat \ {0}
    <2>. HIDE DEF n, v, mw, most
    <2>1. n + n - 1 \in Nat /\ n + quo - 1 \in Nat
      BY <1>1, <1>7
    <2>2. Size(u) = n + n - 1
      BY <1>8, <2>1, SizeOf DEF AreLimbs
    <2>3. Size(v) = n + quo - 1
      BY <1>8, <2>1, SizeOf DEF AreLimbs
    <2>4. len = IF Size(u) < Size(v) THEN Size(v) ELSE Size(u)
      BY DEF v
    <2>. QED
      BY <1>1, <1>7, <2>1, <2>2, <2>3, <2>4
  <1>10. AreLimbs(z, len, most)
    <2>. HIDE DEF n, mw, most
    <2>1. n + n - 1 \in Nat /\ n + n - 1 <= len
      BY <1>1, <1>7, <1>9
    <2>. QED
      BY <1>2, <1>8, <1>9, <2>1, ResizedWorth
  <1>. QED
    BY <1>2, <1>3, <1>4, <1>5, <1>6, <1>7, <1>9, <1>10 DEF bound, limb

\* A modulus within the bound it was allocated with keeps the right-hand side
\* within the bound of the comparison.
LEMMA WithinSnug ==
    ASSUME NEW w \in Words \cup {Canonical}, NEW a, NEW b, NEW c, NEW r, NEW h, NEW quo \in {NLimbs, 2 * NLimbs},
           IsVar(a), IsVar(b), IsVar(c), IsVar(r), AreLimbs(h, quo, MaxWord), NEW u, NEW len,
           u = Product(a, b), len = IF Size(u) < Size(Product(c, h)) THEN Size(Product(c, h)) ELSE Size(u),
           \A k \in DOMAIN c : c[k] <= w.m
    PROVE  Snug(EqualCheck(Resized(u, len), LimbwiseSum(Product(c, h), r, len), ModWord(w.x, w.y, w.m)))
  <1>. DEFINE n == NLimbs  mw == MaxWord  wm == w.m  half == n * (wm * mw)
              bound == ModWord(w.x, w.y, w.m)  v == Product(c, h)
  <1>1. n \in Nat \ {0} /\ mw \in Nat /\ wm \in Nat
    BY BaseType, LimbAssumption, WordsType
  <1>2. half \in Nat /\ half + mw \in Nat /\ half + mw <= bound
    <2>1. w.x \in Nat /\ w.y \in Nat /\ w.m \in Nat
      BY WordsType
    <2>2. NLimbs * (w.m * MaxWord) \in Nat /\ NLimbs * (w.m * MaxWord) + MaxWord <= ModWord(w.x, w.y, w.m)
      BY <2>1, ModWordType
    <2>. QED
      BY <1>1, <2>2
  <1>3. /\ bound \in Nat /\ bound < P /\ RoomFor(bound, FullLimb + MaxWord) /\ FullLimb + MaxWord \in Nat
        /\ quo \in Nat \ {0} /\ n <= quo /\ len = n + quo - 1 /\ len \in Nat \ {0}
    BY QuotientShapes
  <1>4. P \in Nat
    BY PrimeAssumption
  <1>. HIDE DEF bound, half, n, mw, wm
  <1>5. half < P /\ half + mw < P
    BY <1>1, <1>2, <1>3, <1>4
  <1>6. AreLimbs(c, n, wm)
    <2>1. DOMAIN c = 0..(n - 1) /\ \A j \in 0..(n - 1) : c[j] \in 0..mw /\ c[j] <= wm
      BY DEF IsVar, AreLimbs, n, mw, wm
    <2>2. \A j \in 0..(n - 1) : c[j] \in 0..wm
      BY <1>1, <2>1
    <2>. QED
      BY <2>1, <2>2 DEF AreLimbs
  <1>7. AreLimbs(v, len, half)
    <2>1. AreLimbs(h, quo, mw)
      BY DEF mw
    <2>2. n * (wm * mw) < P
      BY <1>5 DEF half
    <2>3. AreLimbs(Product(c, h), n + quo - 1, n * (wm * mw))
      BY <1>1, <1>3, <1>6, <2>1, <2>2, ProductWorth
    <2>. QED
      BY <1>3, <2>3 DEF half
  <1>. HIDE DEF v
  <1>8. AreLimbs(LimbwiseSum(v, r, len), len, half + mw)
    <2>1. AreLimbs(r, n, mw)
      BY DEF IsVar, n, mw
    <2>2. n <= len /\ len <= len /\ n \in Nat /\ len \in Nat
      BY <1>1, <1>3
    <2>. QED
      BY <1>1, <1>2, <1>5, <1>7, <2>1, <2>2, SumWorth
  <1>9. Snug(EqualCheck(Resized(u, len), LimbwiseSum(v, r, len), bound))
    BY <1>2, <1>3, <1>8, EqualSnug
  <1>. QED
    BY <1>9 DEF v, bound

\* A number below the largest one has a limb below the largest one.
LEMMA SomeLimbBelow ==
    ASSUME NEW n \in Nat, NEW l, AreLimbs(l, n, MaxWord), Worth(l, n, Base) < NatPower(Base, n) - 1
    PROVE  \E t \in 0..(n - 1) : l[t] < MaxWord
  <1>. DEFINE b == Base  mw == MaxWord
              T == {k \in Nat : k <= n => Worth(l, k, b) = NatPower(b, k) - 1}
  <1>. SUFFICES ASSUME \A t \in 0..(n - 1) : ~(l[t] < mw) PROVE FALSE
    OBVIOUS
  <1>1. b \in Nat \ {0} /\ mw = b - 1
    BY BaseType DEF MaxWord
  <1>2. \A t \in 0..(n - 1) : l[t] = mw
    <2>1. \A t \in 0..(n - 1) : l[t] \in 0..mw
      BY DEF AreLimbs
    <2>. HIDE DEF mw
    <2>. QED
      BY <1>1, <2>1
  <1>3. Worth(l, n, b) < NatPower(b, n) - 1
    OBVIOUS
  <1>. HIDE DEF b, mw
  <1>4. 0 \in T
    <2>1. Worth(l, 0, b) = 0 /\ NatPower(b, 0) = 1
      BY WorthStep, PowerStep
    <2>. QED
      BY <2>1
  <1>5. ASSUME NEW k \in Nat, k \in T PROVE k + 1 \in T
    <2>. SUFFICES ASSUME k + 1 <= n PROVE Worth(l, k + 1, b) = NatPower(b, k + 1) - 1
      OBVIOUS
    <2>1. Worth(l, k, b) = NatPower(b, k) - 1
      BY <1>5
    <2>2. Worth(l, k + 1, b) = Worth(l, k, b) + l[k] * NatPower(b, k) /\ NatPower(b, k + 1) = NatPower(b, k) * b
      BY WorthStep, PowerStep
    <2>3. l[k] = b - 1
      BY <1>1, <1>2
    <2>4. NatPower(b, k) \in Nat
      BY <1>1, PowerType
    <2>. DEFINE p == NatPower(b, k)
    <2>. HIDE DEF p
    <2>5. (b - 1) * p = p * b - p
      BY <1>1, <2>4 DEF p
    <2>. QED
      BY <1>1, <2>1, <2>2, <2>3, <2>4, <2>5 DEF p
  <1>6. n \in T
    <2>. HIDE DEF T
    <2>1. Nat \subseteq T
      BY <1>4, <1>5, Induct
    <2>. QED
      BY <2>1
  <1>7. Worth(l, n, b) = NatPower(b, n) - 1
    BY <1>6
  <1>8. NatPower(b, n) \in Nat
    BY <1>1, PowerType
  <1>. QED
    BY <1>3, <1>7, <1>8

\* A quotient below a modulus leaves every coefficient room for a limb of the
\* remainder.
LEMMA QuotientBelow ==
    ASSUME NEW c, NEW r, NEW h, IsVar(c), IsVar(r), IsVar(h), NEW t \in 0..(NLimbs - 1), h[t] < MaxWord,
           NEW len, len = NLimbs + NLimbs - 1, FullLimb + MaxWord < P
    PROVE  AreLimbs(LimbwiseSum(Product(c, h), r, len), len, FullLimb)
  <1>. DEFINE n == NLimbs  mw == MaxWord  full == FullLimb  v == Product(c, h)  s == LimbwiseSum(v, r, len)
  <1>1. n \in Nat \ {0} /\ mw \in Nat \ {0} /\ full = n * (mw * mw) /\ P \in Nat \ {0}
    BY BaseType, LimbAssumption, PrimeAssumption DEF FullLimb
  <1>2. full \in Nat /\ full < P
    <2>1. full + mw < P
      OBVIOUS
    <2>2. mw * mw \in Nat
      BY <1>1
    <2>3. n * (mw * mw) \in Nat
      BY <1>1, <2>2
    <2>. HIDE DEF full, n, mw
    <2>. QED
      BY <1>1, <2>1, <2>3
  <1>3. AreLimbs(c, n, mw) /\ AreLimbs(r, n, mw) /\ AreLimbs(h, n, mw) /\ h[t] < mw /\ t \in 0..(n - 1)
    BY DEF IsVar
  <1>4. len = n + n - 1
    OBVIOUS
  <1>. HIDE DEF n, mw, full
  <1>5. len \in Nat \ {0} /\ n <= len /\ len - 1 = n + n - 2
    BY <1>1, <1>4
  <1>6. v = [k \in 0..(n + n - 2) |-> Conv(c, n, h, n, k)] /\ AreLimbs(v, len, full)
    <2>1. n * (mw * mw) < P
      BY <1>1, <1>2
    <2>2. Product(c, h) = [k \in 0..(n + n - 2) |-> Conv(c, n, h, n, k)]
      BY <1>1, <1>3, <2>1, ProductIsConv
    <2>3. AreLimbs(Product(c, h), n + n - 1, n * (mw * mw))
      BY <1>1, <1>3, <2>1, ProductWorth
    <2>. QED
      BY <1>1, <1>4, <2>2, <2>3
  <1>. HIDE DEF v
  <1>7. Size(v) = len /\ Size(r) = n
    BY <1>1, <1>3, <1>5, <1>6, SizeOf DEF AreLimbs
  <1>8. DOMAIN s = 0..(len - 1)
    BY DEF LimbwiseSum
  <1>9. ASSUME NEW k \in 0..(len - 1) PROVE s[k] \in 0..full
    <2>1. k \in Nat /\ s[k] = Plus(Resized(v, len)[k], Resized(r, len)[k])
      BY DEF LimbwiseSum
    <2>2. Resized(v, len)[k] = v[k] /\ v[k] \in 0..full
      <3>1. k < Size(v)
        BY <1>5, <1>7
      <3>. QED
        BY <1>6, <3>1 DEF Resized, AreLimbs
    <2>3. CASE k < n
      <3>1. k \in 0..(n - 1)
        BY <1>1, <2>1, <2>3
      <3>2. Resized(r, len)[k] = r[k] /\ r[k] \in 0..mw
        BY <1>3, <1>7, <2>3, <3>1 DEF Resized, AreLimbs
      <3>3. v[k] = Conv(c, n, h, n, k)
        BY <1>5, <1>6
      <3>4. Conv(c, n, h, n, k) + mw <= n * (mw * mw)
        <4>1. /\ IsNats(c, n) /\ IsNats(h, n)
              /\ \A j \in 0..(n - 1) : c[j] <= mw
              /\ \A j \in 0..(n - 1) : h[j] <= mw
          BY <1>1, <1>3, AreLimbsNats
        <4>. QED
          BY <1>1, <1>3, <3>1, <4>1, ConvBelow
      <3>5. v[k] + r[k] \in 0..full
        BY <1>1, <1>2, <2>2, <3>2, <3>3, <3>4
      <3>6. s[k] = (v[k] + r[k]) % P
        BY <2>1, <2>2, <3>2 DEF Plus
      <3>. DEFINE e == v[k] + r[k]
      <3>7. e \in 0..full /\ s[k] = e % P
        BY <3>5, <3>6
      <3>. HIDE DEF e
      <3>. QED
        BY <1>1, <1>2, <3>7
    <2>4. CASE ~(k < n)
      <3>1. Resized(r, len)[k] = 0
        BY <1>7, <2>4 DEF Resized
      <3>2. s[k] = (v[k] + 0) % P
        BY <2>1, <2>2, <3>1 DEF Plus
      <3>. DEFINE e == v[k]
      <3>3. e \in 0..full /\ s[k] = (e + 0) % P
        BY <2>2, <3>2
      <3>. HIDE DEF e
      <3>. QED
        BY <1>1, <1>2, <3>3
    <2>. QED
      BY <2>3, <2>4
  <1>10. AreLimbs(s, len, full)
    <2>. HIDE DEF s
    <2>. QED
      BY <1>8, <1>9 DEF AreLimbs
  <1>. QED
    BY <1>10 DEF full, v, n, mw

\* So do full operands, whatever the bound of the modulus.
LEMMA FullSnug ==
    ASSUME NEW w \in Words \cup {Canonical}, NEW a, NEW b, NEW c, NEW r, NEW h,
           IsVar(a), IsVar(b), IsVar(c), IsVar(r), IsVar(h), NEW u, NEW len,
           u = Product(a, b), len = IF Size(u) < Size(Product(c, h)) THEN Size(Product(c, h)) ELSE Size(u),
           w.x = MaxWord, w.y = MaxWord, NEW t \in 0..(NLimbs - 1), h[t] < MaxWord
    PROVE  Snug(EqualCheck(Resized(u, len), LimbwiseSum(Product(c, h), r, len), ModWord(w.x, w.y, w.m)))
  <1>. DEFINE bound == ModWord(w.x, w.y, w.m)  s == LimbwiseSum(Product(c, h), r, len)
  <1>1. /\ bound \in Nat /\ RoomFor(bound, FullLimb + MaxWord) /\ FullLimb + MaxWord \in Nat
        /\ FullLimb \in Nat /\ FullLimb + MaxWord < P
        /\ len = NLimbs + NLimbs - 1 /\ len \in Nat \ {0}
    BY QuotientShapes DEF IsVar
  <1>2. FullLimb <= bound
    BY WordsType, ModWordType DEF FullLimb
  <1>3. AreLimbs(s, len, FullLimb)
    BY <1>1, QuotientBelow
  <1>. HIDE DEF bound, s
  <1>4. Snug(EqualCheck(Resized(u, len), s, bound))
    BY <1>1, <1>2, <1>3, EqualSnug
  <1>. QED
    BY <1>4 DEF s, bound

-----------------------------------------------------------------------------
(* The witnesses of such a prover.                                         *)

\* A limb's share of the number.
LEMMA LimbBelow ==
    ASSUME NEW n \in Nat, NEW l, IsNats(l, n), NEW b \in Nat \ {0}, NEW p \in 0..(n - 1)
    PROVE  l[p] * NatPower(b, p) <= Worth(l, n, b)
  <1>. DEFINE f == [j \in 0..(n - 1) |-> l[j] * NatPower(b, j)]
              v == l[p] * NatPower(b, p)
              s == [j \in 0..(n - 1) |-> IF j = p THEN v ELSE 0]
  <1>1. ASSUME NEW j \in 0..(n - 1) PROVE f[j] \in Nat /\ f[j] = l[j] * NatPower(b, j)
    <2>1. j \in Nat /\ l[j] \in Nat
      BY DEF IsNats
    <2>2. NatPower(b, j) \in Nat
      BY <2>1, PowerType
    <2>3. l[j] * NatPower(b, j) \in Nat
      BY <2>1, <2>2
    <2>. QED
      BY <2>3
  <1>2. f[p] = v
    BY <1>1
  <1>3. v \in Nat
    BY <1>1, <1>2
  <1>4. Worth(l, n, b) = Total(f, n)
    BY DEF Worth
  <1>. HIDE DEF f, v
  <1>5. IsSingle(s, n, p, v)
    BY DEF IsSingle
  <1>6. \A j \in 0..(n - 1) : s[j] \in Nat /\ s[j] <= f[j]
    <2>1. ASSUME NEW j \in 0..(n - 1) PROVE s[j] \in Nat /\ s[j] <= f[j]
      <3>1. CASE j = p
        BY <1>1, <1>2, <1>3, <3>1
      <3>2. CASE j # p
        BY <1>1, <3>2
      <3>. QED
        BY <3>1, <3>2
    <2>. QED
      BY <2>1
  <1>. HIDE DEF s
  <1>7. IsInts(f, n) /\ IsInts(s, n)
    BY <1>1, <1>6 DEF IsInts
  <1>8. Total(s, n) <= Total(f, n)
    BY <1>6, <1>7, TotalAtMost
  <1>9. Total(s, n) = v
    BY <1>3, <1>5, TotalSingle
  <1>. QED
    BY <1>4, <1>8, <1>9 DEF v

\* fit_nat_to_limbs leaves no limb out.
LEMMA FitWorth ==
    ASSUME NEW n \in Nat, NEW v \in Nat, v < NatPower(Base, n)
    PROVE  LimbsToNat(FitNatToLimbs(v, n)) = v
  <1>. DEFINE k == Bits(v) \div LimbWidth + 1  f == FitNatToLimbs(v, n)  w == LimbWidth
  <1>1. Base \in Nat \ {0, 1} /\ w \in Nat \ {0} /\ Bits(v) \in Nat /\ v < NatPower(2, Bits(v))
    BY BaseType, LimbAssumption, BitsType
  <1>2. k \in Nat /\ w * k \in Nat /\ Bits(v) <= w * k
    <2>. DEFINE u == Bits(v) \div w
    <2>1. u \in Nat /\ Bits(v) % w \in 0..(w - 1) /\ Bits(v) = w * u + (Bits(v) % w)
      BY <1>1, DivMod
    <2>2. k = u + 1
      OBVIOUS
    <2>. HIDE DEF u, k, w
    <2>3. w * u \in Nat /\ w * (u + 1) = w * u + w
      BY <1>1, <2>1
    <2>. QED
      BY <1>1, <2>1, <2>2, <2>3
  <1>. HIDE DEF k
  <1>3. v < NatPower(Base, k)
    <2>1. NatPower(Base, k) = NatPower(2, w * k)
      BY <1>1, <1>2, PowerMultiply DEF Base
    <2>2. NatPower(2, Bits(v)) <= NatPower(2, w * k) /\ NatPower(2, Bits(v)) \in Nat /\ NatPower(2, w * k) \in Nat
      BY <1>1, <1>2, PowerGrows, PowerType
    <2>. QED
      BY <1>1, <2>1, <2>2
  <1>4. DOMAIN f = 0..(n - 1) /\ Size(NatToLimbs(v, k)) = k
    <2>1. DOMAIN f = 0..(n - 1)
      BY DEF FitNatToLimbs, Resized
    <2>2. DOMAIN NatToLimbs(v, k) = 0..(k - 1)
      BY DEF NatToLimbs
    <2>. QED
      BY <1>2, <2>1, <2>2, SizeOf
  <1>5. ASSUME NEW j \in 0..(n - 1) PROVE f[j] = (v \div NatPower(Base, j)) % Base
    <2>1. j \in Nat /\ f[j] = IF j < k THEN NatToLimbs(v, k)[j] ELSE 0
      BY <1>4 DEF FitNatToLimbs, Resized, k
    <2>2. CASE j < k
      <3>1. j \in 0..(k - 1)
        BY <1>2, <2>1, <2>2
      <3>. QED
        BY <2>1, <2>2, <3>1 DEF NatToLimbs
    <2>3. CASE ~(j < k)
      <3>. DEFINE b == Base
      <3>1. b \in Nat \ {0} /\ k \in Nat /\ j \in Nat /\ k <= j
        BY <1>1, <1>2, <2>1, <2>3
      <3>. HIDE DEF b
      <3>2. NatPower(b, k) <= NatPower(b, j) /\ NatPower(b, j) \in Nat \ {0} /\ NatPower(b, k) \in Nat \ {0}
        BY <3>1, PowerGrows, PowerType
      <3>. USE DEF b
      <3>. DEFINE q == NatPower(Base, j)
      <3>3. q \in Nat \ {0} /\ v < q
        BY <1>3, <3>2
      <3>. HIDE DEF q
      <3>4. v = q * 0 + v
        BY <3>3
      <3>5. v \div q = 0
        BY <3>3, <3>4, DivUnique
      <3>6. 0 % Base = 0
        BY <1>1
      <3>. QED
        BY <2>1, <2>3, <3>5, <3>6 DEF q
    <2>. QED
      BY <2>2, <2>3
  <1>6. LimbsToNat(f) = Worth(f, n, Base)
    BY <1>4, LimbsWorth
  <1>. HIDE DEF f
  <1>7. Base \in Nat \ {0}
    BY <1>1
  <1>8. Worth(f, n, Base) = v
    BY <1>5, <1>7, Digits
  <1>. QED
    BY <1>6, <1>8 DEF f

\* The quotient has the limbs its operation gives it.
LEMMA QuotientFits ==
    ASSUME NEW a \in Nat, NEW b \in Nat, NEW c \in Nat \ {0}, NEW n \in Nat, NEW base \in Nat \ {0}
    PROVE  /\ (a * b) \div c \in Nat /\ (a * b) % c \in Nat /\ (a * b) % c < c
           /\ a * b = c * ((a * b) \div c) + ((a * b) % c)
           /\ a < NatPower(base, n) /\ b < NatPower(base, n) => (a * b) \div c < NatPower(base, 2 * n)
           /\ a < c /\ b < c => (a * b) \div c < c
  <1>. DEFINE v == a * b  q == v \div c  r == v % c  t == NatPower(base, n)
  <1>1. v \in Nat
    OBVIOUS
  <1>2. q \in Nat /\ r \in 0..(c - 1) /\ v = c * q + r
    <2>. HIDE DEF v
    <2>. QED
      BY <1>1, DivMod
  <1>3. NatPower(base, 2 * n) = t * t /\ t \in Nat \ {0}
    <2>1. n + n = 2 * n /\ base \in Nat
      OBVIOUS
    <2>2. NatPower(base, n + n) = t * t
      BY <2>1, PowerAdd
    <2>. QED
      BY <2>1, <2>2, PowerType
  <1>. HIDE DEF q, r, t
  <1>4. a < t /\ b < t => q < t * t
    <2>. SUFFICES ASSUME a < t, b < t PROVE q < t * t
      OBVIOUS
    <2>1. a * b <= a * t /\ a * t < t * t /\ a * t \in Nat /\ t * t \in Nat
      <3>1. a * b <= a * t
        BY <1>3
      <3>2. a * t < t * t
        BY <1>3
      <3>. QED
        BY <1>3, <3>1, <3>2
    <2>2. q <= c * q /\ c * q \in Nat
      BY <1>2
    <2>. QED
      BY <1>1, <1>2, <1>3, <2>1, <2>2
  <1>5. a < c /\ b < c => q < c
    <2>. SUFFICES ASSUME a < c, b < c, c <= q PROVE FALSE
      BY <1>2
    <2>1. a * b <= a * c
      OBVIOUS
    <2>2. a * c < c * c
      OBVIOUS
    <2>3. c * c <= c * q
      BY <1>2
    <2>4. a * c \in Nat /\ c * c \in Nat /\ c * q \in Nat
      BY <1>2
    <2>. HIDE DEF v
    <2>5. v <= a * c
      BY <2>1 DEF v
    <2>. QED
      BY <1>1, <1>2, <2>2, <2>3, <2>4, <2>5
  <1>. QED
    BY <1>2, <1>3, <1>4, <1>5 DEF q, r, t

\* An exponent of as many bits as pow_mod is told passes enforce_fits_in_bits.
LEMMA ExponentFits ==
    ASSUME IsVar(y), expBits \in Nat \ {0}, expBits >= NLimbs * LimbWidth \/ Y < NatPower(2, expBits)
    PROVE  FitsInBits
  <1>. DEFINE w == LimbWidth  h == expBits \div w  t == expBits % w
  <1>1. w \in Nat \ {0} /\ NLimbs \in Nat \ {0} /\ Base \in Nat \ {0} /\ MaxWord = Base - 1
    BY LimbAssumption, BaseType DEF MaxWord
  <1>2. h \in Nat /\ t \in 0..(w - 1) /\ expBits = w * h + t
    BY <1>1, DivMod
  <1>3. DOMAIN y = 0..(NLimbs - 1) /\ IsNats(y, NLimbs) /\ \A k \in 0..(NLimbs - 1) : y[k] <= MaxWord
    BY <1>1, BaseType, AreLimbsNats DEF IsVar
  <1>4. Y = Worth(y, NLimbs, Base) /\ Y \in Nat
    BY VarType DEF Y
  <1>5. ASSUME NEW k \in 0..(NLimbs - 1) PROVE y[k] < NatPower(2, WidthOf(k))
    <2>1. k \in Nat /\ y[k] \in Nat /\ y[k] < NatPower(2, w)
      <3>1. k \in Nat /\ y[k] \in Nat /\ y[k] < Base
        BY <1>1, <1>3 DEF IsNats
      <3>. QED
        BY <3>1 DEF Base
    <2>2. WidthOf(k) = IF k < h THEN w ELSE IF k = h THEN t ELSE 0
      BY DEF WidthOf
    <2>. HIDE DEF h, t, w
    <2>3. CASE k < h
      BY <2>1, <2>2, <2>3
    <2>4. CASE ~(k < h)
      <3>1. h <= k
        BY <1>2, <2>1, <2>4
      <3>2. expBits < NLimbs * w
        <4>1. k + 1 <= NLimbs
          BY <1>1
        <4>2. w * h <= w * k
          BY <1>1, <1>2, <2>1, <3>1
        <4>3. w * (k + 1) <= w * NLimbs
          BY <1>1, <2>1, <4>1
        <4>4. w * (k + 1) = w * k + w /\ w * k \in Nat /\ w * h \in Nat /\ NLimbs * w = w * NLimbs
              /\ w * NLimbs \in Nat
          BY <1>1, <1>2, <2>1
        <4>. QED
          BY <1>1, <1>2, <4>2, <4>3, <4>4
      <3>3. Y < NatPower(2, expBits)
        <4>1. NLimbs * w \in Nat
          BY <1>1
        <4>. QED
          BY <3>2, <4>1 DEF w
      <3>. DEFINE p == NatPower(Base, h)  q == NatPower(2, t)
      <3>4. NatPower(2, expBits) = p * q /\ p \in Nat \ {0} /\ q \in Nat \ {0}
        <4>1. NatPower(2, w * h + t) = NatPower(2, w * h) * NatPower(2, t)
          <5>1. w * h \in Nat /\ t \in Nat
            BY <1>1, <1>2
          <5>. QED
            BY <5>1, PowerAdd
        <4>2. NatPower(2, w * h) = p
          BY <1>1, <1>2, PowerMultiply DEF Base, w
        <4>3. p \in Nat \ {0}
          BY <1>1, <1>2, PowerType
        <4>4. q \in Nat \ {0}
          BY <1>2, PowerType
        <4>. QED
          BY <1>2, <4>1, <4>2, <4>3, <4>4
      <3>5. y[k] * NatPower(Base, k) <= Y
        BY <1>1, <1>3, <1>4, LimbBelow
      <3>6. CASE k = h
        <4>1. y[k] * p <= Y /\ Y < p * q
          BY <3>3, <3>4, <3>5, <3>6
        <4>2. y[k] * p \in Nat /\ p * q \in Nat
          BY <2>1, <3>4
        <4>3. y[k] * p < p * q
          BY <1>4, <4>1, <4>2
        <4>. HIDE DEF p, q
        <4>4. q <= y[k] => p * q <= y[k] * p
          BY <2>1, <3>4
        <4>5. y[k] < q
          BY <2>1, <3>4, <4>2, <4>3, <4>4
        <4>. QED
          BY <1>2, <2>1, <2>2, <3>6, <4>5 DEF q
      <3>7. CASE k # h
        <4>1. h + 1 <= k
          BY <1>2, <2>1, <3>1, <3>7
        <4>2. NatPower(Base, h + 1) <= NatPower(Base, k) /\ NatPower(Base, k) \in Nat \ {0}
              /\ NatPower(Base, h + 1) = p * Base
          <5>. DEFINE b == Base
          <5>. HIDE DEF b
          <5>1. b \in Nat \ {0} /\ h + 1 \in Nat
            BY <1>1, <1>2 DEF b
          <5>2. NatPower(b, h + 1) <= NatPower(b, k) /\ NatPower(b, k) \in Nat \ {0}
            BY <2>1, <4>1, <5>1, PowerGrows, PowerType
          <5>3. NatPower(b, h + 1) = NatPower(b, h) * b
            BY <1>2, PowerStep
          <5>. QED
            BY <5>2, <5>3 DEF b
        <4>3. q < Base
          <5>1. NatPower(2, t + 1) <= NatPower(2, w) /\ NatPower(2, t + 1) = q * 2
            BY <1>1, <1>2, PowerGrows, PowerStep
          <5>2. NatPower(2, w) = Base
            BY DEF Base, w
          <5>3. q * 2 <= Base
            BY <5>1, <5>2
          <5>. HIDE DEF q, p
          <5>. QED
            BY <1>1, <3>4, <5>3
        <4>4. p * q < p * Base
          BY <1>1, <3>4, <4>3
        <4>5. Y < NatPower(Base, k)
          <5>. DEFINE e == NatPower(Base, k)
          <5>1. e \in Nat \ {0} /\ p * Base <= e
            BY <4>2
          <5>2. p * q \in Nat /\ p * Base \in Nat
            BY <1>1, <3>4
          <5>. HIDE DEF e, p, q
          <5>3. Y < p * q
            BY <3>3, <3>4
          <5>4. Y < e
            BY <1>4, <4>4, <5>1, <5>2, <5>3
          <5>. QED
            BY <5>4 DEF e
        <4>6. y[k] = 0
          <5>. DEFINE e == NatPower(Base, k)
          <5>1. e \in Nat \ {0} /\ y[k] * e < e
            <6>1. e \in Nat \ {0} /\ y[k] * e \in Nat /\ y[k] * e <= Y /\ Y < e
              BY <2>1, <3>5, <4>2, <4>5
            <6>. HIDE DEF e
            <6>. QED
              BY <1>4, <6>1
          <5>. HIDE DEF e
          <5>2. y[k] >= 1 => e <= y[k] * e
            BY <2>1, <5>1
          <5>3. y[k] * e \in Nat
            BY <2>1, <5>1
          <5>. QED
            BY <2>1, <5>1, <5>2, <5>3
        <4>7. WidthOf(k) = 0 /\ NatPower(2, 0) = 1
          BY <2>2, <2>4, <3>7, PowerStep
        <4>. QED
          BY <4>6, <4>7
      <3>. QED
        BY <3>6, <3>7
    <2>. QED
      BY <2>3, <2>4
  <1>. QED
    BY <1>3, <1>5 DEF FitsInBits

\* A modulus that is not zero has a limb that is not.
LEMMA NotZero ==
    ASSUME NEW l, IsVar(l), LimbsToNat(l) > 0
    PROVE  ~IsZero(l)
  <1>. SUFFICES ASSUME IsZero(l) PROVE FALSE
    OBVIOUS
  <1>1. DOMAIN l = 0..(NLimbs - 1) /\ LimbsToNat(l) = Worth(l, NLimbs, Base) /\ NLimbs \in Nat
        /\ Base \in Nat \ {0}
    BY VarType, LimbAssumption, BaseType DEF IsVar, AreLimbs
  <1>. DEFINE f == [j \in 0..(NLimbs - 1) |-> l[j] * NatPower(Base, j)]
  <1>2. ASSUME NEW j \in 0..(NLimbs - 1) PROVE f[j] = 0
    <2>1. l[j] = 0 /\ j \in Nat
      BY <1>1 DEF IsZero
    <2>2. NatPower(Base, j) \in Nat
      BY <1>1, <2>1, PowerType
    <2>. QED
      BY <2>1, <2>2
  <1>. HIDE DEF f
  <1>3. Total(f, NLimbs) = 0
    BY <1>1, <1>2, TotalZero
  <1>. QED
    BY <1>1, <1>3 DEF Worth, f

\* No operation in range has constraints that no witness can satisfy.
LEMMA InRangePossible == ASSUME Inputs, InRange PROVE ~Impossible
  <1>1. InputsOk /\ IsVar(x) /\ IsVar(y) /\ (op \in Modular => IsVar(m))
    <2>1. InputsOk
      BY DEF InRange
    <2>2. IsCanonical(x) /\ IsCanonical(y) /\ (op \in Modular => IsCanonical(m))
      BY <2>1 DEF Inputs, InputsOk, Ops
    <2>. QED
      BY <2>1, <2>2, CanonicalIsVar DEF Inputs
  <1>2. WordOk
    <2>1. (word.x = MaxWord /\ word.y = MaxWord) \/ op \in Modular \ Checked
      BY PlainWord
    <2>2. MultWord(MaxWord, MaxWord) < P /\ 2 * Base < P /\ Base \in Nat \ {0, 1} /\ MaxWord = Base - 1 /\ P \in Nat
      BY RoomAssumption, HonestRoomAssumption, BaseType, PrimeAssumption DEF MaxWord
    <2>3. AddWord(MaxWord, MaxWord) < P /\ SubWord(MaxWord, MaxWord) < P
      BY <2>2 DEF AddWord, SubWord, Larger
    <2>4. CASE op \in Modular \ Checked
      BY <2>4 DEF WordOk, Checked, Modular, Powers, Windowed
    <2>5. CASE word.x = MaxWord /\ word.y = MaxWord
      <3>1. op = "add" => AddWord(word.x, word.y) < P
        BY <2>3, <2>5
      <3>2. op = "sub" => SubWord(word.x, word.y) < P /\ AddWord(word.y, MaxWord) < P
        BY <2>3, <2>5
      <3>3. op = "mult" => MultWord(word.x, word.y) < P
        BY <2>2, <2>5
      <3>. QED
        BY <3>1, <3>2, <3>3 DEF WordOk
    <2>. QED
      BY <2>1, <2>4, <2>5
  <1>3. op \in Modular => ~IsZero(m)
    BY <1>1, NotZero DEF InRange, M
  <1>4. op \in Windowed => FitsInBits
    BY <1>1, ExponentFits DEF InRange, Inputs, Powers, Windowed
  <1>5. op \in Windowed \cup {"mult_mod"} => op \in Modular
    BY DEF Powers, Modular, Windowed
  <1>6. op = "verify_opt" => X < M
    BY DEF InRange
  <1>. QED
    BY <1>1, <1>2, <1>3, <1>4, <1>5, <1>6 DEF Impossible

-----------------------------------------------------------------------------
(* Such a prover goes through to the end.                                  *)

(* The fast path is called on residues. *)
ResiduesInv == op \in Modular \ (Checked \cup Powers) => X < M /\ Y < M

(* Nothing has been refused but where the code panics, and nothing that is *)
(* compared will be.                                                       *)
Waiting == Promising(check) /\ \A k \in DOMAIN checks : Promising(checks[k])
AllSnug == Snug(check) /\ \A k \in DOMAIN checks : Snug(checks[k])
Committed ==
    /\ verdict = "unsatisfied" => Underflows /\ ~WordCovers
    /\ phase = "enforce" => /\ Waiting
                            /\ WordCovers => AllSnug
                            /\ op \in Modular /\ check.kind = "less" => Out = (X * Y) % M
    /\ check.kind = "equal" /\ i < Length => phase = "enforce" \/ verdict = "unsatisfied"

HonestInv == InRange /\ honest => Committed

\* What an operation was called with does not change.
LEMMA KeptRange ==
    ASSUME Kept
    PROVE  /\ InRange' = InRange /\ WordCovers' = WordCovers
           /\ ResiduesInv => ResiduesInv'
  <1>1. X' = X /\ Y' = Y /\ M' = M
    BY KeptInputs
  <1>2. InputsOk' = InputsOk
    BY DEF Kept, InputsOk, IsCanonical
  <1>3. InRange' = InRange
    BY <1>1, <1>2 DEF Kept, InRange
  <1>4. WordCovers' = WordCovers
    BY DEF Kept, WordCovers, Covers
  <1>5. ResiduesInv => ResiduesInv'
    BY <1>1 DEF Kept, ResiduesInv
  <1>. QED
    BY <1>3, <1>4, <1>5

\* Raising checks that are promising.
LEMMA EnforceHonest ==
    ASSUME phase = "allocate", verdict = "running", NEW res, NEW todo, NEW h, Enforce(res, todo, h),
           Promising(Head(todo)), \A k \in DOMAIN Tail(todo) : Promising(Tail(todo)[k]),
           Snug(Head(todo)), \A k \in DOMAIN Tail(todo) : Snug(Tail(todo)[k]),
           op \in Modular /\ Head(todo).kind = "less" => LimbsToNat(res) = (X * Y) % M
    PROVE  Committed'
  <1>1. /\ Kept /\ phase' = "enforce" /\ result' = res /\ checks' = Tail(todo) /\ check' = Head(todo)
        /\ verdict' = "running"
    BY DEF Enforce, Restart, Kept
  <1>2. op' = op /\ X' = X /\ Y' = Y /\ M' = M
    BY <1>1, KeptInputs DEF Kept
  <1>3. Waiting' /\ AllSnug'
    BY <1>1 DEF Waiting, AllSnug, Promising, Roomy, Snug, LeftOf, RightOf
  <1>4. (op \in Modular /\ check.kind = "less" => Out = (X * Y) % M)'
    BY <1>1, <1>2 DEF Out
  <1>. QED
    BY <1>1, <1>3, <1>4 DEF Committed

\* A comparison of equal numbers with room for its carries.
LEMMA ComparesPromising ==
    ASSUME NEW c, NEW u, ComparesTo(c, u, u), Roomy(c)
    PROVE  Promising(c) /\ c.kind # "less"
  BY DEF ComparesTo, Promising

\* The sum fits in the limbs of the result.
LEMMA AddHonest == ASSUME OpInv, Add, InRange, honest' PROVE Committed'
  <1>1. op = "add" /\ phase = "allocate" /\ verdict = "running" /\ ~Impossible /\ Inputs
    BY DEF Add, Ready, OpInv
  <1>2. word.x = MaxWord /\ word.y = MaxWord /\ IsVar(x) /\ IsVar(y)
    BY <1>1, InputsReady, PlainWord DEF Checked
  <1>3. PICK out \in BigNats :
          Enforce(out,
                  <<EqualCheck(LimbwiseSum(x, y, NLimbs), out, EqualWord(AddWord(word.x, word.y), MaxWord))>>,
                  out = NatToLimbs(X + Y, NLimbs))
    BY DEF Add
  <1>. DEFINE c == EqualCheck(LimbwiseSum(x, y, NLimbs), out, EqualWord(AddWord(word.x, word.y), MaxWord))
              h == (out = NatToLimbs(X + Y, NLimbs))
  <1>4. IsVar(out)
    BY BigNatIsVar
  <1>5. h
    BY <1>3 DEF Enforce
  <1>6. LimbsToNat(out) = X + Y
    <2>1. X + Y \in Nat /\ X + Y < NatPower(Base, NLimbs) /\ NLimbs \in Nat
      BY <1>1, <1>2, VarType, LimbAssumption DEF X, Y, InRange
    <2>. QED
      BY <1>5, <2>1, NatToLimbsWorth
  <1>7. ComparesTo(c, X + Y, LimbsToNat(out)) /\ Roomy(c) /\ Snug(c)
    BY <1>2, <1>4, SumCheck, SumRoomy DEF X, Y
  <1>. HIDE DEF c, h
  <1>8. Enforce(out, <<c>>, h)
    BY <1>3 DEF c, h
  <1>9. Head(<<c>>) = c /\ Tail(<<c>>) = <<>>
    BY SingleTodo
  <1>10. Promising(c) /\ c.kind # "less"
    BY <1>6, <1>7, ComparesPromising
  <1>11. /\ Promising(Head(<<c>>)) /\ \A k \in DOMAIN Tail(<<c>>) : Promising(Tail(<<c>>)[k])
         /\ Snug(Head(<<c>>)) /\ \A k \in DOMAIN Tail(<<c>>) : Snug(Tail(<<c>>)[k])
         /\ Head(<<c>>).kind # "less"
    BY <1>7, <1>9, <1>10
  <1>. QED
    BY <1>1, <1>8, <1>11, EnforceHonest

\* What is reduced is a number of as many limbs.
LEMMA ReduceHonest == ASSUME OpInv, Reduce, InRange, honest' PROVE Committed'
  <1>1. op = "reduce" /\ phase = "allocate" /\ verdict = "running" /\ ~Impossible /\ Inputs
    BY DEF Reduce, Ready, OpInv
  <1>2. word.x = MaxWord /\ IsVar(x)
    BY <1>1, InputsReady, PlainWord DEF Checked
  <1>3. PICK out \in BigNats :
          Enforce(out, <<EqualCheck(x, out, EqualWord(word.x, MaxWord))>>, out = NatToLimbs(X, NLimbs))
    BY DEF Reduce
  <1>. DEFINE c == EqualCheck(x, out, EqualWord(word.x, MaxWord))
              h == (out = NatToLimbs(X, NLimbs))
  <1>4. IsVar(out)
    BY BigNatIsVar
  <1>5. h
    BY <1>3 DEF Enforce
  <1>6. LimbsToNat(out) = X
    <2>1. X \in Nat /\ X < NatPower(Base, NLimbs) /\ NLimbs \in Nat
      BY <1>2, VarType, LimbAssumption DEF X
    <2>. QED
      BY <1>5, <2>1, NatToLimbsWorth
  <1>7. ComparesTo(c, X, LimbsToNat(out)) /\ Roomy(c) /\ Snug(c)
    BY <1>2, <1>4, VarCheck, VarRoomy DEF X
  <1>. HIDE DEF c, h
  <1>8. Enforce(out, <<c>>, h)
    BY <1>3 DEF c, h
  <1>9. Head(<<c>>) = c /\ Tail(<<c>>) = <<>>
    BY SingleTodo
  <1>10. Promising(c) /\ c.kind # "less"
    BY <1>6, <1>7, ComparesPromising
  <1>11. /\ Promising(Head(<<c>>)) /\ \A k \in DOMAIN Tail(<<c>>) : Promising(Tail(<<c>>)[k])
         /\ Snug(Head(<<c>>)) /\ \A k \in DOMAIN Tail(<<c>>) : Snug(Tail(<<c>>)[k])
         /\ Head(<<c>>).kind # "less"
    BY <1>7, <1>9, <1>10
  <1>. QED
    BY <1>1, <1>8, <1>11, EnforceHonest

\* The difference and its sum with y, which is x.
LEMMA SubHonest == ASSUME OpInv, Sub, InRange, honest' PROVE Committed'
  <1>1. op = "sub" /\ phase = "allocate" /\ verdict = "running" /\ ~Impossible /\ Inputs
    BY DEF Sub, Ready, OpInv
  <1>2. word.x = MaxWord /\ word.y = MaxWord /\ IsVar(x) /\ IsVar(y)
    BY <1>1, InputsReady, PlainWord DEF Checked
  <1>. DEFINE clamped == IF X >= Y THEN X - Y ELSE 0
              first(diff, sum) ==
                  EqualCheck(LimbwiseSum(y, diff, NLimbs), sum, EqualWord(AddWord(word.y, MaxWord), MaxWord))
              second(sum) == EqualCheck(x, sum, EqualWord(word.x, MaxWord))
  <1>3. PICK diff \in BigNats, sum \in BigNats :
          Enforce(diff, <<first(diff, sum), second(sum)>>,
                  diff = NatToLimbs(clamped, NLimbs) /\ sum = NatToLimbs(Y + clamped, NLimbs))
    BY DEF Sub
  <1>. DEFINE c == first(diff, sum)  d == second(sum)
              h == (diff = NatToLimbs(clamped, NLimbs) /\ sum = NatToLimbs(Y + clamped, NLimbs))
  <1>4. IsVar(diff) /\ IsVar(sum)
    BY BigNatIsVar
  <1>5. diff = NatToLimbs(clamped, NLimbs) /\ sum = NatToLimbs(Y + clamped, NLimbs)
    BY <1>3 DEF Enforce
  <1>6. LimbsToNat(diff) = X - Y /\ LimbsToNat(sum) = X /\ X \in Nat /\ Y \in Nat
    <2>1. X \in Nat /\ Y \in Nat /\ X < NatPower(Base, NLimbs) /\ NLimbs \in Nat /\ Y <= X
      BY <1>1, <1>2, VarType, LimbAssumption DEF X, Y, InRange
    <2>2. clamped = X - Y /\ Y + clamped = X /\ clamped \in Nat
      BY <2>1
    <2>. HIDE DEF clamped
    <2>3. NatPower(Base, NLimbs) \in Nat
      BY <2>1, BaseType, PowerNat
    <2>4. clamped < NatPower(Base, NLimbs)
      BY <2>1, <2>2, <2>3
    <2>5. LimbsToNat(NatToLimbs(clamped, NLimbs)) = clamped /\ LimbsToNat(NatToLimbs(X, NLimbs)) = X
      BY <2>1, <2>2, <2>4, NatToLimbsWorth
    <2>. QED
      BY <1>5, <2>1, <2>2, <2>5
  <1>7. ComparesTo(c, Y + LimbsToNat(diff), LimbsToNat(sum)) /\ Roomy(c) /\ Snug(c)
    BY <1>2, <1>4, SumCheck, SumRoomy DEF Y
  <1>8. ComparesTo(d, X, LimbsToNat(sum)) /\ Roomy(d) /\ Snug(d)
    BY <1>2, <1>4, VarCheck, VarRoomy DEF X
  <1>9. Enforce(diff, <<c, d>>, h)
    BY <1>3
  <1>. HIDE DEF c, d, h
  <1>10. Head(<<c, d>>) = c /\ Tail(<<c, d>>) = <<d>>
    BY TwoTodo
  <1>11. Promising(c) /\ c.kind # "less" /\ Promising(d)
    <2>1. Y + LimbsToNat(diff) = X
      BY <1>6
    <2>. QED
      BY <1>6, <1>7, <1>8, <2>1, ComparesPromising
  <1>12. /\ Promising(Head(<<c, d>>)) /\ \A k \in DOMAIN Tail(<<c, d>>) : Promising(Tail(<<c, d>>)[k])
         /\ Snug(Head(<<c, d>>)) /\ \A k \in DOMAIN Tail(<<c, d>>) : Snug(Tail(<<c, d>>)[k])
         /\ Head(<<c, d>>).kind # "less"
    BY <1>7, <1>8, <1>10, <1>11
  <1>. QED
    BY <1>1, <1>9, <1>12, EnforceHonest

\* The remainder is below the modulus.
LEMMA RemainderHonest ==
    ASSUME OpInv, phase = "allocate", ~Impossible, op \in Modular \ Powers, Remainder, InRange, honest'
    PROVE  Committed'
  <1>1. Inputs /\ op \in Modular /\ verdict = "running"
    BY DEF OpInv
  <1>2. IsVar(x) /\ IsVar(y) /\ IsVar(m)
    BY <1>1, InputsReady
  <1>. DEFINE c(rem) == LessCheck(rem, m)
              h(rem) == IF M = 0 THEN IsZero(rem) ELSE rem = NatToLimbs((X * Y) % M, NLimbs)
  <1>3. PICK rem \in BigNats : Enforce(rem, <<c(rem)>>, h(rem))
    BY DEF Remainder
  <1>. DEFINE d == c(rem)  k == h(rem)
  <1>4. IsVar(rem)
    BY BigNatIsVar
  <1>5. X \in Nat /\ Y \in Nat /\ M \in Nat \ {0} /\ M < NatPower(Base, NLimbs) /\ NLimbs \in Nat
    BY <1>1, <1>2, VarType, LimbAssumption DEF X, Y, M, InRange
  <1>6. rem = NatToLimbs((X * Y) % M, NLimbs)
    BY <1>3, <1>5 DEF Enforce
  <1>7. LimbsToNat(rem) = (X * Y) % M /\ (X * Y) % M < M
    <2>. DEFINE v == (X * Y) % M
    <2>1. v \in Nat /\ v < M
      <3>1. X * Y \in Nat
        BY <1>5
      <3>. QED
        BY <1>5, <3>1, ModType
    <2>. HIDE DEF v
    <2>2. NatPower(Base, NLimbs) \in Nat
      BY <1>5, BaseType, PowerNat
    <2>3. v < NatPower(Base, NLimbs)
      BY <1>5, <2>1, <2>2
    <2>4. LimbsToNat(NatToLimbs(v, NLimbs)) = v
      BY <1>5, <2>1, <2>3, NatToLimbsWorth
    <2>. QED
      BY <1>6, <2>1, <2>4 DEF v
  <1>8. Orders(d, LimbsToNat(rem), M)
    BY <1>2, <1>4, VarOrder DEF M
  <1>9. Enforce(rem, <<d>>, k)
    BY <1>3
  <1>. HIDE DEF d, k
  <1>10. Head(<<d>>) = d /\ Tail(<<d>>) = <<>>
    BY SingleTodo
  <1>11. Promising(d) /\ Snug(d)
    BY <1>7, <1>8 DEF Orders, Promising, Snug
  <1>12. /\ Promising(Head(<<d>>)) /\ \A j \in DOMAIN Tail(<<d>>) : Promising(Tail(<<d>>)[j])
         /\ Snug(Head(<<d>>)) /\ \A j \in DOMAIN Tail(<<d>>) : Snug(Tail(<<d>>)[j])
    BY <1>10, <1>11
  <1>. QED
    BY <1>1, <1>7, <1>9, <1>12, EnforceHonest

\* An iteration of a promising check is refused only where the code panics.
LEMMA LoopHonest ==
    ASSUME OpInv, ChainInv, SumInv, DigitInv, Loop, Committed
    PROVE  Committed'
  <1>1. Kept /\ phase = "enforce" /\ result' = result /\ checks' = checks
    BY DEF Loop, Kept
  <1>2. check' = check /\ Length' = Length
    BY DEF Loop, ChainStep, BorrowStep, CarryStep, Refuse, Length
  <1>3. IsLegal(check) /\ Promising(check) /\ verdict = "running" /\ (WordCovers => Snug(check))
    BY <1>1 DEF OpInv, Enforcing, Committed, Waiting, AllSnug
  <1>4. ~BorrowFails
    BY <1>3, BorrowGoesThrough DEF Promising, BorrowFails, BorrowEnds
  <1>5. CarryFails => Underflows /\ ~WordCovers
    <2>. SUFFICES ASSUME CarryFails PROVE Underflows /\ ~WordCovers
      OBVIOUS
    <2>1. check.kind = "equal" /\ i < Length
      BY DEF CarryFails
    <2>2. LeftOf(check) = RightOf(check) /\ Roomy(check)
      BY <1>3, <2>1 DEF Promising
    <2>3. ~HonestCarryExists
      BY <1>3, <2>1, <2>2, CarryGoesThrough
    <2>. QED
      BY <1>3, <2>1, <2>3, SnugHolds DEF Underflows
  <1>6. WordCovers' = WordCovers
    BY <1>1, KeptRange
  <1>7. (verdict = "unsatisfied" => Underflows /\ ~WordCovers)'
    <2>. SUFFICES ASSUME verdict' = "unsatisfied" PROVE Underflows' /\ ~WordCovers'
      OBVIOUS
    <2>1. Refuse
      BY <1>3 DEF Loop, ChainStep, BorrowStep, CarryStep
    <2>2. Underflows /\ ~WordCovers
      BY <1>4, <1>5, <2>1 DEF Refuse
    <2>3. i' = i /\ carry' = carry
      BY <2>1 DEF Refuse, registers
    <2>4. Underflows'
      BY <1>2, <2>2, <2>3 DEF Underflows, HonestCarryExists
    <2>. QED
      BY <1>6, <2>2, <2>4
  <1>8. op' = op /\ X' = X /\ Y' = Y /\ M' = M /\ Out' = Out
    BY <1>1, KeptInputs DEF Kept, Out
  <1>9. Waiting' /\ (WordCovers => AllSnug)'
    BY <1>1, <1>2, <1>6 DEF Committed, Waiting, AllSnug, Promising, Roomy, Snug, LeftOf, RightOf
  <1>10. (op \in Modular /\ check.kind = "less" => Out = (X * Y) % M)'
    BY <1>1, <1>2, <1>8 DEF Committed
  <1>11. phase' = "enforce" \/ verdict' = "unsatisfied"
    BY <1>1 DEF Loop
  <1>. QED
    BY <1>7, <1>9, <1>10, <1>11 DEF Committed

\* The check that waits is promising too.
LEMMA NextCheckHonest == ASSUME OpInv, NextCheck, Committed PROVE Committed'
  <1>1. /\ Kept /\ phase = "enforce" /\ phase' = phase /\ verdict' = verdict /\ result' = result
        /\ checks # <<>> /\ check' = Head(checks) /\ checks' = Tail(checks) /\ verdict = "running"
    BY DEF NextCheck, Kept, Restart
  <1>2. Inputs /\ Enforcing
    BY <1>1 DEF OpInv
  <1>3. op = "sub"
    BY <1>1, <1>2 DEF Enforcing, AddTied, ReduceTied, ModTied, Inputs, Ops, Checked, Modular, Powers, Windowed
  <1>4. PICK c : checks = <<c>>
    BY <1>1, <1>2, <1>3 DEF Enforcing, SubTied
  <1>5. check' = c /\ checks' = <<>>
    BY <1>1, <1>4, SingleTodo
  <1>6. Promising(c) /\ (WordCovers' => Snug(c))
    <2>1. /\ \A k \in DOMAIN checks : Promising(checks[k])
          /\ WordCovers => \A k \in DOMAIN checks : Snug(checks[k])
      BY <1>1 DEF Committed, Waiting, AllSnug
    <2>2. 1 \in DOMAIN <<c>> /\ <<c>>[1] = c
      OBVIOUS
    <2>3. WordCovers' = WordCovers
      BY <1>1, KeptRange
    <2>. QED
      BY <1>4, <2>1, <2>2, <2>3
  <1>7. Waiting' /\ (WordCovers' => AllSnug')
    BY <1>5, <1>6 DEF Waiting, AllSnug, Promising, Roomy, Snug, LeftOf, RightOf
  <1>8. (op \notin Modular)'
    BY <1>1, <1>3 DEF Kept, Modular, Powers, Windowed
  <1>. QED
    BY <1>1, <1>7, <1>8 DEF Committed

\* The quotient fits in the limbs it is given, and with the remainder it makes
\* up the product.
LEMMA QuotientHonest ==
    ASSUME OpInv, ResiduesInv, Quotient, InRange, Committed, honest'
    PROVE  Committed'
  <1>. DEFINE len(h) == IF Size(ModProduct) < Size(Product(m, h)) THEN Size(Product(m, h)) ELSE Size(ModProduct)
              c(h) == EqualCheck(Resized(ModProduct, len(h)), LimbwiseSum(Product(m, h), result, len(h)),
                                 ModWord(word.x, word.y, word.m))
  <1>1. /\ Kept /\ phase = "enforce" /\ phase' = phase /\ verdict' = verdict /\ checks' = checks
        /\ op \in Modular /\ check.kind = "less" /\ verdict = "running"
    BY DEF Quotient, Kept
  <1>2. PICK h \in [0..(QuotientLimbs - 1) -> Limb] :
           check' = c(h) /\ h = FitNatToLimbs((X * Y) \div M, QuotientLimbs)
    BY DEF Quotient, Restart
  <1>3. Inputs /\ Enforcing
    BY <1>1 DEF OpInv
  <1>4. IsVar(x) /\ IsVar(y) /\ IsVar(m) /\ IsVar(result) /\ checks = <<>>
    BY <1>1, <1>3 DEF Enforcing, ModTied
  <1>5. Out = (X * Y) % M
    BY <1>1 DEF Committed
  <1>6. /\ QuotientLimbs \in {NLimbs, 2 * NLimbs} /\ word \in Words \cup {Canonical}
        /\ QuotientLimbs \in Nat /\ NLimbs \in Nat \ {0}
    BY <1>3, LimbAssumption DEF QuotientLimbs, Inputs
  <1>7. AreLimbs(h, QuotientLimbs, MaxWord)
    BY BaseType DEF AreLimbs
  <1>8. ModProduct = Product(x, y)
    BY <1>3, <1>4, ModProductIsProduct
  <1>9. /\ X \in Nat /\ Y \in Nat /\ M \in Nat \ {0} /\ M < NatPower(Base, NLimbs)
        /\ X < NatPower(Base, NLimbs) /\ Y < NatPower(Base, NLimbs)
    BY <1>1, <1>4, VarType DEF X, Y, M, InRange
  <1>. DEFINE q == (X * Y) \div M
  <1>10. /\ q \in Nat /\ X * Y = M * q + Out /\ q < NatPower(Base, QuotientLimbs)
         /\ op # "mult_mod" => q < M
    <2>1. Base \in Nat \ {0}
      BY BaseType
    <2>2. /\ q \in Nat /\ X * Y = M * q + ((X * Y) % M)
          /\ q < NatPower(Base, 2 * NLimbs) /\ (X < M /\ Y < M => q < M)
      BY <1>6, <1>9, <2>1, QuotientFits
    <2>3. CASE op = "mult_mod"
      BY <1>5, <2>2, <2>3 DEF QuotientLimbs
    <2>4. CASE op # "mult_mod"
      <3>1. op \notin Powers
        BY <1>3 DEF Enforcing
      <3>2. X < M /\ Y < M
        BY <1>1, <2>4, <3>1 DEF ResiduesInv, Modular, Checked, Powers, Windowed
      <3>3. NatPower(Base, NLimbs) \in Nat
        BY <1>6, <2>1, PowerType
      <3>. HIDE DEF q
      <3>4. q < NatPower(Base, NLimbs)
        BY <1>9, <2>2, <3>2, <3>3
      <3>. QED
        BY <1>5, <2>2, <2>4, <3>2, <3>4 DEF QuotientLimbs
    <2>. QED
      BY <2>3, <2>4
  <1>. HIDE DEF q
  <1>11. LimbsToNat(h) = q
    BY <1>2, <1>6, <1>10, FitWorth DEF q
  <1>12. op # "mult_mod" => QuotientLimbs = NLimbs /\ \E t \in 0..(NLimbs - 1) : h[t] < MaxWord
    <2>. SUFFICES ASSUME op # "mult_mod"
                  PROVE  QuotientLimbs = NLimbs /\ \E t \in 0..(NLimbs - 1) : h[t] < MaxWord
      OBVIOUS
    <2>1. QuotientLimbs = NLimbs
      BY DEF QuotientLimbs
    <2>2. AreLimbs(h, NLimbs, MaxWord)
      BY <1>7, <2>1
    <2>3. Worth(h, NLimbs, Base) = q
      BY <1>11, <2>2, VarType DEF IsVar
    <2>4. NatPower(Base, NLimbs) \in Nat
      BY <1>6, BaseType, PowerType
    <2>5. Worth(h, NLimbs, Base) < NatPower(Base, NLimbs) - 1
      BY <1>9, <1>10, <2>3, <2>4
    <2>. QED
      BY <1>6, <2>1, <2>2, <2>5, SomeLimbBelow
  <1>13. ComparesTo(check', X * Y, M * q + Out) /\ Roomy(check') /\ (WordCovers => Snug(check'))
    <2>. DEFINE n == len(h)  u == ModProduct  quo == QuotientLimbs
                z == Resized(u, n)  s == LimbwiseSum(Product(m, h), result, n)
                bound == ModWord(word.x, word.y, word.m)
    <2>1. n = IF Size(u) < Size(Product(m, h)) THEN Size(Product(m, h)) ELSE Size(u)
      OBVIOUS
    <2>2. check' = EqualCheck(z, s, bound)
      BY <1>2
    <2>. HIDE DEF n, u, quo
    <2>3. quo \in {NLimbs, 2 * NLimbs} /\ AreLimbs(h, quo, MaxWord) /\ u = Product(x, y)
      BY <1>6, <1>7, <1>8 DEF quo, u
    <2>4. ComparesTo(EqualCheck(z, s, bound),
                     LimbsToNat(x) * LimbsToNat(y), LimbsToNat(m) * LimbsToNat(h) + LimbsToNat(result))
      BY <1>4, <1>6, <2>1, <2>3, QuotientCheck
    <2>5. Roomy(EqualCheck(z, s, bound))
      <3>1. /\ bound \in Nat /\ RoomFor(bound, FullLimb + MaxWord) /\ FullLimb + MaxWord \in Nat
            /\ CarriesFit(bound, FullLimb) /\ FullLimb \in Nat /\ n \in Nat \ {0} /\ AreLimbs(z, n, FullLimb)
        BY <1>4, <1>6, <2>1, <2>3, QuotientShapes
      <3>. HIDE DEF bound, z, s
      <3>. QED
        BY <3>1, EqualRoomy
    <2>6. ASSUME WordCovers PROVE Snug(EqualCheck(z, s, bound))
      <3>1. CASE \A k \in DOMAIN m : m[k] <= word.m
        BY <1>4, <1>6, <2>1, <2>3, <3>1, WithinSnug
      <3>2. CASE op = "mult_mod"
        <4>1. word = Canonical
          BY <1>3, <3>2 DEF Inputs, Checked
        <4>2. \A k \in DOMAIN m : m[k] <= word.m
          BY <1>4, <4>1, BaseType DEF Canonical, IsVar, AreLimbs
        <4>. QED
          BY <3>1, <4>2
      <3>3. CASE op # "mult_mod" /\ ~(\A k \in DOMAIN m : m[k] <= word.m)
        <4>1. word.x = MaxWord /\ word.y = MaxWord
          BY <2>6, <3>3 DEF WordCovers, Covers
        <4>2. PICK t \in 0..(NLimbs - 1) : h[t] < MaxWord
          BY <1>12, <3>3
        <4>3. IsVar(h)
          BY <1>7, <1>12, <3>3 DEF IsVar
        <4>. QED
          BY <1>4, <1>6, <2>1, <2>3, <4>1, <4>2, <4>3, FullSnug
      <3>. QED
        BY <3>1, <3>2, <3>3
    <2>. QED
      BY <1>11, <2>2, <2>4, <2>5, <2>6 DEF X, Y, M, Out
  <1>14. Promising(check') /\ check'.kind # "less"
    BY <1>10, <1>13, ComparesPromising
  <1>15. Waiting'
    BY <1>1, <1>4, <1>14 DEF Waiting, Promising, Roomy, LeftOf, RightOf
  <1>16. (WordCovers => AllSnug)'
    <2>1. WordCovers' = WordCovers
      BY <1>1, KeptRange
    <2>. QED
      BY <1>1, <1>4, <1>13, <2>1 DEF AllSnug, Snug
  <1>. QED
    BY <1>1, <1>14, <1>15, <1>16 DEF Committed

\* Nothing is compared for a product or a power, or before an operation begins.
LEMMA UnraisedHonest ==
    ASSUME Committed, phase = "allocate", phase' \in {"allocate", "done"}, verdict = "running",
           verdict' # "unsatisfied", check' = check, i' = i
    PROVE  Committed'
  BY DEF Committed, Length

\* A step of such a prover leaves nothing refused.
LEMMA HonestInvNext ==
    OpInv /\ ChainInv /\ SumInv /\ DigitInv /\ ResiduesInv /\ HonestInv /\ [Next]_vars => HonestInv'
  <1>. SUFFICES ASSUME OpInv, ChainInv, SumInv, DigitInv, ResiduesInv, HonestInv, [Next]_vars,
                       InRange', honest'
                PROVE  Committed'
    BY DEF HonestInv
  <1>1. Kept
    BY DEF Next, Allocate, Abandon, Add, Sub, Reduce, Mult, MultModChecked, MultModUnchecked, SquareMod,
       PowMod, OpenSignature, Remainder, Enforce, Loop, NextCheck, Quotient, Satisfied, vars, Kept
  <1>2. InRange /\ WordCovers' = WordCovers
    BY <1>1, KeptRange
  <1>3. Inputs /\ (phase = "allocate" => verdict = "running")
    BY DEF OpInv
  <1>4. CASE Allocate
    <2>1. ~Abandon
      BY <1>2, <1>3, InRangePossible DEF Abandon
    <2>2. CASE Mult \/ PowMod \/ OpenSignature
      <3>1. /\ phase = "allocate" /\ phase' = "done" /\ verdict' = "satisfied"
            /\ check' = check /\ i' = i /\ honest' = honest
        BY <2>2 DEF Mult, PowMod, OpenSignature, Ready, registers
      <3>. QED
        BY <1>2, <1>3, <3>1, UnraisedHonest DEF HonestInv
    <2>3. CASE MultModChecked \/ MultModUnchecked \/ SquareMod
      BY <1>2, <2>3, RemainderHonest DEF MultModChecked, MultModUnchecked, SquareMod, Ready, Modular, Powers, Windowed
    <2>. QED
      BY <1>2, <1>4, <2>1, <2>2, <2>3, AddHonest, SubHonest, ReduceHonest DEF Allocate
  <1>5. CASE Loop
    <2>1. honest
      BY <1>5 DEF Loop, ChainStep, BorrowStep, CarryStep, Refuse
    <2>. QED
      BY <1>2, <1>5, <2>1, LoopHonest DEF HonestInv
  <1>6. CASE NextCheck
    <2>1. honest
      BY <1>6 DEF NextCheck
    <2>. QED
      BY <1>2, <1>6, <2>1, NextCheckHonest DEF HonestInv
  <1>7. CASE Quotient
    <2>1. honest
      BY <1>7 DEF Quotient
    <2>. QED
      BY <1>2, <1>7, <2>1, QuotientHonest DEF HonestInv
  <1>8. CASE Satisfied
    <2>1. /\ honest' = honest /\ phase' = "done" /\ verdict' = "satisfied" /\ check' = check /\ i' = i
          /\ check.kind = "equal" => i = Length
      BY <1>8 DEF Satisfied, registers, Enforced, BorrowEnds, CarryEnds
    <2>2. ~(i < Length) \/ check.kind # "equal"
      BY <1>3, <1>8, <2>1 DEF ChainInv, OpInv, Enforcing, Satisfied
    <2>3. Length' = Length
      BY <2>1 DEF Length
    <2>. QED
      BY <2>1, <2>2, <2>3 DEF Committed
  <1>9. CASE UNCHANGED vars
    <2>1. /\ honest' = honest /\ phase' = phase /\ verdict' = verdict /\ check' = check /\ i' = i
          /\ checks' = checks /\ result' = result /\ op' = op
      BY <1>9 DEF vars, chainVars, registers
    <2>2. Committed
      BY <1>2, <2>1 DEF HonestInv
    <2>3. X' = X /\ Y' = Y /\ M' = M /\ Out' = Out
      BY <1>1, <2>1, KeptInputs DEF Out
    <2>4. phase = "enforce" => Waiting' /\ (WordCovers => AllSnug)'
      BY <1>2, <2>1, <2>2 DEF Committed, Waiting, AllSnug, Promising, Roomy, Snug, LeftOf, RightOf
    <2>5. phase = "enforce" => (op \in Modular /\ check.kind = "less" => Out = (X * Y) % M)'
      BY <2>1, <2>2, <2>3 DEF Committed
    <2>6. (check.kind = "equal" /\ i < Length => phase = "enforce" \/ verdict = "unsatisfied")'
      BY <2>1, <2>2 DEF Committed, Length
    <2>7. Underflows' = Underflows
      BY <1>9 DEF vars, chainVars, registers, Underflows, HonestCarryExists, Length
    <2>. QED
      BY <1>2, <2>1, <2>2, <2>4, <2>5, <2>6, <2>7 DEF Committed
  <1>. QED
    BY <1>4, <1>5, <1>6, <1>7, <1>8, <1>9 DEF Next

\* The fast path's operands stay residues.
LEMMA ResiduesNext == ResiduesInv /\ [Next]_vars => ResiduesInv'
  <1>1. [Next]_vars => Kept
    BY DEF Next, Allocate, Abandon, Add, Sub, Reduce, Mult, MultModChecked, MultModUnchecked, SquareMod,
       PowMod, OpenSignature, Remainder, Enforce, Loop, NextCheck, Quotient, Satisfied, vars, Kept
  <1>. QED
    BY <1>1, KeptRange

\* Nothing has been refused at the start.
LEMMA HonestInit == Init => DigitInv /\ ResiduesInv /\ HonestInv
  <1>. SUFFICES ASSUME Init PROVE DigitInv /\ ResiduesInv /\ HonestInv
    OBVIOUS
  <1>1. DigitInv
    BY StartDigits DEF Init
  <1>2. ResiduesInv
    BY DEF Init, ResiduesInv, X, Y, M
  <1>3. check = LessCheck(NoLimbs, NoLimbs) /\ phase = "allocate" /\ verdict = "running"
    BY DEF Init, Start
  <1>4. check.kind = "less"
    BY <1>3 DEF LessCheck
  <1>. QED
    BY <1>1, <1>2, <1>3, <1>4 DEF HonestInv, Committed

\* The witnesses the code computes satisfy every constraint of an operation on
\* operands it is meant for, and are refused only where the code's unsigned
\* subtraction goes below zero; that happens only under a modulus whose
\* word_size does not cover its limbs, to an operand that is not canonical
\* either. So only the two products of verify_opt that take in the signature as
\* it was allocated are exposed, not the fifteen squarings between them, and no
\* operation that range-checks its operands.
THEOREM HonestSucceeds == Spec => []HonestProverSucceeds
  <1>. DEFINE Inv == OpInv /\ ChainInv /\ SumInv
              More == DigitInv /\ ResiduesInv /\ HonestInv
  <1>1. Inv /\ More /\ [Next]_vars => More'
    BY DigitInvNext, ResiduesNext, HonestInvNext
  <1>2. Inv /\ More => HonestProverSucceeds
    <2>. SUFFICES ASSUME Inv, More, InRange, honest
                  PROVE  (verdict = "unsatisfied" => Underflows) /\ (Underflows => ~WordCovers)
      BY DEF HonestProverSucceeds
    <2>1. Committed
      BY DEF HonestInv
    <2>2. ASSUME Underflows, WordCovers PROVE FALSE
      <3>1. check.kind = "equal" /\ i < Length /\ ~HonestCarryExists
        BY <2>2 DEF Underflows
      <3>2. phase = "enforce"
        BY <2>1, <2>2, <3>1 DEF Committed
      <3>3. IsLegal(check) /\ Snug(check)
        BY <2>1, <2>2, <3>2 DEF Committed, AllSnug, OpInv, Enforcing
      <3>. QED
        BY <3>1, <3>3, SnugHolds
    <2>. QED
      BY <2>1, <2>2 DEF Committed
  <1>3. Init => More
    BY HonestInit
  <1>4. Spec => []Inv
    BY AllInv
  <1>. HIDE DEF Inv, More
  <1>. QED
    BY <1>1, <1>2, <1>3, <1>4, PTL DEF Spec

-----------------------------------------------------------------------------
(* Bit vectors and numbers.                                                *)

\* Bits as digits, from 0.
Ones(bits) == [j \in 0..(Len(bits) - 1) |-> IF bits[j + 1] THEN 1 ELSE 0]

\* What a vector of bits is.
LEMMA VectorType ==
    ASSUME NEW n \in Nat, NEW bits \in BitVectors(n)
    PROVE  /\ Len(bits) = n /\ bits \in Seq(BOOLEAN) /\ \A j \in 1..n : bits[j] \in BOOLEAN
           /\ \A j \in 0..(n - 1) : Ones(bits)[j] = (IF bits[j + 1] THEN 1 ELSE 0)
           /\ IsNats(Ones(bits), n) /\ IsInts(Ones(bits), n)
           /\ \A j \in 0..(n - 1) : Ones(bits)[j] \in {0, 1}
  <1>1. bits \in Seq(BOOLEAN) /\ Len(bits) = n
    BY DEF BitVectors
  <1>2. \A j \in 1..n : bits[j] \in BOOLEAN
    BY DEF BitVectors
  <1>3. \A j \in 0..(n - 1) : Ones(bits)[j] = (IF bits[j + 1] THEN 1 ELSE 0)
    BY <1>1 DEF Ones
  <1>4. \A j \in 0..(n - 1) : Ones(bits)[j] \in {0, 1}
    BY <1>3
  <1>. QED
    BY <1>1, <1>2, <1>3, <1>4 DEF IsNats, IsInts

\* f holds the numbers of the first bits.
IsNum(f, bits) ==
    f = [k \in 0..Len(bits) |->
            IF k = 0 THEN 0 ELSE f[k - 1] + (IF bits[k] THEN NatPower(2, k - 1) ELSE 0)]

\* A vector of bits stands for the number with these digits.
LEMMA NumIsWorth ==
    ASSUME NEW n \in Nat, NEW bits \in BitVectors(n)
    PROVE  /\ Num(bits) = Worth(Ones(bits), n, 2)
           /\ Num(bits) \in Nat /\ Num(bits) < NatPower(2, n)
  <1>. DEFINE d == Ones(bits)
              f == [k \in 0..Len(bits) |-> Worth(d, k, 2)]
              S(g) == g = [k \in 0..Len(bits) |->
                            IF k = 0 THEN 0 ELSE g[k - 1] + (IF bits[k] THEN NatPower(2, k - 1) ELSE 0)]
              num == CHOOSE g : S(g)
  <1>1. /\ Len(bits) = n /\ \A j \in 0..(n - 1) : d[j] = (IF bits[j + 1] THEN 1 ELSE 0)
        /\ IsNats(d, n) /\ \A j \in 0..(n - 1) : d[j] \in {0, 1}
    BY VectorType
  <1>. HIDE DEF d
  <1>2. ASSUME NEW k \in 0..n
        PROVE  Worth(d, k, 2) = IF k = 0 THEN 0
                                ELSE Worth(d, k - 1, 2) + (IF bits[k] THEN NatPower(2, k - 1) ELSE 0)
    <2>1. CASE k = 0
      BY <2>1, WorthStep
    <2>2. CASE k # 0
      <3>1. k - 1 \in Nat /\ (k - 1) + 1 = k /\ k - 1 \in 0..(n - 1)
        BY <2>2
      <3>2. Worth(d, k, 2) = Worth(d, k - 1, 2) + d[k - 1] * NatPower(2, k - 1)
        BY <3>1, WorthStep
      <3>3. d[k - 1] = IF bits[k] THEN 1 ELSE 0
        BY <1>1, <3>1
      <3>4. NatPower(2, k - 1) \in Nat
        BY <3>1, PowerType
      <3>5. d[k - 1] * NatPower(2, k - 1) = IF bits[k] THEN NatPower(2, k - 1) ELSE 0
        BY <3>3, <3>4
      <3>. QED
        BY <2>2, <3>2, <3>5
    <2>. QED
      BY <2>1, <2>2
  <1>3. S(f)
    <2>1. ASSUME NEW k \in 0..n PROVE f[k] = Worth(d, k, 2) /\ (k # 0 => f[k - 1] = Worth(d, k - 1, 2))
      BY <1>1
    <2>2. ASSUME NEW k \in 0..n
          PROVE  f[k] = IF k = 0 THEN 0 ELSE f[k - 1] + (IF bits[k] THEN NatPower(2, k - 1) ELSE 0)
      BY <2>1, <1>2
    <2>. QED
      BY <1>1, <2>2
  <1>4. S(num)
    <2>. HIDE DEF S
    <2>. QED
      BY <1>3
  <1>5. Num(bits) = num[n]
    BY <1>1 DEF Num
  <1>. DEFINE T == {k \in Nat : k <= n => num[k] = Worth(d, k, 2)}
  <1>. HIDE DEF num
  <1>6. 0 \in T
    BY <1>1, <1>2, <1>4
  <1>7. ASSUME NEW k \in Nat, k \in T PROVE k + 1 \in T
    <2>. SUFFICES ASSUME k + 1 <= n PROVE num[k + 1] = Worth(d, k + 1, 2)
      OBVIOUS
    <2>1. num[k + 1] = num[k] + (IF bits[k + 1] THEN NatPower(2, k) ELSE 0)
      BY <1>1, <1>4
    <2>2. Worth(d, k + 1, 2) = Worth(d, k, 2) + (IF bits[k + 1] THEN NatPower(2, k) ELSE 0)
      <3>1. k + 1 \in 0..n /\ k + 1 # 0 /\ (k + 1) - 1 = k
        OBVIOUS
      <3>. QED
        BY <1>2, <3>1
    <2>. QED
      BY <1>7, <2>1, <2>2
  <1>8. Nat \subseteq T
    <2>. HIDE DEF T
    <2>. QED
      BY <1>6, <1>7, Induct
  <1>9. num[n] = Worth(d, n, 2)
    BY <1>8
  <1>10. Worth(d, n, 2) \in Nat
    BY <1>1, WorthType
  <1>11. Worth(d, n, 2) < NatPower(2, n)
    BY <1>1, WorthBelow
  <1>. QED
    BY <1>5, <1>9, <1>10, <1>11 DEF d

\* The first k digits, last first.
Back(digits, k) == [j \in 0..(k - 1) |-> digits[k - j]]

\* A number written in big-endian digits.
LEMMA BigEndianIsWorth ==
    ASSUME NEW n \in Nat, NEW digits \in Seq(Nat), Len(digits) = n, NEW b \in Nat \ {0}
    PROVE  BigEndian(digits, b) = Worth(Back(digits, n), n, b)
  <1>. DEFINE w(k) == Worth(Back(digits, k), k, b)
              f == [k \in 0..Len(digits) |-> w(k)]
              S(g) == g = [k \in 0..Len(digits) |-> IF k = 0 THEN 0 ELSE g[k - 1] * b + digits[k]]
              num == CHOOSE g : S(g)
  <1>1. w(0) = 0
    BY WorthStep
  <1>2. ASSUME NEW k \in Nat, k + 1 <= n PROVE w(k + 1) = w(k) * b + digits[k + 1]
    <2>. DEFINE l == Back(digits, k + 1)  r == Back(digits, k)
    <2>0. \A e \in 1..n : digits[e] \in Nat
      OBVIOUS
    <2>1. \A j \in 0..k : l[j] = digits[(k + 1) - j] /\ l[j] \in Nat
      <3>1. \A j \in 0..k : l[j] = digits[(k + 1) - j] /\ (k + 1) - j \in 1..n
        BY <1>2 DEF Back
      <3>. QED
        BY <2>0, <3>1
    <2>2. \A j \in 0..(k - 1) : r[j] = digits[k - j] /\ r[j] \in Nat
      <3>1. \A j \in 0..(k - 1) : r[j] = digits[k - j] /\ k - j \in 1..n
        BY <1>2 DEF Back
      <3>. QED
        BY <2>0, <3>1
    <2>. HIDE DEF l, r
    <2>3. IsInts(l, k + 1) /\ IsInts(r, k)
      BY <2>1, <2>2 DEF IsInts
    <2>4. IsPart(r, l, 1, k)
      <3>1. ASSUME NEW j \in 0..(k - 1) PROVE r[j] = l[1 + j]
        <4>1. 1 + j \in 0..k /\ (k + 1) - (1 + j) = k - j
          OBVIOUS
        <4>. QED
          BY <2>1, <2>2, <4>1
      <3>. QED
        BY <3>1 DEF IsPart
    <2>5. Worth(l, k + 1, b) = l[0] + b * Worth(r, k, b)
      BY <2>3, <2>4, WorthHead
    <2>6. Worth(r, k, b) \in Int
      BY <2>3, WorthType
    <2>7. l[0] = digits[k + 1] /\ l[0] \in Nat
      BY <2>1
    <2>. QED
      BY <2>5, <2>6, <2>7 DEF l, r
  <1>. HIDE DEF w
  <1>3. S(f)
    <2>1. ASSUME NEW k \in 0..n
          PROVE  f[k] = IF k = 0 THEN 0 ELSE f[k - 1] * b + digits[k]
      <3>1. CASE k = 0
        BY <1>1, <3>1
      <3>2. CASE k # 0
        <4>1. k - 1 \in Nat /\ (k - 1) + 1 = k /\ k - 1 \in 0..n
          BY <3>2
        <4>2. w(k) = w(k - 1) * b + digits[k]
          BY <1>2, <4>1
        <4>. QED
          BY <3>2, <4>1, <4>2
      <3>. QED
        BY <3>1, <3>2
    <2>. QED
      BY <2>1
  <1>4. S(num)
    <2>. HIDE DEF S
    <2>. QED
      BY <1>3
  <1>5. BigEndian(digits, b) = num[n]
    BY DEF BigEndian
  <1>. DEFINE T == {k \in Nat : k <= n => num[k] = w(k)}
  <1>. HIDE DEF num
  <1>6. 0 \in T
    BY <1>1, <1>4
  <1>7. ASSUME NEW k \in Nat, k \in T PROVE k + 1 \in T
    BY <1>2, <1>4, <1>7
  <1>8. Nat \subseteq T
    <2>. HIDE DEF T
    <2>. QED
      BY <1>6, <1>7, Induct
  <1>. QED
    BY <1>5, <1>8 DEF w

-----------------------------------------------------------------------------
(* Comparisons.                                                            *)

\* The digits of n from the k-th on.
High(d, n, k) == [j \in 0..(n - k - 1) |-> d[k + j]]
HighWorth(d, n, k) == Worth(High(d, n, k), n - k, 2)

\* The digits from one place on: that place's, and the ones above it.
LEMMA HighStep ==
    ASSUME NEW n \in Nat, NEW d, IsNats(d, n)
    PROVE  /\ HighWorth(d, n, n) = 0
           /\ HighWorth(d, n, 0) = Worth(d, n, 2)
           /\ \A k \in 0..n : HighWorth(d, n, k) \in Nat
           /\ \A k \in 0..(n - 1) : HighWorth(d, n, k) = d[k] + 2 * HighWorth(d, n, k + 1)
  <1>1. HighWorth(d, n, n) = 0
    <2>1. n - n = 0
      OBVIOUS
    <2>. QED
      BY <2>1, WorthStep DEF HighWorth
  <1>2. HighWorth(d, n, 0) = Worth(d, n, 2)
    <2>. DEFINE h == High(d, n, 0)
    <2>1. n - 0 = n /\ \A j \in 0..(n - 1) : h[j] = d[j]
      BY DEF High
    <2>. HIDE DEF h
    <2>2. Worth(h, n, 2) = Worth(d, n, 2)
      BY <2>1, WorthSame
    <2>. QED
      BY <2>1, <2>2 DEF HighWorth, h
  <1>3. ASSUME NEW k \in 0..n PROVE IsNats(High(d, n, k), n - k) /\ IsInts(High(d, n, k), n - k)
                                    /\ HighWorth(d, n, k) \in Nat
    <2>. DEFINE h == High(d, n, k)
    <2>0. n - k \in Nat
      OBVIOUS
    <2>1. \A j \in 0..(n - k - 1) : h[j] \in Nat
      BY DEF High, IsNats
    <2>. HIDE DEF h
    <2>2. IsNats(h, n - k) /\ IsInts(h, n - k)
      BY <2>1 DEF IsNats, IsInts
    <2>3. Worth(h, n - k, 2) \in Nat
      BY <2>0, <2>2, WorthType
    <2>. QED
      BY <2>2, <2>3 DEF h, HighWorth
  <1>4. ASSUME NEW k \in 0..(n - 1) PROVE HighWorth(d, n, k) = d[k] + 2 * HighWorth(d, n, k + 1)
    <2>. DEFINE l == High(d, n, k)  r == High(d, n, k + 1)  e == n - (k + 1)
    <2>1. e \in Nat /\ n - k = e + 1 /\ k \in 0..n
      OBVIOUS
    <2>2. IsInts(l, e + 1)
      BY <1>3, <2>1
    <2>3. l[0] = d[k]
      BY DEF High
    <2>4. ASSUME NEW j \in 0..(e - 1) PROVE r[j] = l[1 + j]
      <3>1. 1 + j \in 0..(n - k - 1) /\ j \in 0..(n - (k + 1) - 1) /\ k + (1 + j) = (k + 1) + j
        OBVIOUS
      <3>2. l[1 + j] = d[k + (1 + j)] /\ r[j] = d[(k + 1) + j]
        BY <3>1 DEF High
      <3>. QED
        BY <3>1, <3>2
    <2>5. IsPart(r, l, 1, e)
      BY <2>4 DEF IsPart
    <2>. HIDE DEF l, r, e
    <2>6. Worth(l, e + 1, 2) = l[0] + 2 * Worth(r, e, 2)
      BY <2>1, <2>2, <2>5, WorthHead
    <2>. QED
      BY <2>1, <2>3, <2>6 DEF HighWorth, l, r, e
  <1>. QED
    BY <1>1, <1>2, <1>3, <1>4

\* compare_bits_raw compares the numbers its bits stand for.
LEMMA CompareIsExact ==
    ASSUME NEW n \in Nat, NEW a \in BitVectors(n), NEW b \in BitVectors(n)
    PROVE  /\ CompareBitsRaw(a, b).less = (Num(a) < Num(b))
           /\ CompareBitsRaw(a, b).equal = (Num(a) = Num(b))
  <1>. DEFINE u(k) == HighWorth(Ones(a), n, k)
              v(k) == HighWorth(Ones(b), n, k)
              R(g, k) == IF k = Len(a) + 1 THEN [less |-> FALSE, equal |-> TRUE]
                         ELSE [less |-> g[k + 1].less \/ (g[k + 1].equal /\ ~a[k] /\ b[k]),
                               equal |-> g[k + 1].equal /\ a[k] = b[k]]
              S(g) == g = [k \in 1..(Len(a) + 1) |-> R(g, k)]
              upTo == CHOOSE g : S(g)
              c(k) == [less |-> u(k - 1) < v(k - 1), equal |-> u(k - 1) = v(k - 1)]
              f == [k \in 1..(Len(a) + 1) |-> c(k)]
  <1>1. /\ Len(a) = n /\ Len(b) = n /\ IsNats(Ones(a), n) /\ IsNats(Ones(b), n)
        /\ \A k \in 1..n : a[k] \in BOOLEAN /\ b[k] \in BOOLEAN
        /\ \A k \in 0..(n - 1) : Ones(a)[k] = (IF a[k + 1] THEN 1 ELSE 0)
        /\ \A k \in 0..(n - 1) : Ones(b)[k] = (IF b[k + 1] THEN 1 ELSE 0)
    BY VectorType
  <1>2. /\ u(n) = 0 /\ v(n) = 0 /\ u(0) = Num(a) /\ v(0) = Num(b)
        /\ \A k \in 0..n : u(k) \in Nat /\ v(k) \in Nat
        /\ \A k \in 0..(n - 1) : u(k) = Ones(a)[k] + 2 * u(k + 1) /\ v(k) = Ones(b)[k] + 2 * v(k + 1)
    BY <1>1, HighStep, NumIsWorth
  <1>. HIDE DEF u, v
  <1>3. ASSUME NEW k \in 1..n
        PROVE  /\ (u(k - 1) < v(k - 1)) <=> (u(k) < v(k) \/ (u(k) = v(k) /\ ~a[k] /\ b[k]))
               /\ (u(k - 1) = v(k - 1)) <=> (u(k) = v(k) /\ a[k] = b[k])
    <2>. DEFINE p == u(k)  q == v(k)
                e == IF a[k] THEN 1 ELSE 0
                h == IF b[k] THEN 1 ELSE 0
    <2>1. k - 1 \in 0..(n - 1) /\ (k - 1) + 1 = k /\ k \in 0..n
      OBVIOUS
    <2>2. p \in Nat /\ q \in Nat
      BY <1>2, <2>1
    <2>3. u(k - 1) = e + 2 * p /\ v(k - 1) = h + 2 * q
      BY <1>1, <1>2, <2>1
    <2>4. a[k] \in BOOLEAN /\ b[k] \in BOOLEAN
      BY <1>1
    <2>5. /\ e \in {0, 1} /\ h \in {0, 1}
          /\ (e = 0 /\ h = 1) <=> (~a[k] /\ b[k])
          /\ e = h <=> a[k] = b[k]
      BY <2>4
    <2>. HIDE DEF p, q, e, h
    <2>6. /\ (e + 2 * p < h + 2 * q) <=> (p < q \/ (p = q /\ e = 0 /\ h = 1))
          /\ (e + 2 * p = h + 2 * q) <=> (p = q /\ e = h)
      BY <2>2, <2>5
    <2>7. /\ (u(k - 1) < v(k - 1)) <=> (p < q \/ (p = q /\ e = 0 /\ h = 1))
          /\ (u(k - 1) = v(k - 1)) <=> (p = q /\ e = h)
      BY <2>3, <2>6
    <2>. QED
      BY <2>5, <2>7 DEF p, q
  <1>4. c(n + 1) = [less |-> FALSE, equal |-> TRUE]
    <2>1. (n + 1) - 1 = n
      OBVIOUS
    <2>2. c(n + 1) = [less |-> u(n) < v(n), equal |-> u(n) = v(n)]
      BY <2>1
    <2>3. (u(n) < v(n)) = FALSE /\ (u(n) = v(n)) = TRUE
      BY <1>2
    <2>. HIDE DEF c
    <2>. QED
      BY <2>2, <2>3, Zenon
  <1>5. ASSUME NEW k \in 1..n
        PROVE  c(k) = [less |-> c(k + 1).less \/ (c(k + 1).equal /\ ~a[k] /\ b[k]),
                       equal |-> c(k + 1).equal /\ a[k] = b[k]]
    <2>1. (k + 1) - 1 = k
      OBVIOUS
    <2>2. c(k + 1).less = (u(k) < v(k)) /\ c(k + 1).equal = (u(k) = v(k))
      BY <2>1
    <2>3. /\ (u(k - 1) < v(k - 1)) = (u(k) < v(k) \/ (u(k) = v(k) /\ ~a[k] /\ b[k]))
          /\ (u(k - 1) = v(k - 1)) = (u(k) = v(k) /\ a[k] = b[k])
      BY <1>3
    <2>4. c(k) = [less |-> u(k) < v(k) \/ (u(k) = v(k) /\ ~a[k] /\ b[k]),
                  equal |-> u(k) = v(k) /\ a[k] = b[k]]
      BY <2>3, Zenon
    <2>. HIDE DEF c
    <2>. QED
      BY <2>2, <2>4
  <1>. HIDE DEF c
  <1>6. S(f)
    <2>1. ASSUME NEW k \in 1..(n + 1) PROVE f[k] = R(f, k)
      <3>1. f[k] = c(k)
        BY <1>1
      <3>2. CASE k = n + 1
        BY <1>1, <1>4, <3>1, <3>2
      <3>3. CASE k # n + 1
        <4>1. k \in 1..n /\ k + 1 \in 1..(n + 1)
          BY <3>3
        <4>2. f[k + 1] = c(k + 1)
          BY <1>1, <4>1
        <4>3. R(f, k) = [less |-> f[k + 1].less \/ (f[k + 1].equal /\ ~a[k] /\ b[k]),
                         equal |-> f[k + 1].equal /\ a[k] = b[k]]
          BY <1>1, <3>3
        <4>. HIDE DEF f, R
        <4>. QED
          BY <1>5, <3>1, <4>1, <4>2, <4>3
      <3>. QED
        BY <3>2, <3>3
    <2>. HIDE DEF R
    <2>. QED
      BY <1>1, <2>1
  <1>7. S(upTo)
    <2>. HIDE DEF S
    <2>. QED
      BY <1>6
  <1>8. CompareBitsRaw(a, b) = upTo[1]
    BY DEF CompareBitsRaw
  <1>. HIDE DEF upTo
  <1>9. ASSUME NEW k \in 1..(n + 1) PROVE upTo[k] = R(upTo, k)
    <2>. HIDE DEF R
    <2>. QED
      BY <1>1, <1>7
  <1>. DEFINE T == {k \in Nat : k <= n => upTo[n + 1 - k] = c(n + 1 - k)}
  <1>10. 0 \in T
    <2>1. n + 1 - 0 = n + 1 /\ n + 1 \in 1..(n + 1)
      OBVIOUS
    <2>2. upTo[n + 1] = c(n + 1)
      BY <1>1, <1>4, <1>9, <2>1
    <2>. QED
      BY <2>1, <2>2
  <1>11. ASSUME NEW k \in Nat, k \in T PROVE k + 1 \in T
    <2>. SUFFICES ASSUME k + 1 <= n PROVE upTo[n + 1 - (k + 1)] = c(n + 1 - (k + 1))
      OBVIOUS
    <2>. DEFINE j == n + 1 - (k + 1)
    <2>1. j \in 1..n /\ j + 1 = n + 1 - k /\ j # n + 1 /\ j \in 1..(n + 1)
      OBVIOUS
    <2>2. upTo[j + 1] = c(j + 1)
      BY <1>11, <2>1
    <2>. HIDE DEF j
    <2>3. upTo[j] = [less |-> upTo[j + 1].less \/ (upTo[j + 1].equal /\ ~a[j] /\ b[j]),
                     equal |-> upTo[j + 1].equal /\ a[j] = b[j]]
      BY <1>1, <1>9, <2>1
    <2>4. upTo[j] = c(j)
      BY <1>5, <2>1, <2>2, <2>3
    <2>. QED
      BY <2>4 DEF j
  <1>12. Nat \subseteq T
    <2>. HIDE DEF T
    <2>. QED
      BY <1>10, <1>11, Induct
  <1>13. upTo[1] = c(1)
    <2>1. n + 1 - n = 1 /\ n <= n
      OBVIOUS
    <2>. QED
      BY <1>12, <2>1
  <1>14. c(1) = [less |-> u(0) < v(0), equal |-> u(0) = v(0)]
    <2>1. 1 - 1 = 0
      OBVIOUS
    <2>. QED
      BY <2>1 DEF c
  <1>. QED
    BY <1>2, <1>8, <1>13, <1>14

\* The bits of a number are its binary digits.
LEMMA ToBitsType ==
    ASSUME NEW n \in Nat, NEW v \in Nat
    PROVE  /\ ToBits(v, n) \in BitVectors(n)
           /\ \A j \in 0..(n - 1) : Ones(ToBits(v, n))[j] = (v \div NatPower(2, j)) % 2
  <1>. DEFINE bits == ToBits(v, n)
  <1>1. \A j \in 1..n : bits[j] = ((v \div NatPower(2, j - 1)) % 2 = 1)
    BY DEF ToBits
  <1>2. bits \in BitVectors(n)
    BY DEF ToBits, BitVectors
  <1>. HIDE DEF bits
  <1>3. ASSUME NEW j \in 0..(n - 1) PROVE Ones(bits)[j] = (v \div NatPower(2, j)) % 2
    <2>. DEFINE d == v \div NatPower(2, j)  z == d % 2
    <2>1. NatPower(2, j) \in Nat \ {0}
      BY PowerType
    <2>2. d \in Nat
      BY <2>1, DivMod
    <2>3. z \in {0, 1}
      <3>. HIDE DEF d
      <3>. QED
        BY <2>2
    <2>4. j + 1 \in 1..n /\ (j + 1) - 1 = j
      OBVIOUS
    <2>5. bits[j + 1] = (z = 1)
      BY <1>1, <2>4
    <2>6. Ones(bits)[j] = IF bits[j + 1] THEN 1 ELSE 0
      BY <1>2, VectorType
    <2>. HIDE DEF z
    <2>7. Ones(bits)[j] = z
      BY <2>3, <2>5, <2>6
    <2>. QED
      BY <2>7 DEF z
  <1>. QED
    BY <1>2, <1>3 DEF bits

\* A number below a power of two is what its bits stand for.
LEMMA ToBitsNum ==
    ASSUME NEW n \in Nat, NEW v \in Nat, v < NatPower(2, n)
    PROVE  Num(ToBits(v, n)) = v
  <1>. DEFINE d == Ones(ToBits(v, n))
  <1>1. \A j \in 0..(n - 1) : d[j] = (v \div NatPower(2, j)) % 2
    BY ToBitsType
  <1>2. Num(ToBits(v, n)) = Worth(d, n, 2)
    BY ToBitsType, NumIsWorth
  <1>. HIDE DEF d
  <1>3. Worth(d, n, 2) = v
    BY <1>1, Digits
  <1>. QED
    BY <1>2, <1>3

\* A negative number's residue.
LEMMA ModNegative ==
    ASSUME NEW p \in Nat \ {0}, NEW z \in Int, z < 0, -p <= z
    PROVE  z % p = z + p
  OBVIOUS

\* A difference in n bits exists exactly when it is not negative, in a field with
\* one bit more to spare.
LEMMA HasBitsMeans ==
    ASSUME NEW n \in Nat, NatPower(2, n + 1) <= P, NEW diff \in Int,
           -NatPower(2, n) <= diff, diff < NatPower(2, n)
    PROVE  HasBits(diff, n) <=> diff >= 0
  <1>. DEFINE q == NatPower(2, n)
  <1>1. q \in Nat \ {0} /\ q + q <= P /\ P \in Nat
    BY PowerType, PowerStep, PrimeAssumption
  <1>2. ASSUME diff >= 0 PROVE HasBits(diff, n)
    <2>1. diff \in Nat
      BY <1>2
    <2>2. Num(ToBits(diff, n)) = diff
      BY <2>1, ToBitsNum
    <2>3. ToBits(diff, n) \in BitVectors(n)
      BY <2>1, ToBitsType
    <2>. QED
      BY <2>2, <2>3 DEF HasBits
  <1>3. ASSUME diff < 0 PROVE ~HasBits(diff, n)
    <2>. SUFFICES ASSUME NEW bits \in BitVectors(n), Num(bits) % P = diff % P PROVE FALSE
      BY DEF HasBits
    <2>. DEFINE z == Num(bits)
    <2>1. z \in Nat /\ z < q
      BY NumIsWorth
    <2>. HIDE DEF z, q
    <2>2. z % P = z
      BY <1>1, <2>1, ModSelf
    <2>3. diff + P \in Nat /\ diff + P >= q /\ diff + P < P
      BY <1>1, <1>3 DEF q
    <2>4. (diff + P) % P = diff + P
      BY <1>1, <2>3, ModSelf
    <2>5. diff % P = diff + P
      <3>1. P \in Nat \ {0} /\ -P <= diff
        BY <1>1, <2>3
      <3>. QED
        BY <1>3, <3>1, ModNegative
    <2>. QED
      BY <1>1, <2>1, <2>2, <2>3, <2>5 DEF z
  <1>. QED
    BY <1>2, <1>3

\* The enforced comparisons have a solution exactly when they are true.
LEMMA EnforceIsExact ==
    ASSUME NEW n \in Nat, NatPower(2, n + 1) <= P, NEW a \in BitVectors(n), NEW b \in BitVectors(n)
    PROVE  /\ EnforceLessThanOk(a, b) <=> Num(a) < Num(b)
           /\ EnforceLessOrEqualOk(a, b) <=> Num(a) <= Num(b)
  <1>. DEFINE u == Num(a)  v == Num(b)  q == NatPower(2, n)
  <1>1. u \in Nat /\ v \in Nat /\ u < q /\ v < q /\ q \in Nat
    BY NumIsWorth, PowerType
  <1>2. Len(a) = n /\ Len(b) = n
    BY VectorType
  <1>. HIDE DEF u, v, q
  <1>3. /\ v - u - 1 \in Int /\ -q <= v - u - 1 /\ v - u - 1 < q
        /\ v - u \in Int /\ -q <= v - u /\ v - u < q
    BY <1>1
  <1>4. HasBits(v - u - 1, n) <=> v - u - 1 >= 0
    BY <1>3, HasBitsMeans DEF q
  <1>5. HasBits(v - u, n) <=> v - u >= 0
    BY <1>3, HasBitsMeans DEF q
  <1>6. EnforceLessThanOk(a, b) <=> HasBits(v - u - 1, n)
    BY <1>2 DEF EnforceLessThanOk, SameLength, u, v
  <1>7. EnforceLessOrEqualOk(a, b) <=> HasBits(v - u, n)
    BY <1>2 DEF EnforceLessOrEqualOk, SameLength, u, v
  <1>8. (v - u - 1 >= 0 <=> u < v) /\ (v - u >= 0 <=> u <= v)
    BY <1>1
  <1>. QED
    BY <1>4, <1>5, <1>6, <1>7, <1>8 DEF u, v

-----------------------------------------------------------------------------
(* Selection.                                                              *)

\* What the last k bits have passed over.
Passed(bits, k) ==
    Worth(Ones(bits), Len(bits), 2) - Worth(Ones(bits), Len(bits) - k, 2)

\* Each bit passes over a half or not; all of them pass over the number.
LEMMA PassedStep ==
    ASSUME NEW n \in Nat, NEW bits \in BitVectors(n)
    PROVE  /\ Passed(bits, 0) = 0 /\ Passed(bits, n) = Num(bits)
           /\ \A k \in 0..n : Passed(bits, k) \in Int
           /\ \A k \in 1..n : Passed(bits, k) = Passed(bits, k - 1)
                                + (IF bits[n + 1 - k] THEN NatPower(2, n - k) ELSE 0)
  <1>. DEFINE d == Ones(bits)
  <1>1. Len(bits) = n /\ IsNats(d, n) /\ \A j \in 0..(n - 1) : d[j] = (IF bits[j + 1] THEN 1 ELSE 0)
    BY VectorType
  <1>2. Num(bits) = Worth(d, n, 2)
    BY NumIsWorth
  <1>. HIDE DEF d
  <1>3. ASSUME NEW k \in 0..n PROVE Worth(d, k, 2) \in Nat
    <2>1. IsNats(d, k)
      BY <1>1 DEF IsNats
    <2>. QED
      BY <2>1, WorthType
  <1>4. \A k \in 0..n : Passed(bits, k) = Worth(d, n, 2) - Worth(d, n - k, 2)
    BY <1>1 DEF Passed, d
  <1>5. Passed(bits, 0) = 0
    <2>1. n - 0 = n /\ n \in 0..n /\ 0 \in 0..n
      OBVIOUS
    <2>. QED
      BY <1>3, <1>4, <2>1
  <1>6. Passed(bits, n) = Num(bits)
    <2>1. n - n = 0 /\ n \in 0..n
      OBVIOUS
    <2>2. Worth(d, 0, 2) = 0
      BY WorthStep
    <2>3. Worth(d, n, 2) \in Nat
      BY <1>3, <2>1
    <2>. QED
      BY <1>2, <1>4, <2>1, <2>2, <2>3
  <1>7. ASSUME NEW k \in 0..n PROVE Passed(bits, k) \in Int
    <2>1. n \in 0..n /\ n - k \in 0..n
      OBVIOUS
    <2>. QED
      BY <1>3, <1>4, <2>1
  <1>8. ASSUME NEW k \in 1..n
        PROVE  Passed(bits, k) = Passed(bits, k - 1) + (IF bits[n + 1 - k] THEN NatPower(2, n - k) ELSE 0)
    <2>. DEFINE e == n - k  w == Worth(d, n, 2)  r == Worth(d, e, 2)  q == NatPower(2, e)
    <2>1. e \in Nat /\ e \in 0..n /\ e \in 0..(n - 1) /\ n - (k - 1) = e + 1 /\ n + 1 - k = e + 1
          /\ n \in 0..n /\ k - 1 \in 0..n /\ k \in 0..n
      OBVIOUS
    <2>2. Worth(d, e + 1, 2) = r + d[e] * q
      BY <2>1, WorthStep
    <2>3. d[e] = IF bits[e + 1] THEN 1 ELSE 0
      BY <1>1, <2>1
    <2>4. w \in Nat /\ r \in Nat /\ q \in Nat
      BY <1>3, <2>1, PowerType
    <2>5. Passed(bits, k) = w - r /\ Passed(bits, k - 1) = w - Worth(d, e + 1, 2)
      BY <1>4, <2>1
    <2>. HIDE DEF w, r, q, e
    <2>6. d[e] * q = IF bits[e + 1] THEN q ELSE 0
      BY <2>3, <2>4
    <2>7. Passed(bits, k) = Passed(bits, k - 1) + (IF bits[e + 1] THEN q ELSE 0)
      BY <2>2, <2>4, <2>5, <2>6
    <2>. QED
      BY <2>1, <2>7 DEF q, e
  <1>. QED
    BY <1>5, <1>6, <1>7, <1>8

\* select_array_element finds the element its index bits name.
LEMMA SelectIsExact ==
    ASSUME NEW n \in Nat, NEW bits \in BitVectors(n), NEW input, DOMAIN input = 1..NatPower(2, n)
    PROVE  SelectArrayElement(input, bits) = input[Num(bits) + 1]
  <1>. DEFINE off(k) == Passed(bits, k)
              R(g, k) == IF k = 0 THEN input
                         ELSE [j \in 1..NatPower(2, n - k) |->
                                 g[k - 1][IF bits[n + 1 - k] THEN j + NatPower(2, n - k) ELSE j]]
              S(g) == g = [k \in 0..n |-> R(g, k)]
              level == CHOOSE g : S(g)
              f == [k \in 0..n |-> IF k = 0 THEN input
                                   ELSE [j \in 1..NatPower(2, n - k) |-> input[j + off(k)]]]
  <1>1. Len(bits) = n
    BY VectorType
  <1>2. /\ off(0) = 0 /\ off(n) = Num(bits) /\ \A k \in 0..n : off(k) \in Int
        /\ \A k \in 1..n : off(k) = off(k - 1) + (IF bits[n + 1 - k] THEN NatPower(2, n - k) ELSE 0)
    BY PassedStep
  <1>. HIDE DEF off
  <1>3. ASSUME NEW k \in 0..n, NEW j \in 1..NatPower(2, n - k) PROVE f[k][j] = input[j + off(k)]
    <2>1. NatPower(2, n - k) \in Nat
      BY PowerType
    <2>2. CASE k = 0
      <3>1. f[k] = input /\ j + off(k) = j
        BY <1>2, <2>1, <2>2
      <3>. QED
        BY <3>1
    <2>3. CASE k # 0
      BY <2>3
    <2>. QED
      BY <2>2, <2>3
  <1>4. ASSUME NEW k \in 1..n, NEW j \in 1..NatPower(2, n - k)
        PROVE  f[k - 1][IF bits[n + 1 - k] THEN j + NatPower(2, n - k) ELSE j] = input[j + off(k)]
    <2>. DEFINE q == NatPower(2, n - k)  t == IF bits[n + 1 - k] THEN j + q ELSE j
    <2>1. n - k \in Nat /\ n - (k - 1) = (n - k) + 1 /\ k - 1 \in 0..n /\ k \in 0..n
      OBVIOUS
    <2>2. q \in Nat /\ NatPower(2, n - (k - 1)) = q + q
      BY <2>1, PowerType, PowerStep
    <2>3. off(k) = off(k - 1) + (IF bits[n + 1 - k] THEN q ELSE 0) /\ off(k - 1) \in Int
      BY <1>2, <2>1
    <2>. HIDE DEF q, f
    <2>4. t \in 1..(q + q) /\ t + off(k - 1) = j + off(k)
      BY <2>2, <2>3 DEF q
    <2>. HIDE DEF t
    <2>5. f[k - 1][t] = input[t + off(k - 1)]
      BY <1>3, <2>1, <2>2, <2>4
    <2>. QED
      BY <2>4, <2>5 DEF t, q
  <1>5. S(f)
    <2>1. ASSUME NEW k \in 0..n PROVE f[k] = R(f, k)
      <3>1. CASE k = 0
        BY <3>1
      <3>2. CASE k # 0
        <4>1. f[k] = [j \in 1..NatPower(2, n - k) |-> input[j + off(k)]]
          BY <3>2
        <4>2. k \in 1..n
          BY <3>2
        <4>. HIDE DEF f
        <4>3. R(f, k) = [j \in 1..NatPower(2, n - k) |-> input[j + off(k)]]
          BY <1>4, <3>2, <4>2
        <4>. QED
          BY <4>1, <4>3
      <3>. QED
        BY <3>1, <3>2
    <2>. HIDE DEF R
    <2>. QED
      BY <2>1
  <1>6. S(level)
    <2>. HIDE DEF S
    <2>. QED
      BY <1>5
  <1>7. SelectArrayElement(input, bits) = level[n][1]
    BY <1>1 DEF SelectArrayElement
  <1>. HIDE DEF level
  <1>8. ASSUME NEW k \in 0..n PROVE level[k] = R(level, k)
    <2>. HIDE DEF R
    <2>. QED
      BY <1>6
  <1>9. ASSUME NEW k \in 0..n PROVE f[k] = R(f, k)
    <2>. HIDE DEF R
    <2>1. f = [e \in 0..n |-> R(f, e)]
      BY <1>5
    <2>. HIDE DEF f
    <2>. QED
      BY <2>1
  <1>. DEFINE T == {k \in Nat : k <= n => level[k] = f[k]}
  <1>. HIDE DEF f
  <1>10. 0 \in T
    <2>1. 0 \in 0..n
      OBVIOUS
    <2>2. level[0] = input /\ f[0] = input
      BY <1>8, <1>9, <2>1
    <2>. QED
      BY <2>2
  <1>11. ASSUME NEW k \in Nat, k \in T PROVE k + 1 \in T
    <2>. SUFFICES ASSUME k + 1 <= n PROVE level[k + 1] = f[k + 1]
      OBVIOUS
    <2>1. k + 1 \in 0..n /\ k + 1 # 0 /\ (k + 1) - 1 = k
      OBVIOUS
    <2>2. level[k] = f[k]
      BY <1>11
    <2>3. R(level, k + 1) = R(f, k + 1)
      BY <2>1, <2>2
    <2>. HIDE DEF R
    <2>. QED
      BY <1>8, <1>9, <2>1, <2>3
  <1>12. Nat \subseteq T
    <2>. HIDE DEF T
    <2>. QED
      BY <1>10, <1>11, Induct
  <1>13. level[n] = f[n]
    BY <1>12
  <1>14. f[n][1] = input[1 + off(n)]
    <2>1. n - n = 0 /\ NatPower(2, 0) = 1 /\ n \in 0..n /\ 1 \in 1..1
      BY PowerStep
    <2>. QED
      BY <1>3, <2>1
  <1>15. 1 + Num(bits) = Num(bits) + 1
    BY NumIsWorth
  <1>. QED
    BY <1>2, <1>7, <1>13, <1>14, <1>15

\* Turned bits.
LEMMA TurnedType ==
    ASSUME NEW n \in Nat, NEW bits \in BitVectors(n)
    PROVE  /\ Turned(bits) \in BitVectors(n)
           /\ \A k \in 1..n : Turned(bits)[k] = bits[n + 1 - k]
           /\ Turned(Turned(bits)) = bits
  <1>1. Len(bits) = n
    BY VectorType
  <1>2. \A k \in 1..n : Turned(bits)[k] = bits[n + 1 - k] /\ n + 1 - k \in 1..n
    BY <1>1 DEF Turned
  <1>3. Turned(bits) \in BitVectors(n)
    <2>1. Turned(bits) = [k \in 1..n |-> bits[n + 1 - k]]
      BY <1>1 DEF Turned
    <2>2. \A k \in 1..n : bits[n + 1 - k] \in BOOLEAN
      BY <1>2 DEF BitVectors
    <2>. QED
      BY <2>1, <2>2 DEF BitVectors
  <1>4. Turned(Turned(bits)) = bits
    <2>. DEFINE t == Turned(bits)
    <2>1. Len(t) = n
      BY <1>3, VectorType
    <2>. HIDE DEF t
    <2>2. Turned(t) = [k \in 1..n |-> t[n + 1 - k]]
      BY <2>1 DEF Turned
    <2>3. ASSUME NEW k \in 1..n PROVE t[n + 1 - k] = bits[k]
      <3>1. n + 1 - k \in 1..n /\ n + 1 - (n + 1 - k) = k
        OBVIOUS
      <3>. QED
        BY <1>2, <3>1 DEF t
    <2>4. bits = [k \in 1..n |-> bits[k]]
      BY DEF BitVectors
    <2>. QED
      BY <2>2, <2>3, <2>4 DEF t
  <1>. QED
    BY <1>2, <1>3, <1>4

\* The selection from the first bit is the other one on the bits turned.
LEMMA SelectBeIsExact ==
    ASSUME NEW n \in Nat, NEW bits \in BitVectors(n), NEW input, DOMAIN input = 1..NatPower(2, n)
    PROVE  /\ SelectArrayElementBe(input, bits) = input[Num(Turned(bits)) + 1]
           /\ SelectPowerOfTwoLe(input, bits) = input[Num(bits) + 1]
  <1>1. ASSUME NEW s \in BitVectors(n)
        PROVE  SelectArrayElementBe(input, s) = SelectArrayElement(input, Turned(s))
    <2>. DEFINE t == Turned(s)
    <2>1. Len(s) = n /\ Len(t) = n
      BY TurnedType, VectorType
    <2>2. \A k \in 1..n : t[n + 1 - k] = s[k]
      <3>1. \A k \in 1..n : n + 1 - k \in 1..n /\ n + 1 - (n + 1 - k) = k
        OBVIOUS
      <3>. QED
        BY <3>1, TurnedType
    <2>. DEFINE R(g, k) == IF k = 0 THEN input
                           ELSE [j \in 1..NatPower(2, n - k) |->
                                   g[k - 1][IF s[k] THEN j + NatPower(2, n - k) ELSE j]]
                Q(g, k) == IF k = 0 THEN input
                           ELSE [j \in 1..NatPower(2, n - k) |->
                                   g[k - 1][IF t[n + 1 - k] THEN j + NatPower(2, n - k) ELSE j]]
    <2>. HIDE DEF t
    <2>3. ASSUME NEW g, NEW k \in 0..n PROVE R(g, k) = Q(g, k)
      <3>1. CASE k = 0
        BY <3>1
      <3>2. CASE k # 0
        <4>1. t[n + 1 - k] = s[k]
          BY <2>2, <3>2
        <4>. QED
          BY <4>1
      <3>. QED
        BY <3>1, <3>2
    <2>4. SelectArrayElementBe(input, s) = (CHOOSE g : g = [k \in 0..n |-> R(g, k)])[n][1]
      BY <2>1 DEF SelectArrayElementBe
    <2>5. SelectArrayElement(input, t) = (CHOOSE g : g = [k \in 0..n |-> Q(g, k)])[n][1]
      BY <2>1 DEF SelectArrayElement
    <2>. HIDE DEF R, Q
    <2>6. \A g : [k \in 0..n |-> R(g, k)] = [k \in 0..n |-> Q(g, k)]
      BY <2>3
    <2>7. (CHOOSE g : g = [k \in 0..n |-> R(g, k)]) = (CHOOSE g : g = [k \in 0..n |-> Q(g, k)])
      BY <2>6
    <2>. QED
      BY <2>4, <2>5, <2>7 DEF t
  <1>2. Turned(bits) \in BitVectors(n) /\ Turned(Turned(bits)) = bits
    BY TurnedType
  <1>3. SelectArrayElementBe(input, bits) = input[Num(Turned(bits)) + 1]
    BY <1>1, <1>2, SelectIsExact
  <1>4. SelectArrayElementBe(input, Turned(bits)) = input[Num(bits) + 1]
    BY <1>1, <1>2, SelectIsExact
  <1>. QED
    BY <1>3, <1>4 DEF SelectPowerOfTwoLe

-----------------------------------------------------------------------------
(* Packing and segments.                                                   *)

\* The size of the modulus, and the whole bytes below it.
LEMMA ModulusBitsType ==
    /\ ModulusBits \in Nat \ {0} /\ NatPower(2, ModulusBits - 1) <= P /\ P < NatPower(2, ModulusBits)
    /\ LimbBytes \in Nat \ {0} /\ ByteBits * LimbBytes <= ModulusBits - 1
  <1>. DEFINE k == Bits(P)
  <1>0. P \in Nat /\ 2 <= P
    BY PrimeAssumption
  <1>1. k \in Nat /\ P < NatPower(2, k) /\ (k = 0 \/ NatPower(2, k - 1) <= P)
    BY <1>0, BitsType
  <1>. HIDE DEF k
  <1>2. k # 0
    <2>1. NatPower(2, 0) = 1
      BY PowerStep
    <2>. QED
      BY <1>0, <1>1, <2>1
  <1>3. k \in 1..P
    <2>1. k - 1 \in Nat
      BY <1>1, <1>2
    <2>2. k - 1 < NatPower(2, k - 1) /\ NatPower(2, k - 1) \in Nat
      BY <2>1, BelowPower, PowerType
    <2>. QED
      BY <1>0, <1>1, <1>2, <2>2
  <1>4. \E j \in 1..P : NatPower(2, j - 1) <= P /\ P < NatPower(2, j)
    BY <1>1, <1>2, <1>3
  <1>5. ModulusBits \in 1..P /\ NatPower(2, ModulusBits - 1) <= P /\ P < NatPower(2, ModulusBits)
    BY <1>4, Zenon DEF ModulusBits
  <1>. DEFINE d == ModulusBits  e == d - 1
  <1>6. d \in Nat \ {0} /\ e \in Nat /\ d = e + 1
    BY <1>0, <1>5
  <1>7. ByteBits \in Nat \ {0} /\ NatPower(2, ByteBits) <= P
    BY ByteAssumption
  <1>8. ByteBits <= e
    <2>1. d <= ByteBits => NatPower(2, d) <= NatPower(2, ByteBits)
      BY <1>6, <1>7, PowerGrows
    <2>2. NatPower(2, d) \in Nat /\ NatPower(2, ByteBits) \in Nat
      BY <1>6, <1>7, PowerType
    <2>3. P < NatPower(2, d)
      BY <1>5
    <2>. HIDE DEF d
    <2>4. ~(d <= ByteBits)
      BY <1>0, <1>7, <2>1, <2>2, <2>3
    <2>. QED
      BY <1>6, <1>7, <2>4
  <1>9. LimbBytes = e \div ByteBits
    BY DEF LimbBytes
  <1>. HIDE DEF d, e
  <1>10. e \div ByteBits \in Nat /\ e % ByteBits \in 0..(ByteBits - 1)
         /\ e = ByteBits * (e \div ByteBits) + (e % ByteBits)
    BY <1>6, <1>7, DivMod
  <1>. DEFINE q == e \div ByteBits  r == e % ByteBits
  <1>. HIDE DEF q, r
  <1>11. q \in Nat /\ r \in Nat /\ r < ByteBits /\ e = ByteBits * q + r
    BY <1>7, <1>10 DEF q, r
  <1>12. q # 0
    <2>1. q = 0 => ByteBits * q = 0
      BY <1>7
    <2>. QED
      BY <1>6, <1>7, <1>8, <1>11, <2>1
  <1>13. ByteBits * q <= e
    <2>1. ByteBits * q \in Nat
      BY <1>7, <1>11
    <2>. QED
      BY <1>11, <2>1
  <1>14. LimbBytes = q
    BY <1>9 DEF q
  <1>15. ModulusBits - 1 = e
    BY DEF e, d
  <1>16. LimbBytes \in Nat \ {0} /\ ByteBits * LimbBytes <= ModulusBits - 1
    BY <1>11, <1>12, <1>13, <1>14, <1>15
  <1>. QED
    BY <1>5, <1>6, <1>16 DEF d

\* Digits below the base.
AreDigits(digits, n, b) ==
    digits \in Seq(Nat) /\ Len(digits) = n /\ \A k \in 1..n : digits[k] \in Nat /\ digits[k] < b

\* Digits turned around are digits.
LEMMA BackType ==
    ASSUME NEW n \in Nat, NEW b \in Nat \ {0}, NEW digits, AreDigits(digits, n, b)
    PROVE  /\ \A j \in 0..(n - 1) : Back(digits, n)[j] = digits[n - j] /\ Back(digits, n)[j] < b
           /\ IsNats(Back(digits, n), n) /\ IsInts(Back(digits, n), n)
  <1>1. ASSUME NEW j \in 0..(n - 1)
        PROVE  Back(digits, n)[j] = digits[n - j] /\ Back(digits, n)[j] < b /\ Back(digits, n)[j] \in Nat
    <2>1. n - j \in 1..n
      OBVIOUS
    <2>2. Back(digits, n)[j] = digits[n - j]
      BY DEF Back
    <2>. QED
      BY <2>1, <2>2 DEF AreDigits
  <1>. QED
    BY <1>1 DEF IsNats, IsInts

\* A number of n digits is below the n-th power of its base.
LEMMA BigEndianBelow ==
    ASSUME NEW n \in Nat, NEW b \in Nat \ {0}, NEW digits, AreDigits(digits, n, b)
    PROVE  BigEndian(digits, b) \in Nat /\ BigEndian(digits, b) < NatPower(b, n)
  <1>. DEFINE l == Back(digits, n)
  <1>1. BigEndian(digits, b) = Worth(l, n, b)
    BY BigEndianIsWorth DEF AreDigits
  <1>2. IsNats(l, n) /\ \A j \in 0..(n - 1) : l[j] < b
    BY BackType
  <1>. HIDE DEF l
  <1>3. Worth(l, n, b) \in Nat /\ Worth(l, n, b) < NatPower(b, n)
    BY <1>2, WorthType, WorthBelow
  <1>. QED
    BY <1>1, <1>3

\* The k-th digit of a number.
LEMMA DigitOf ==
    ASSUME NEW n \in Nat, NEW b \in Nat \ {0}, NEW digits, AreDigits(digits, n, b), NEW k \in 1..n
    PROVE  (BigEndian(digits, b) \div NatPower(b, n - k)) % b = digits[k]
  <1>. DEFINE l == Back(digits, n)  d == n - k  e == k - 1
              r == [j \in 0..e |-> l[d + j]]
              s == [j \in 0..(e - 1) |-> l[d + 1 + j]]
              v == BigEndian(digits, b)  q == NatPower(b, d)
  <1>1. d \in Nat /\ e \in Nat /\ n = d + (e + 1) /\ d \in 0..(n - 1)
    OBVIOUS
  <1>2. v = Worth(l, n, b)
    BY BigEndianIsWorth DEF AreDigits
  <1>3. IsNats(l, n) /\ IsInts(l, n) /\ \A j \in 0..(n - 1) : l[j] < b
    BY BackType
  <1>4. l[d] = digits[k]
    <2>1. n - d = k
      OBVIOUS
    <2>2. l[d] = digits[n - d]
      BY <1>1, BackType
    <2>. QED
      BY <2>1, <2>2
  <1>. HIDE DEF l, v, q
  <1>5. IsPart(r, l, d, e + 1)
    BY <1>1 DEF IsPart
  <1>6. IsInts(r, e + 1) /\ IsNats(s, e) /\ r[0] = l[d]
    <2>1. ASSUME NEW j \in 0..e PROVE r[j] = l[d + j] /\ r[j] \in Int
      <3>1. d + j \in 0..(n - 1)
        BY <1>1
      <3>. QED
        BY <1>3, <3>1 DEF IsInts
    <2>2. ASSUME NEW j \in 0..(e - 1) PROVE s[j] \in Nat
      <3>1. d + 1 + j \in 0..(n - 1)
        BY <1>1
      <3>. QED
        BY <1>3, <3>1 DEF IsNats
    <2>3. r[0] = l[d]
      BY <1>1
    <2>. HIDE DEF r, s
    <2>. QED
      BY <2>1, <2>2, <2>3 DEF IsInts, IsNats
  <1>7. IsPart(s, r, 1, e)
    <2>1. ASSUME NEW j \in 0..(e - 1) PROVE s[j] = r[1 + j]
      <3>1. 1 + j \in 0..e /\ d + (1 + j) = d + 1 + j
        BY <1>1
      <3>. QED
        BY <3>1
    <2>. QED
      BY <2>1 DEF IsPart
  <1>8. IsNats(l, d)
    BY <1>1, <1>3 DEF IsNats
  <1>. HIDE DEF r, s
  <1>9. Worth(l, d + (e + 1), b) = Worth(l, d, b) + q * Worth(r, e + 1, b)
    <2>1. e + 1 \in Nat /\ IsInts(l, d + (e + 1))
      BY <1>1, <1>3
    <2>. QED
      BY <1>1, <1>5, <2>1, WorthSplit DEF q
  <1>10. Worth(r, e + 1, b) = r[0] + b * Worth(s, e, b)
    BY <1>1, <1>6, <1>7, WorthHead
  <1>11. Worth(s, e, b) \in Nat /\ Worth(l, d, b) \in Nat /\ Worth(l, d, b) < q
    <2>1. \A j \in 0..(d - 1) : l[j] < b
      BY <1>1, <1>3
    <2>. QED
      BY <1>1, <1>6, <1>8, <2>1, WorthType, WorthBelow DEF q
  <1>12. q \in Nat \ {0}
    BY <1>1, PowerType DEF q
  <1>. DEFINE t == Worth(s, e, b)  w == Worth(l, d, b)  c == l[d]  u == c + b * t
  <1>13. t \in Nat /\ w \in Nat /\ w < q /\ c \in Nat /\ c < b /\ v = q * u + w /\ v \in Nat
    <2>1. c \in Nat /\ c < b
      BY <1>1, <1>3 DEF IsNats
    <2>2. v = w + q * u
      BY <1>1, <1>2, <1>6, <1>9, <1>10
    <2>. HIDE DEF t, w, c
    <2>3. t \in Nat /\ w \in Nat /\ w < q
      BY <1>11 DEF t, w
    <2>4. u \in Nat
      BY <2>1, <2>3
    <2>. HIDE DEF u
    <2>5. q * u \in Nat
      BY <1>12, <2>4
    <2>. QED
      BY <2>1, <2>2, <2>3, <2>4, <2>5
  <1>. HIDE DEF t, w, c
  <1>14. u \in Nat /\ u = b * t + c
    <2>1. b * t \in Nat
      BY <1>13
    <2>. QED
      BY <1>13, <2>1
  <1>. HIDE DEF u, d
  <1>15. v \div q = u
    BY <1>12, <1>13, <1>14, DivUnique
  <1>16. u % b = c
    BY <1>13, <1>14, DivUnique
  <1>. QED
    BY <1>4, <1>15, <1>16 DEF c, v, q, d

\* w bits of a number from the d-th on.
LEMMA SegmentNum ==
    ASSUME NEW n \in Nat, NEW d \in Nat, NEW w \in Nat, d + w <= n, NEW v \in Nat
    PROVE  Num(SubSeq(ToBits(v, n), d + 1, d + w)) = (v \div NatPower(2, d)) % NatPower(2, w)
  <1>. DEFINE bits == ToBits(v, n)  s == SubSeq(bits, d + 1, d + w)  l == Ones(s)
              q == NatPower(2, d)  u == v \div q
  <1>1. q \in Nat \ {0}
    BY PowerType
  <1>2. u \in Nat
    BY <1>1, DivMod
  <1>3. bits \in BitVectors(n) /\ \A j \in 0..(n - 1) : Ones(bits)[j] = (v \div NatPower(2, j)) % 2
    BY ToBitsType
  <1>4. Len(bits) = n /\ \A k \in 1..n : bits[k] \in BOOLEAN
    BY <1>3, VectorType
  <1>. HIDE DEF bits
  <1>5. s \in Seq(BOOLEAN) /\ Len(s) = w /\ \A j \in 1..w : s[j] = bits[d + j]
    <2>1. \A j \in (d + 1)..(d + w) : bits[j] \in BOOLEAN
      BY <1>4
    <2>2. d + 1 \in Int /\ d + w \in Int
      OBVIOUS
    <2>3. /\ s \in Seq(BOOLEAN)
          /\ Len(s) = IF d + 1 <= d + w THEN (d + w) - (d + 1) + 1 ELSE 0
          /\ \A j \in 1..((d + w) - (d + 1) + 1) : s[j] = bits[(d + 1) + j - 1]
      BY <2>1, <2>2, SubSeqProperties
    <2>. HIDE DEF s
    <2>4. (d + w) - (d + 1) + 1 = w /\ \A j \in 1..w : (d + 1) + j - 1 = d + j
      OBVIOUS
    <2>5. Len(s) = w
      BY <2>3
    <2>6. \A j \in 1..w : s[j] = bits[d + j]
      BY <2>3, <2>4
    <2>. QED
      BY <2>3, <2>5, <2>6
  <1>. HIDE DEF s
  <1>6. s \in BitVectors(w)
    BY <1>5 DEF BitVectors
  <1>7. ASSUME NEW j \in 0..(w - 1) PROVE l[j] = (u \div NatPower(2, j)) % 2
    <2>1. l[j] = IF s[j + 1] THEN 1 ELSE 0
      BY <1>6, VectorType
    <2>2. j + 1 \in 1..w /\ d + j \in 0..(n - 1) /\ d + (j + 1) = (d + j) + 1
      OBVIOUS
    <2>3. s[j + 1] = bits[(d + j) + 1]
      BY <1>5, <2>2
    <2>4. Ones(bits)[d + j] = IF bits[(d + j) + 1] THEN 1 ELSE 0
      BY <1>3, <2>2, VectorType
    <2>5. Ones(bits)[d + j] = (v \div NatPower(2, d + j)) % 2
      BY <1>3, <2>2
    <2>6. NatPower(2, d + j) = q * NatPower(2, j) /\ NatPower(2, j) \in Nat \ {0}
      BY PowerAdd, PowerType
    <2>7. u \div NatPower(2, j) = v \div (q * NatPower(2, j))
      BY <1>1, <2>6, DivDiv
    <2>. QED
      BY <2>1, <2>3, <2>4, <2>5, <2>6, <2>7
  <1>8. Num(s) = Worth(l, w, 2) /\ Num(s) \in Nat /\ Num(s) < NatPower(2, w)
    BY <1>6, NumIsWorth
  <1>. HIDE DEF l, u, q
  <1>9. Worth(l, w, 2) \in Nat /\ u = NatPower(2, w) * (u \div NatPower(2, w)) + Worth(l, w, 2)
    BY <1>2, <1>7, LowDigits
  <1>10. NatPower(2, w) \in Nat \ {0}
    BY PowerType
  <1>11. u \div NatPower(2, w) \in Nat
    BY <1>2, <1>10, DivMod
  <1>12. u % NatPower(2, w) = Num(s)
    BY <1>2, <1>8, <1>9, <1>10, <1>11, DivUnique
  <1>. QED
    BY <1>12 DEF u, q, s, bits

\* Segments that fit below the modulus survive the way there and back.
LEMMA SegmentsSurvive ==
    ASSUME NEW n \in Nat, NEW w \in Nat, NEW segments, AreDigits(segments, n, NatPower(2, w)),
           n * w <= ModulusBits - 1
    PROVE  NumToSegmentsBe(SegmentsToNumBe(segments, w), n, w) = segments
  <1>. DEFINE b == NatPower(2, w)  v == BigEndian(segments, b)
  <1>1. b \in Nat \ {0}
    BY PowerType
  <1>2. v \in Nat /\ v < NatPower(b, n)
    BY <1>1, BigEndianBelow
  <1>3. n * w \in Nat /\ w * n = n * w /\ ModulusBits - 1 \in Nat
    BY ModulusBitsType
  <1>4. NatPower(b, n) = NatPower(2, w * n)
    BY PowerMultiply
  <1>5. NatPower(2, w * n) <= NatPower(2, ModulusBits - 1)
    BY <1>3, PowerGrows
  <1>6. NatPower(2, ModulusBits - 1) <= P /\ P \in Nat \ {0}
    BY ModulusBitsType, PrimeAssumption
  <1>7. NatPower(2, w * n) \in Nat /\ NatPower(2, ModulusBits - 1) \in Nat
    BY <1>3, PowerType
  <1>8. v < P
    <2>. HIDE DEF v, b
    <2>. QED
      BY <1>2, <1>4, <1>5, <1>6, <1>7
  <1>9. SegmentsToNumBe(segments, w) = v
    <2>1. SegmentsToNumBe(segments, w) = v % P
      BY DEF SegmentsToNumBe
    <2>2. v % P = v
      <3>. HIDE DEF v
      <3>. QED
        BY <1>2, <1>6, <1>8, ModSelf
    <2>. QED
      BY <2>1, <2>2
  <1>10. ASSUME NEW k \in 1..n
         PROVE  Num(SubSeq(ToBits(v, n * w), (n - k) * w + 1, (n - k + 1) * w)) = segments[k]
    <2>. DEFINE d == (n - k) * w
    <2>1. n - k \in Nat /\ d \in Nat /\ (n - k + 1) * w = d + w
      OBVIOUS
    <2>2. d + w <= n * w
      <3>1. (n - k + 1) * w <= n * w
        OBVIOUS
      <3>. QED
        BY <2>1, <3>1
    <2>3. NatPower(2, d) = NatPower(b, n - k)
      <3>1. w * (n - k) = d
        OBVIOUS
      <3>. QED
        BY <2>1, <3>1, PowerMultiply
    <2>. HIDE DEF d
    <2>4. Num(SubSeq(ToBits(v, n * w), d + 1, d + w)) = (v \div NatPower(2, d)) % NatPower(2, w)
      <3>. HIDE DEF v
      <3>. QED
        BY <1>2, <1>3, <2>1, <2>2, SegmentNum
    <2>5. (v \div NatPower(b, n - k)) % b = segments[k]
      BY <1>1, DigitOf
    <2>. QED
      BY <2>1, <2>3, <2>4, <2>5 DEF d
  <1>. HIDE DEF v
  <1>11. NumToSegmentsBe(v, n, w) = [k \in 1..n |-> segments[k]]
    BY <1>10 DEF NumToSegmentsBe
  <1>12. segments = [k \in 1..n |-> segments[k]]
    BY DEF AreDigits
  <1>. QED
    BY <1>9, <1>11, <1>12

\* Bytes in range are packed without loss.
LEMMA PackedIsSpelled ==
    ASSUME NEW chunk, AreDigits(chunk, LimbBytes, ByteBase)
    PROVE  Spelled(chunk, PackBytesToField(chunk))
  <1>. DEFINE v == BigEndian(chunk, ByteBase)
  <1>1. LimbBytes \in Nat /\ ByteBits \in Nat /\ ByteBase \in Nat \ {0}
    BY ModulusBitsType, ByteAssumption, PowerType DEF ByteBase
  <1>2. v \in Nat /\ v < NatPower(ByteBase, LimbBytes)
    BY <1>1, BigEndianBelow
  <1>3. NatPower(ByteBase, LimbBytes) = NatPower(2, ByteBits * LimbBytes)
    BY <1>1, PowerMultiply DEF ByteBase
  <1>4. ByteBits * LimbBytes \in Nat /\ ModulusBits - 1 \in Nat
        /\ ByteBits * LimbBytes <= ModulusBits - 1
    BY <1>1, ModulusBitsType
  <1>5. NatPower(2, ByteBits * LimbBytes) <= NatPower(2, ModulusBits - 1)
    BY <1>4, PowerGrows
  <1>6. NatPower(2, ModulusBits - 1) <= P /\ P \in Nat \ {0}
    BY ModulusBitsType, PrimeAssumption
  <1>7. NatPower(2, ByteBits * LimbBytes) \in Nat /\ NatPower(2, ModulusBits - 1) \in Nat
    BY <1>4, PowerType
  <1>8. v % P = v
    <2>. HIDE DEF v
    <2>1. v < P
      BY <1>2, <1>3, <1>5, <1>6, <1>7
    <2>. QED
      BY <1>2, <1>6, <2>1, ModSelf
  <1>. QED
    BY <1>8 DEF Spelled, PackBytesToField

-----------------------------------------------------------------------------
(* The calls.                                                              *)

\* A vector tried has one of the lengths tried.
LEMMA VectorsType ==
    ASSUME NEW lengths, NEW bits \in Vectors(lengths)
    PROVE  \E n \in lengths : bits \in BitVectors(n)
  BY DEF Vectors

\* Tuples are sequences.
LEMMA TupleType ==
    ASSUME NEW n \in Nat, NEW s \in [1..n -> Entries]
    PROVE  s \in Seq(Nat) /\ Len(s) = n /\ DOMAIN s = 1..n /\ \A k \in 1..n : s[k] \in Nat
  <1>1. s \in [1..n -> Nat]
    BY EntriesAssumption
  <1>2. s \in Seq(Nat) /\ DOMAIN s = 1..n /\ \A k \in 1..n : s[k] \in Nat
    BY <1>1
  <1>. QED
    BY <1>2

\* A comparison means what its name says.
LEMMA CompareMeans == ASSUME GateCompare, UNCHANGED gate PROVE GatesMeanArithmetic'
  <1>1. PICK a \in Vectors(NumBitsTried), b \in Vectors(NumBitsTried) : Compare(a, b)
    BY DEF GateCompare
  <1>2. PICK n \in NumBitsTried : a \in BitVectors(n)
    BY VectorsType
  <1>3. PICK e \in NumBitsTried : b \in BitVectors(e)
    BY VectorsType
  <1>4. n \in Nat /\ e \in Nat /\ NatPower(2, n + 1) <= P
    BY NumBitsAssumption
  <1>5. Len(a) = n /\ Len(b) = e
    BY <1>2, <1>3, <1>4, VectorType
  <1>6. gate \in Compares /\ gate' = gate /\ gateIn' = <<a, b>>
    BY <1>1 DEF GateCompare, Compare
  <1>7. gateIn'[1] = a /\ gateIn'[2] = b /\ gateIn' # <<>>
    BY <1>6
  <1>8. CASE n # e
    <2>1. ~SameLength(a, b)
      BY <1>5, <1>8 DEF SameLength
    <2>2. ~gateOk'
      <3>1. ~EnforceLessThanOk(a, b) /\ ~EnforceLessOrEqualOk(a, b)
        BY <2>1 DEF EnforceLessThanOk, EnforceLessOrEqualOk
      <3>. QED
        BY <1>1, <2>1, <3>1 DEF Compare
    <2>3. Len(gateIn'[1]) # Len(gateIn'[2])
      BY <1>7, <2>1 DEF SameLength
    <2>. QED
      BY <2>2, <2>3 DEF GatesMeanArithmetic, SameLength
  <1>9. CASE n = e
    <2>. DEFINE u == Num(a)  v == Num(b)
    <2>1. SameLength(a, b) /\ b \in BitVectors(n)
      BY <1>3, <1>5, <1>9 DEF SameLength
    <2>2. u \in Nat /\ v \in Nat
      BY <1>2, <1>4, <2>1, NumIsWorth
    <2>3. CompareBitsRaw(a, b).less = (u < v) /\ CompareBitsRaw(a, b).equal = (u = v)
      BY <1>2, <1>4, <2>1, CompareIsExact
    <2>4. (EnforceLessThanOk(a, b) <=> u < v) /\ (EnforceLessOrEqualOk(a, b) <=> u <= v)
      BY <1>2, <1>4, <2>1, EnforceIsExact
    <2>5. /\ IsLessThan(a, b) <=> u < v
          /\ IsLessOrEqual(a, b) <=> u <= v
          /\ IsGreaterOrEqual(a, b) <=> u >= v
      <3>1. (u < v \/ u = v <=> u <= v) /\ (~(u < v) <=> u >= v)
        BY <2>2
      <3>. QED
        BY <2>3, <3>1 DEF IsLessThan, IsLessOrEqual, IsGreaterOrEqual
    <2>6. Compared(a, b)' = CASE gate \in {"is_less_than", "enforce_less_than"} -> u < v
                              [] gate \in {"is_less_or_equal", "enforce_less_or_equal"} -> u <= v
                              [] OTHER -> u >= v
      BY <1>6 DEF Compared
    <2>. HIDE DEF u, v
    <2>7. CASE gate = "enforce_less_than"
      <3>1. gateOk' = EnforceLessThanOk(a, b)
        BY <1>1, <2>7 DEF Compare
      <3>2. Compared(a, b)' = (u < v)
        BY <2>6, <2>7
      <3>3. gateOk' = Compared(a, b)'
        BY <2>4, <3>1, <3>2 DEF EnforceLessThanOk
      <3>. QED
        BY <1>6, <1>7, <2>7, <3>3 DEF GatesMeanArithmetic
    <2>8. CASE gate = "enforce_less_or_equal"
      <3>1. gateOk' = EnforceLessOrEqualOk(a, b)
        BY <1>1, <2>8 DEF Compare
      <3>2. Compared(a, b)' = (u <= v)
        BY <2>6, <2>8
      <3>3. gateOk' = Compared(a, b)'
        BY <2>4, <3>1, <3>2 DEF EnforceLessOrEqualOk
      <3>. QED
        BY <1>6, <1>7, <2>8, <3>3 DEF GatesMeanArithmetic
    <2>9. CASE gate = "is_less_than"
      <3>1. gateOk' = TRUE
        BY <1>1, <2>1, <2>9 DEF Compare, SameLength
      <3>2. gateOut' = IsLessThan(a, b)
        BY <1>1, <2>9, <3>1 DEF Compare
      <3>3. Compared(a, b)' = (u < v)
        BY <2>6, <2>9
      <3>4. gateOut' = Compared(a, b)'
        BY <2>3, <3>2, <3>3 DEF IsLessThan
      <3>. QED
        BY <1>6, <1>7, <2>9, <3>4 DEF GatesMeanArithmetic, EnforcingGate
    <2>10. CASE gate = "is_less_or_equal"
      <3>1. gateOk' = TRUE
        BY <1>1, <2>1, <2>10 DEF Compare, SameLength
      <3>2. gateOut' = IsLessOrEqual(a, b)
        BY <1>1, <2>10, <3>1 DEF Compare
      <3>3. Compared(a, b)' = (u <= v)
        BY <2>6, <2>10
      <3>4. gateOut' = Compared(a, b)'
        BY <2>5, <3>2, <3>3 DEF IsLessOrEqual
      <3>. QED
        BY <1>6, <1>7, <2>10, <3>4 DEF GatesMeanArithmetic, EnforcingGate
    <2>11. CASE gate = "is_greater_or_equal"
      <3>1. gateOk' = TRUE
        BY <1>1, <2>1, <2>11 DEF Compare, SameLength
      <3>2. gateOut' = IsGreaterOrEqual(a, b)
        BY <1>1, <2>11, <3>1 DEF Compare
      <3>3. Compared(a, b)' = (u >= v)
        BY <2>6, <2>11
      <3>4. gateOut' = Compared(a, b)'
        BY <2>5, <3>2, <3>3 DEF IsGreaterOrEqual
      <3>. QED
        BY <1>6, <1>7, <2>11, <3>4 DEF GatesMeanArithmetic, EnforcingGate
    <2>. QED
      BY <1>6, <2>7, <2>8, <2>9, <2>10, <2>11 DEF Compares
  <1>. QED
    BY <1>8, <1>9

\* A selection finds its element.
LEMMA SelectMeans == ASSUME GateSelect, UNCHANGED gate PROVE GatesMeanArithmetic'
  <1>. DEFINE inputs == {<<>>, <<7>>, <<7, 8, 9>>, <<7, 8, 9, 10, 11, 12, 13, 14>>}
  <1>1. PICK input \in inputs, bits \in Vectors(0..3) : Select(input, bits)
    BY DEF GateSelect
  <1>2. DOMAIN input = 1..Len(input)
    OBVIOUS
  <1>. HIDE DEF inputs
  <1>3. PICK n \in 0..3 : bits \in BitVectors(n)
    BY VectorsType
  <1>4. n \in Nat /\ Len(bits) = n
    BY <1>3, VectorType
  <1>5. gate \in Selects /\ gate' = gate /\ gateIn' = <<input, bits>> /\ gateOk' = SelectOk(input, bits)
    BY <1>1 DEF GateSelect, Select
  <1>6. gateIn'[1] = input /\ gateIn'[2] = bits
    BY <1>5
  <1>7. CASE ~SelectOk(input, bits)
    <2>1. ~gateOk' /\ ~EnforcingGate'
      BY <1>5, <1>7 DEF EnforcingGate, Selects
    <2>. QED
      BY <2>1 DEF GatesMeanArithmetic
  <1>8. CASE SelectOk(input, bits)
    <2>1. DOMAIN input = 1..NatPower(2, n)
      BY <1>2, <1>4, <1>8 DEF SelectOk
    <2>2. /\ SelectArrayElement(input, bits) = input[Num(bits) + 1]
          /\ SelectArrayElementBe(input, bits) = input[Num(Turned(bits)) + 1]
          /\ SelectPowerOfTwoLe(input, bits) = input[Num(bits) + 1]
      BY <1>3, <1>4, <2>1, SelectIsExact, SelectBeIsExact
    <2>3. gateOk'
      BY <1>5, <1>8
    <2>4. CASE gate = "select_array_element"
      <3>1. gateOut' = SelectArrayElement(input, bits)
        BY <1>1, <2>3, <2>4 DEF Select
      <3>2. gateOut' = gateIn'[1][Num(gateIn'[2]) + 1]
        BY <1>6, <2>2, <3>1
      <3>. QED
        BY <1>5, <2>4, <3>2 DEF GatesMeanArithmetic, EnforcingGate
    <2>5. CASE gate = "select_array_element_be"
      <3>1. gateOut' = SelectArrayElementBe(input, bits)
        BY <1>1, <2>3, <2>5 DEF Select
      <3>2. gateOut' = gateIn'[1][Num(Turned(gateIn'[2])) + 1]
        BY <1>6, <2>2, <3>1
      <3>. QED
        BY <1>5, <2>5, <3>2 DEF GatesMeanArithmetic, EnforcingGate
    <2>6. CASE gate = "select_power_of_two_le"
      <3>1. gateOut' = SelectPowerOfTwoLe(input, bits)
        BY <1>1, <2>3, <2>6 DEF Select
      <3>2. gateOut' = gateIn'[1][Num(gateIn'[2]) + 1]
        BY <1>6, <2>2, <3>1
      <3>. QED
        BY <1>5, <2>6, <3>2 DEF GatesMeanArithmetic, EnforcingGate
    <2>. QED
      BY <1>5, <2>4, <2>5, <2>6 DEF Selects
  <1>. QED
    BY <1>7, <1>8

\* The multiplexer's meaning is its definition.
LEMMA MuxMeans == ASSUME GateMux, UNCHANGED gate PROVE GatesMeanArithmetic'
  <1>1. gate' = "multi_mux"
    BY DEF GateMux
  <1>. QED
    BY <1>1 DEF GatesMeanArithmetic, EnforcingGate

\* Bytes in range are packed without loss, chunk by chunk.
LEMMA PackMeans == ASSUME GatePack, UNCHANGED gate PROVE GatesMeanArithmetic'
  <1>1. PICK bytes \in Tuples(Entries, 0..(LimbBytes + 1)) : Pack(bytes)
    BY DEF GatePack
  <1>2. PICK n \in 0..(LimbBytes + 1) : bytes \in [1..n -> Entries]
    BY DEF Tuples
  <1>3. LimbBytes \in Nat \ {0} /\ n \in Nat
    BY ModulusBitsType
  <1>4. bytes \in Seq(Nat) /\ Len(bytes) = n /\ DOMAIN bytes = 1..n /\ \A k \in 1..n : bytes[k] \in Nat
    BY <1>2, <1>3, TupleType
  <1>5. gate \in Packs /\ gate' = gate /\ gateIn' = bytes
    BY <1>1 DEF GatePack, Pack
  <1>6. ~EnforcingGate'
    BY <1>5 DEF EnforcingGate, Packs
  <1>7. CASE ~gateOk'
    BY <1>6, <1>7 DEF GatesMeanArithmetic
  <1>8. CASE gate # "pack_checked"
    <2>1. gate' = "pack_unchecked"
      BY <1>5, <1>8 DEF Packs
    <2>. QED
      BY <1>6, <2>1 DEF GatesMeanArithmetic
  <1>9. CASE gateOk' /\ gate = "pack_checked"
    <2>. DEFINE l == LimbBytes  r == Len(bytes) \div l
                chunk(c) == SubSeq(bytes, l * (c - 1) + 1, l * c)
    <2>1. n % l = 0 /\ BytesRanged(bytes)
      BY <1>1, <1>4, <1>9 DEF Pack
    <2>2. gateOut' = [c \in 1..r |-> PackBytesToField(chunk(c))]
      BY <1>1, <1>9 DEF Pack
    <2>3. r \in Nat /\ n = l * r
      <3>1. n \div l \in Nat /\ n = l * (n \div l) + (n % l)
        BY <1>3, DivMod
      <3>2. l * (n \div l) + 0 = l * (n \div l)
        BY <1>3, <3>1
      <3>. QED
        BY <1>4, <2>1, <3>1, <3>2
    <2>4. ByteBase \in Nat \ {0}
      BY ByteAssumption, PowerType DEF ByteBase
    <2>5. \A k \in 1..n : bytes[k] \in Nat /\ bytes[k] < ByteBase
      <3>. SUFFICES ASSUME NEW k \in 1..n PROVE bytes[k] \in Nat /\ bytes[k] < ByteBase
        OBVIOUS
      <3>. DEFINE z == bytes[k]
      <3>1. z \in Nat
        BY <1>4
      <3>2. z % ByteBase = z
        BY <1>4, <2>1 DEF BytesRanged
      <3>. HIDE DEF z
      <3>3. z % ByteBase < ByteBase
        BY <2>4, <3>1, ModType
      <3>. QED
        BY <3>1, <3>2, <3>3 DEF z
    <2>. HIDE DEF l, r
    <2>6. l \in Nat \ {0} /\ l = LimbBytes
      BY <1>3 DEF l
    <2>7. ASSUME NEW c \in 1..r PROVE AreDigits(chunk(c), l, ByteBase)
      <3>. DEFINE d == l * (c - 1)
      <3>1. d \in Nat /\ l * c = d + l
        BY <2>6
      <3>2. l * c <= l * r
        BY <2>3, <2>6
      <3>3. d + l <= n
        BY <2>3, <3>1, <3>2
      <3>. HIDE DEF d
      <3>4. \A j \in (d + 1)..(d + l) : bytes[j] \in Nat
        BY <1>4, <2>6, <3>1, <3>3
      <3>5. d + 1 \in Int /\ d + l \in Int
        BY <2>6, <3>1
      <3>. DEFINE s == SubSeq(bytes, d + 1, d + l)
      <3>6. /\ s \in Seq(Nat)
            /\ Len(s) = IF d + 1 <= d + l THEN (d + l) - (d + 1) + 1 ELSE 0
            /\ \A j \in 1..((d + l) - (d + 1) + 1) : s[j] = bytes[(d + 1) + j - 1]
        BY <3>4, <3>5, SubSeqProperties
      <3>7. chunk(c) = s
        BY <3>1 DEF d
      <3>. HIDE DEF s
      <3>8. Len(s) = l
        BY <2>6, <3>1, <3>6
      <3>9. ASSUME NEW j \in 1..l PROVE s[j] \in Nat /\ s[j] < ByteBase
        <4>1. j \in 1..((d + l) - (d + 1) + 1) /\ (d + 1) + j - 1 \in 1..n
          BY <2>6, <3>1, <3>3
        <4>. QED
          BY <2>5, <3>6, <4>1
      <3>10. AreDigits(s, l, ByteBase)
        BY <3>6, <3>8, <3>9 DEF AreDigits
      <3>. QED
        BY <3>7, <3>10
    <2>8. ASSUME NEW c \in 1..r PROVE Spelled(chunk(c), gateOut'[c])
      <3>1. AreDigits(chunk(c), LimbBytes, ByteBase)
        BY <2>6, <2>7
      <3>2. gateOut'[c] = PackBytesToField(chunk(c))
        BY <2>2
      <3>. HIDE DEF chunk
      <3>. QED
        BY <3>1, <3>2, PackedIsSpelled
    <2>9. DOMAIN gateOut' = 1..r
      BY <2>2
    <2>10. \A c \in DOMAIN gateOut' : Spelled(SubSeq(gateIn', l * (c - 1) + 1, l * c), gateOut'[c])
      BY <1>5, <2>8, <2>9
    <2>. QED
      BY <1>5, <1>6, <1>9, <2>10 DEF GatesMeanArithmetic, l
  <1>. QED
    BY <1>7, <1>8, <1>9

\* Segments survive.
LEMMA SegmentsMean == ASSUME GateSegments, UNCHANGED gate PROVE GatesMeanArithmetic'
  <1>1. PICK segments \in Tuples(Entries, 0..4), w \in 1..3 :
            (\A k \in DOMAIN segments : segments[k] < NatPower(2, w)) /\ Regroup(segments, w)
    BY DEF GateSegments
  <1>2. PICK n \in 0..4 : segments \in [1..n -> Entries]
    BY DEF Tuples
  <1>3. segments \in Seq(Nat) /\ Len(segments) = n /\ DOMAIN segments = 1..n
        /\ \A k \in 1..n : segments[k] \in Nat
    BY <1>2, TupleType
  <1>4. AreDigits(segments, n, NatPower(2, w))
    BY <1>1, <1>3 DEF AreDigits
  <1>5. gate' = "segments" /\ gateIn' = <<segments, w>>
    BY <1>1 DEF GateSegments, Regroup
  <1>6. ~EnforcingGate'
    BY <1>5 DEF EnforcingGate
  <1>7. CASE ~gateOk'
    BY <1>6, <1>7 DEF GatesMeanArithmetic
  <1>8. CASE gateOk'
    <2>1. n * w <= ModulusBits - 1
      BY <1>1, <1>3, <1>8 DEF Regroup, SegmentsToNumOk
    <2>2. gateOut' = NumToSegmentsBe(SegmentsToNumBe(segments, w), n, w)
      BY <1>1, <1>3, <1>8 DEF Regroup
    <2>3. NumToSegmentsBe(SegmentsToNumBe(segments, w), n, w) = segments
      BY <1>4, <2>1, SegmentsSurvive
    <2>4. gateOut' = gateIn'[1]
      BY <1>5, <2>2, <2>3
    <2>. QED
      BY <1>5, <1>6, <2>4 DEF GatesMeanArithmetic
  <1>. QED
    BY <1>7, <1>8

\* The small gadgets mean what their names say, in every prime field with room for the
\* difference of two numbers and for a byte: comparisons compare, also where a difference
\* wraps, index bits select from whichever end, packing loses nothing and segments survive.
THEOREM GatesAreExact == GateSpec => []GatesMeanArithmetic
  <1>1. GateInit => GatesMeanArithmetic
    BY DEF GateInit, GatesMeanArithmetic, EnforcingGate
  <1>2. GatesMeanArithmetic /\ [GateNext]_gateVars => GatesMeanArithmetic'
    <2>1. ASSUME GateNext PROVE GatesMeanArithmetic'
      BY <2>1, CompareMeans, SelectMeans, MuxMeans, PackMeans, SegmentsMean DEF GateNext
    <2>2. ASSUME GatesMeanArithmetic, UNCHANGED gateVars PROVE GatesMeanArithmetic'
      BY <2>2 DEF gateVars, GatesMeanArithmetic, EnforcingGate, Compared
    <2>. QED
      BY <2>1, <2>2
  <1>. QED
    BY <1>1, <1>2, PTL DEF GateSpec
=============================================================================
