------------------------------- MODULE BigNat -------------------------------
(***************************************************************************)
(* The limb representation of gadget/src/bigint: a natural number as       *)
(* NLimbs field elements of LimbWidth bits, least significant first, with  *)
(* a bound on its limbs (word_size) that the arithmetic keeps up to date.  *)
(* A variable is a vector of limbs indexed from 0; the native copy of the  *)
(* value that the code carries beside it is what the limbs stand for.      *)
(***************************************************************************)
EXTENDS PrimeField

CONSTANTS LimbWidth, NLimbs     \* BigNatCircuitParams

ASSUME LimbAssumption == LimbWidth \in Nat \ {0} /\ NLimbs \in Nat \ {0}

Larger(m, n) == IF m < n THEN n ELSE m
Smaller(m, n) == IF m < n THEN m ELSE n

\* The sum of f[0] .. f[n - 1].
Total(f, n) ==
    LET sum[i \in 0..n] == IF i = 0 THEN 0 ELSE sum[i - 1] + f[i - 1]
    IN sum[n]

Size(l) == Cardinality(DOMAIN l)

-----------------------------------------------------------------------------
(* Numbers and limbs.                                                      *)

Base == NatPower(2, LimbWidth)
Limb == 0..(Base - 1)
MaxWord == Base - 1             \* word_size of a canonical variable
BigNats == [0..(NLimbs - 1) -> Limb]

\* BigUint::bits.
Bits(n) == CHOOSE k \in 0..n : n < NatPower(2, k) /\ (k = 0 \/ NatPower(2, k - 1) <= n)
FieldBits == Bits(P)            \* MODULUS_BIT_SIZE

NatToLimbs(n, k) == [i \in 0..(k - 1) |-> (n \div NatPower(Base, i)) % Base]
LimbsToNat(l) == Total([i \in DOMAIN l |-> l[i] * NatPower(Base, i)], Size(l))

\* fit_nat_to_limbs followed by Vec::resize, which also cuts off.
Resized(l, k) == [i \in 0..(k - 1) |-> IF i < Size(l) THEN l[i] ELSE 0]
FitNatToLimbs(n, k) == Resized(NatToLimbs(n, Bits(n) \div LimbWidth + 1), k)

IsCanonical(l) == \A i \in DOMAIN l : l[i] \in Limb
IsZero(l) == \A i \in DOMAIN l : l[i] = 0

\* alloc_from_limbs: the bound RSA gives the limbs of a key and a signature,
\* which does not cover them.
KeyWord == NatPower(2, LimbWidth - 1)

-----------------------------------------------------------------------------
(* Products without carries.                                               *)

\* The schoolbook convolution.
Product(a, b) ==
    [k \in 0..(Size(a) + Size(b) - 2) |->
        Total([i \in 0..k |-> IF i \in DOMAIN a /\ k - i \in DOMAIN b
                              THEN a[i] * b[k - i] ELSE 0], k + 1) % P]

\* The upper triangle, its off-diagonal terms counted twice.
Square(a) ==
    [k \in 0..(2 * Size(a) - 2) |->
        Total([i \in 0..k |-> IF i \notin DOMAIN a \/ k - i \notin DOMAIN a \/ i > k - i THEN 0
                              ELSE IF i = k - i THEN a[i] * a[i]
                              ELSE 2 * a[i] * a[k - i]], k + 1) % P]

LimbwiseSum(a, b, k) ==
    [i \in 0..(k - 1) |-> Plus(Resized(a, k)[i], Resized(b, k)[i])]

-----------------------------------------------------------------------------
(* What conditional_enforce_limbs_equal_when_carried derives from the      *)
(* bound on the limbs: how many limbs one group holds, and how far a carry *)
(* out of a group may reach.                                               *)

CarryBits(word) == Larger(Bits(word) + 1 - LimbWidth, 0)
LimbsPerGroup(word) == (FieldBits - 1 - CarryBits(word)) \div LimbWidth
GroupedBase(word) == NatPower(Base, LimbsPerGroup(word))
\* The number whose g limbs are all ones.
Repunit(g) == Total([i \in 0..(g - 1) |-> NatPower(Base, i)], g)
GroupedWord(word) == Repunit(LimbsPerGroup(word)) * word
GroupedCarryBits(word) == Bits(GroupedWord(word)) - LimbWidth * LimbsPerGroup(word) + 1

CarryCap(word) == NatPower(2, Smaller(FieldBits - 1, GroupedCarryBits(word)))

\* The function asserts both; the second also keeps a usize from going below zero.
\* A layout that fails them is no circuit: RoomFor takes them in.
Supported(word) == word < NatPower(2, FieldBits - 1) /\ LimbsPerGroup(word) >= 1

Chunk(l, g, k) == [i \in 0..(Smaller(g, Size(l) - g * k) - 1) |-> l[g * k + i]]
GroupLimbs(l, g) ==
    [k \in 0..((Size(l) + g - 1) \div g - 1) |-> LimbsToNat(Chunk(l, g, k)) % P]

\* Limbs below `limb` can be compared under the bound `word`: neither a group
\* of them nor a carry between groups takes a sum past the order of the field.
RoomFor(word, limb) ==
    LET most == Repunit(LimbsPerGroup(word)) * limb
    IN /\ Supported(word) /\ GroupedCarryBits(word) \in Nat
       /\ most + CarryCap(word) + GroupedWord(word) < P
       /\ CarryCap(word) * GroupedBase(word) + most <= P
       /\ 2 * GroupedWord(word) + most < P

\* The honest prover's carries pass their range check where the limbs on the
\* left are below `limb`.
CarriesFit(word, limb) ==
    Repunit(LimbsPerGroup(word)) * limb + GroupedWord(word) + CarryCap(word)
        <= CarryCap(word) * GroupedBase(word)

-----------------------------------------------------------------------------
(* The two checks that every operation comes down to. A check is a record  *)
(* of the vectors it compares and the bounds its loop uses.                *)

\* enforce_lt_strict_borrow_chain(left, right)
LessCheck(a, b) ==
    [kind |-> "less", left |-> a, right |-> b, base |-> Base, offset |-> 0, cap |-> Base]

\* conditional_enforce_limbs_equal_when_carried(left, right, word, TRUE)
EqualCheck(a, b, word) ==
    LET g == LimbsPerGroup(word)
    IN [kind |-> "equal", left |-> GroupLimbs(a, g), right |-> GroupLimbs(b, g),
        base |-> GroupedBase(word), offset |-> GroupedWord(word),
        cap |-> CarryCap(word)]

\* The bounds of the sums that mult_mod and square_mod compare.
ModWord(wordX, wordY, wordM) ==
    Larger(NLimbs * wordX * wordY, NLimbs * wordM * MaxWord + MaxWord)
AddWord(wordX, wordY) == wordX + wordY
SubWord(wordX, wordY) == Larger(wordX, wordY) + 1
MultWord(wordX, wordY) == wordX * wordY * NLimbs * NLimbs
EqualWord(wordX, wordY) == Larger(wordX, wordY)
=============================================================================
