------------------------------ MODULE BigNatOps ------------------------------
(***************************************************************************)
(* The operations of BigNatVar on given operands. An operation range-      *)
(* checks what it has to, allocates its witnesses (a prover may allocate   *)
(* any limbs in range), and leaves the checks that tie them to the         *)
(* operands to the loops of LimbChains, one after the other. Every operand *)
(* carries the bound on its limbs (word_size) it was allocated with.       *)
(***************************************************************************)
EXTENDS LimbChains, Sequences

CONSTANTS
    Operands,       \* the limb vectors tried as operands
    Moduli,         \* the limb vectors tried as moduli
    Words,          \* the bounds the fast path's operands are allocated with
    ExpBits,        \* the numbers of exponent bits pow_mod is called with
    Squarings       \* the numbers of squarings of verify_opt: 16 in the code

\* The bounds of operands whose limbs have been range-checked.
Canonical == [x |-> MaxWord, y |-> MaxWord, m |-> MaxWord]

ASSUME OperandAssumption ==
    /\ Operands \cup Moduli \subseteq [0..(NLimbs - 1) -> Nat]
    /\ Words \subseteq [x : Nat, y : Nat, m : Nat]
    /\ ExpBits \subseteq Nat \ {0} /\ Squarings \subseteq Nat \ {0}

\* The field has room for the bounds of the operations on canonical numbers.
ASSUME RoomAssumption ==
    /\ 2 * Base < P
    /\ RoomFor(MaxWord, MaxWord) /\ RoomFor(2 * MaxWord, 2 * MaxWord)
    /\ \A w \in Words \cup {Canonical} :
          RoomFor(ModWord(w.x, w.y, w.m), NLimbs * MaxWord * MaxWord + MaxWord)

\* The carries the honest prover computes pass their range checks, and the
\* bound of a product of canonical numbers stays below the order of the field.
ASSUME HonestRoomAssumption ==
    /\ MultWord(MaxWord, MaxWord) < P
    /\ CarriesFit(MaxWord, MaxWord) /\ CarriesFit(2 * MaxWord, 2 * MaxWord)
    /\ \A w \in Words \cup {Canonical} :
          CarriesFit(ModWord(w.x, w.y, w.m), NLimbs * MaxWord * MaxWord)

Checked == {"add", "sub", "mult_mod", "mult", "reduce", "pow_mod", "verify_opt"}
Windowed == {"pow_mod", "pow_mod_unchecked"}
Powers == Windowed \cup {"verify_opt"}
Modular == {"mult_mod", "mult_mod_unchecked", "square_mod_unchecked"} \cup Powers
Ops == Checked \cup Modular

VARIABLES op, x, y, m, word, expBits, result, checks, phase

vars == <<op, x, y, m, word, expBits, result, checks, phase, chainVars>>

NoLimbs == [k \in {} |-> 0]

Init ==
    /\ op \in Ops
    /\ x \in Operands
    /\ y \in IF op \in {"reduce", "square_mod_unchecked", "verify_opt"} THEN {x} ELSE Operands
    /\ m \in IF op \in Modular THEN Moduli ELSE {NoLimbs}
    \* the fast path is for residues in range: RSA checks sig < n before it
    /\ op \in Modular \ Checked => /\ IsCanonical(x) /\ IsCanonical(y)
                                   /\ IsCanonical(m) /\ LimbsToNat(x) < LimbsToNat(m)
                                   /\ op \notin Powers => LimbsToNat(y) < LimbsToNat(m)
    /\ word \in IF op \in Modular \ Checked
                THEN {w \in Words : op = "square_mod_unchecked" => w.y = w.x} ELSE {Canonical}
    /\ expBits \in IF op \in Windowed THEN ExpBits ELSE IF op = "verify_opt" THEN Squarings ELSE {0}
    /\ result = NoLimbs
    /\ checks = <<>>
    /\ phase = "allocate"
    /\ Start(LessCheck(NoLimbs, NoLimbs))
    /\ verdict = "running"
    /\ honest = TRUE

-----------------------------------------------------------------------------

\* No operation is called.
BigNatIdle ==
    /\ op = "reduce" /\ x = NoLimbs /\ y = NoLimbs /\ m = NoLimbs
    /\ word = Canonical /\ expBits = 0 /\ result = NoLimbs /\ checks = <<>>
    /\ phase = "done"
    /\ Start(LessCheck(NoLimbs, NoLimbs))
    /\ verdict = "running" /\ honest = TRUE

X == LimbsToNat(x)
Y == LimbsToNat(y)
M == LimbsToNat(m)

\* Wrong: the modulus is taken to be in range.
TrustedModulus == op \in Checked => IsCanonical(x) /\ IsCanonical(y)
\* maybe_enforce_limb_range on every operand of a checked operation.
InputsOk ==
    op \in Checked => IsCanonical(x) /\ IsCanonical(y) /\ (op \in Modular => IsCanonical(m))

\* The bound on the limbs stays below the order of the field.
WordOk ==
    CASE op = "add" -> AddWord(word.x, word.y) < P
      [] op = "sub" -> SubWord(word.x, word.y) < P /\ AddWord(word.y, MaxWord) < P
      [] op = "mult" -> MultWord(word.x, word.y) < P
      [] OTHER -> TRUE

-----------------------------------------------------------------------------
(* Exponentiation by windows. Each multiplication is mult_mod, which leaves *)
(* (a * b) % M: OperationSound and HonestProverSucceeds of that operation.  *)

Window ==
    IF expBits < 8 THEN 1
    ELSE IF expBits < 32 THEN 2
    ELSE IF expBits < 128 THEN 3
    ELSE IF expBits < 512 THEN 4
    ELSE IF expBits < 2048 THEN 5 ELSE 6

\* enforce_fits_in_bits: what is left of the width for limb k, and the bits.
WidthOf(k) ==
    IF k < expBits \div LimbWidth THEN LimbWidth
    ELSE IF k = expBits \div LimbWidth THEN expBits % LimbWidth ELSE 0
FitsInBits == \A k \in DOMAIN y : y[k] < NatPower(2, WidthOf(k))
NumBits == IF expBits < NLimbs * LimbWidth THEN expBits ELSE NLimbs * LimbWidth
Bit(j) == (y[j \div LimbWidth] \div NatPower(2, j % LimbWidth)) % 2

\* The chunks of the exponent, least significant first; the last may be short.
LastChunk == (NumBits + Window - 1) \div Window - 1
ChunkBits(c) == {j \in (c * Window)..((c + 1) * Window - 1) : j < NumBits}
MultipliesAtAll == LastChunk > 0 \/ Window > 1

BasePowers ==
    LET power[k \in 0..(NatPower(2, Window) - 1)] ==
            IF k = 0 THEN 1 ELSE IF k = 1 THEN X ELSE (power[k - 1] * X) % M
    IN power

\* Wrong: the first bit of a chunk taken for the most significant one.
PowerByBigEndian(c) ==
    BasePowers[Total([j \in 0..(NumBits - 1) |->
                        IF j \in ChunkBits(c) THEN Bit(j) * NatPower(2, Cardinality(ChunkBits(c)) - 1 - (j - c * Window))
                        ELSE 0], NumBits)]

\* select_index: the first bit of a chunk is the least significant of the index.
SelectedPower(c) ==
    BasePowers[Total([j \in 0..(NumBits - 1) |->
                        IF j \in ChunkBits(c) THEN Bit(j) * NatPower(2, j - c * Window) ELSE 0], NumBits)]

BauerPower ==
    LET squared(a) == LET sq[j \in 0..Window] == IF j = 0 THEN a ELSE (sq[j - 1] * sq[j - 1]) % M
                      IN sq[Window]
        bauer[c \in 0..LastChunk] ==
            IF c = LastChunk THEN SelectedPower(c)
            ELSE (squared(bauer[c + 1]) * SelectedPower(c)) % M
    IN bauer[0]

\* verify_opt, for the exponent 65537 alone: squarings, then a product with the
\* signature itself.
Opening ==
    LET square[j \in 0..expBits] == IF j = 0 THEN X ELSE (square[j - 1] * square[j - 1]) % M
    IN (square[expBits] * X) % M

\* The exponent an operation on powers stands for.
Exponent == IF op = "verify_opt" THEN NatPower(2, expBits) + 1 ELSE Y

-----------------------------------------------------------------------------

\* Constraints of the operation itself that no witness can satisfy.
Impossible ==
    \/ ~InputsOk \/ ~WordOk
    \/ op = "mult_mod" /\ IsZero(m)
    \/ op \in Windowed /\ (~FitsInBits \/ (MultipliesAtAll /\ IsZero(m)))
    \/ op = "verify_opt" /\ ~(X < M)

Abandon ==
    /\ phase = "allocate" /\ Impossible
    /\ phase' = "done" /\ verdict' = "unsatisfied"
    /\ UNCHANGED <<op, x, y, m, word, expBits, result, checks, check, registers, history, honest>>

\* The first check begins and the others wait.
Enforce(res, todo, asComputed) ==
    /\ phase' = "enforce"
    /\ result' = res
    /\ checks' = Tail(todo)
    /\ Restart(Head(todo))
    /\ honest' = asComputed
    /\ UNCHANGED <<op, x, y, m, word, expBits, verdict>>

Ready(o) == phase = "allocate" /\ op = o /\ ~Impossible

Add ==
    /\ Ready("add")
    /\ \E out \in BigNats :
          Enforce(out,
                  <<EqualCheck(LimbwiseSum(x, y, NLimbs), out, EqualWord(AddWord(word.x, word.y), MaxWord))>>,
                  out = NatToLimbs(X + Y, NLimbs))

Sub ==
    /\ Ready("sub")
    /\ \E diff \in BigNats, sum \in BigNats :
          LET clamped == IF X >= Y THEN X - Y ELSE 0
          IN Enforce(diff,
                     <<EqualCheck(LimbwiseSum(y, diff, NLimbs), sum, EqualWord(AddWord(word.y, MaxWord), MaxWord)),
                       EqualCheck(x, sum, EqualWord(word.x, MaxWord))>>,
                     /\ diff = NatToLimbs(clamped, NLimbs)
                     /\ sum = NatToLimbs(Y + clamped, NLimbs))

Reduce ==
    /\ Ready("reduce")
    /\ \E out \in BigNats :
          Enforce(out, <<EqualCheck(x, out, EqualWord(word.x, MaxWord))>>, out = NatToLimbs(X, NLimbs))

\* No witness: the convolution itself, with nothing carried.
Mult ==
    /\ Ready("mult")
    /\ phase' = "done" /\ verdict' = "satisfied"
    /\ result' = Product(x, y)
    /\ UNCHANGED <<op, x, y, m, word, expBits, checks, check, registers, history, honest>>

\* x * y = m * quotient + rem with rem < m. The remainder is allocated first;
\* the quotient, of as many limbs as the operation gives it, when rem < m holds
\* (the code allocates both before either check, which no constraint can tell).
Remainder ==
    \E rem \in BigNats :
        Enforce(rem, <<LessCheck(rem, m)>>,
                IF M = 0 THEN IsZero(rem) ELSE rem = NatToLimbs((X * Y) % M, NLimbs))

\* Wrong: the quotient of two full operands may need twice the limbs.
ShortQuotient == NLimbs
QuotientLimbs == IF op = "mult_mod" THEN 2 * NLimbs ELSE NLimbs
ModProduct == IF op = "square_mod_unchecked" THEN Square(x) ELSE Product(x, y)

Quotient ==
    /\ phase = "enforce" /\ verdict = "running"
    /\ op \in Modular /\ check.kind = "less" /\ Enforced
    /\ \E quotient \in [0..(QuotientLimbs - 1) -> Limb] :
        LET mq == Product(m, quotient)
            len == IF Size(ModProduct) < Size(mq) THEN Size(mq) ELSE Size(ModProduct)
        IN /\ Restart(EqualCheck(Resized(ModProduct, len), LimbwiseSum(mq, result, len),
                                 ModWord(word.x, word.y, word.m)))
           /\ honest' = (honest /\ quotient = FitNatToLimbs((X * Y) \div M, QuotientLimbs))
    /\ UNCHANGED <<op, x, y, m, word, expBits, result, checks, phase, verdict>>

MultModChecked == Ready("mult_mod") /\ Remainder
MultModUnchecked == Ready("mult_mod_unchecked") /\ Remainder
SquareMod == Ready("square_mod_unchecked") /\ Remainder

\* The constraints of the multiplications are left to MultModChecked.
PowMod ==
    /\ Ready("pow_mod") \/ Ready("pow_mod_unchecked")
    /\ phase' = "done" /\ verdict' = "satisfied"
    /\ result' = NatToLimbs(BauerPower, NLimbs)
    /\ UNCHANGED <<op, x, y, m, word, expBits, checks, check, registers, history, honest>>

\* Likewise, to SquareMod and MultModUnchecked.
OpenSignature ==
    /\ Ready("verify_opt")
    /\ phase' = "done" /\ verdict' = "satisfied"
    /\ result' = NatToLimbs(Opening, NLimbs)
    /\ UNCHANGED <<op, x, y, m, word, expBits, checks, check, registers, history, honest>>

Allocate ==
    \/ Abandon \/ Add \/ Sub \/ Reduce \/ Mult \/ MultModChecked \/ MultModUnchecked \/ SquareMod
    \/ PowMod \/ OpenSignature

-----------------------------------------------------------------------------

Loop ==
    /\ phase = "enforce"
    /\ ChainStep
    /\ phase' = IF verdict' = "unsatisfied" THEN "done" ELSE phase
    /\ UNCHANGED <<op, x, y, m, word, expBits, result, checks>>

NextCheck ==
    /\ phase = "enforce" /\ verdict = "running" /\ Enforced /\ checks # <<>>
    /\ Restart(Head(checks))
    /\ checks' = Tail(checks)
    /\ UNCHANGED <<op, x, y, m, word, expBits, result, phase, verdict, honest>>

Satisfied ==
    /\ phase = "enforce" /\ verdict = "running" /\ Enforced /\ checks = <<>>
    /\ op \in Modular => check.kind = "equal"
    /\ phase' = "done" /\ verdict' = "satisfied"
    /\ UNCHANGED <<op, x, y, m, word, expBits, result, checks, check, registers, history, honest>>

Next == Allocate \/ Loop \/ NextCheck \/ Quotient \/ Satisfied

Spec == Init /\ [][Next]_vars

-----------------------------------------------------------------------------

\* A loop that ran to its end with its constraints satisfied compares the
\* numbers its limbs stand for, whatever witnesses the prover chose: the
\* argument behind enforce_lt_strict_borrow_chain and the grouped carries.
ChainsCompareNumbers ==
    IsLegal(check) /\ Enforced =>
        IF check.kind = "less" THEN sumLeft < sumRight ELSE sumLeft = sumRight

\* Every check an operation raises keeps the loops below the order of the
\* field: the bounds the operations propagate (word_size) are large enough,
\* also those RSA allocates its key and signature with.
ChecksStayInField ==
    phase = "enforce" => IsLegal(check) /\ \A k \in DOMAIN checks : IsLegal(checks[k])

\* Whatever the witnesses, an operation whose constraints are satisfied has
\* computed the number it is named for.
PowerSound ==
    LET power[k \in 0..Exponent] == IF k = 0 THEN 1 % M ELSE (power[k - 1] * X) % M
    IN M > 0 =>
        /\ LimbsToNat(result) % M = power[Exponent]
        /\ LastChunk > 0 \/ op = "verify_opt" => LimbsToNat(result) < M
OperationSound ==
    verdict = "satisfied" =>
        CASE op = "add" -> LimbsToNat(result) = X + Y
          [] op = "sub" -> LimbsToNat(result) = X - Y
          [] op = "reduce" -> LimbsToNat(result) = X
          [] op = "mult" -> LimbsToNat(result) = X * Y
          [] op \in Powers -> PowerSound
          [] OTHER -> LimbsToNat(result) = (X * Y) % M

\* The operands are what an operation is meant for.
InRange ==
    /\ InputsOk
    /\ op = "add" => X + Y < NatPower(Base, NLimbs)
    /\ op = "sub" => Y <= X
    /\ op \in Modular => M > 0
    /\ op \in Windowed => expBits >= NLimbs * LimbWidth \/ Y < NatPower(2, expBits)
    /\ op = "verify_opt" => X < M

\* The code's subtraction of unsigned numbers goes below zero, and panics.
Underflows == check.kind = "equal" /\ i < Length /\ ~HonestCarryExists

\* The bounds an operation was given keep the subtraction above zero: the
\* modulus's covers its limbs, or only the modulus's may not (the quotient is
\* below the modulus, so not all its limbs are full).
Covers(w, l) == \A k \in DOMAIN l : l[k] <= w
WordCovers == Covers(word.m, m) \/ (word.x = MaxWord /\ word.y = MaxWord)

\* The witnesses the code computes satisfy every constraint of an operation on
\* operands it is meant for, and are refused only where the code panics; and that
\* happens only under a modulus whose word_size does not cover its limbs, as RSA
\* allocates its keys: it is verify_opt's first squaring and its last product,
\* which takes in the signature, that are exposed, never the squarings between.
HonestProverSucceeds ==
    InRange /\ honest =>
        /\ verdict = "unsatisfied" => Underflows
        /\ Underflows => ~WordCovers

\* word_size bounds the limbs, so the carry witness has no subtraction below zero.
CarriesNeverUnderflow == InRange /\ honest => ~Underflows
=============================================================================
