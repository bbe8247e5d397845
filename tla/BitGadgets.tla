----------------------------- MODULE BitGadgets -----------------------------
(***************************************************************************)
(* The smaller gadgets of ark-r1cs-helpers, over bits and bytes in a prime *)
(* field: comparisons (comparison.rs), selection by index bits (select.rs),*)
(* packing of bytes (packing.rs) and segments (slice.rs). One call of one  *)
(* gadget is a step; a prover may choose any witness bits.                 *)
(***************************************************************************)
EXTENDS PrimeField, Sequences

CONSTANTS
    ByteBits,       \* 8
    NumBitsTried,   \* the lengths of the bit vectors
    Entries         \* field elements packed or selected

\* A byte fits in a field element.
ASSUME ByteAssumption == ByteBits \in Nat \ {0} /\ NatPower(2, ByteBits) <= P

\* The gadgets' callers compare numbers below half the range of the field, as
\* comparison.rs asks of them.
ASSUME NumBitsAssumption == \A n \in NumBitsTried : n \in Nat /\ NatPower(2, n + 1) <= P

ASSUME EntriesAssumption == Entries \subseteq Nat

VARIABLES
    gate,           \* the gadget called
    gateIn,         \* its arguments
    gateOk,         \* its constraints have a solution
    gateOut         \* its value then

gateVars == <<gate, gateIn, gateOk, gateOut>>

Compares == {"is_less_than", "is_less_or_equal", "is_greater_or_equal",
             "enforce_less_than", "enforce_less_or_equal"}
Selects == {"select_array_element", "select_array_element_be", "select_power_of_two_le"}
Packs == {"pack_unchecked", "pack_checked"}

-----------------------------------------------------------------------------

BitVectors(n) == [1..n -> BOOLEAN]

\* The number little-endian bits stand for.
Num(bits) ==
    LET n[i \in 0..Len(bits)] == IF i = 0 THEN 0 ELSE n[i - 1] + (IF bits[i] THEN NatPower(2, i - 1) ELSE 0)
    IN n[Len(bits)]

\* The first n bits of a number, least significant first.
ToBits(v, n) == [i \in 1..n |-> (v \div NatPower(2, i - 1)) % 2 = 1]
Turned(s) == [i \in 1..Len(s) |-> s[Len(s) + 1 - i]]

\* A number written in big-endian digits of the given base.
BigEndian(digits, base) ==
    LET n[i \in 0..Len(digits)] == IF i = 0 THEN 0 ELSE n[i - 1] * base + digits[i]
    IN n[Len(digits)]

ModulusBits == CHOOSE k \in 1..P : NatPower(2, k - 1) <= P /\ P < NatPower(2, k)      \* MODULUS_BIT_SIZE

-----------------------------------------------------------------------------
(* comparison.rs                                                           *)

SameLength(a, b) == Len(a) = Len(b)

\* Wrong: a difference below the highest one still decides.
CompareWithoutEqual(a, b) ==
    LET upTo[i \in 1..(Len(a) + 1)] ==
            IF i = Len(a) + 1 THEN [less |-> FALSE, equal |-> TRUE]
            ELSE [less |-> upTo[i + 1].less \/ (~a[i] /\ b[i]),
                  equal |-> upTo[i + 1].equal /\ a[i] = b[i]]
    IN upTo[1]

\* compare_bits_raw: from the highest bit down, less once and for all.
CompareBitsRaw(a, b) ==
    LET upTo[i \in 1..(Len(a) + 1)] ==
            IF i = Len(a) + 1 THEN [less |-> FALSE, equal |-> TRUE]
            ELSE [less |-> upTo[i + 1].less \/ (upTo[i + 1].equal /\ ~a[i] /\ b[i]),
                  equal |-> upTo[i + 1].equal /\ a[i] = b[i]]
    IN upTo[1]

IsLessThan(a, b) == CompareBitsRaw(a, b).less
IsLessOrEqual(a, b) == CompareBitsRaw(a, b).less \/ CompareBitsRaw(a, b).equal
IsGreaterOrEqual(a, b) == ~CompareBitsRaw(a, b).less

\* Some n bits reconstruct the difference, taken in the field.
HasBits(diff, n) == \E bits \in BitVectors(n) : Num(bits) % P = diff % P
EnforceLessThanOk(a, b) == SameLength(a, b) /\ HasBits(Num(b) - Num(a) - 1, Len(a))
EnforceLessOrEqualOk(a, b) == SameLength(a, b) /\ HasBits(Num(b) - Num(a), Len(a))

Compare(a, b) ==
    /\ gateIn' = <<a, b>>
    /\ gateOk' = CASE gate = "enforce_less_than" -> EnforceLessThanOk(a, b)
                   [] gate = "enforce_less_or_equal" -> EnforceLessOrEqualOk(a, b)
                   [] OTHER -> SameLength(a, b)
    /\ gateOut' = IF ~gateOk' THEN FALSE
                  ELSE CASE gate = "is_less_than" -> IsLessThan(a, b)
                         [] gate = "is_less_or_equal" -> IsLessOrEqual(a, b)
                         [] gate = "is_greater_or_equal" -> IsGreaterOrEqual(a, b)
                         [] OTHER -> TRUE

-----------------------------------------------------------------------------
(* select.rs                                                               *)

SelectOk(input, bits) == input # <<>> /\ Len(input) = NatPower(2, Len(bits))

\* select_array_element: the last bit chooses a half, the others within it.
\* level[k][j] is the j-th element of the halves the last k bits have chosen.
SelectArrayElement(input, bits) ==
    LET n == Len(bits)
        level[k \in 0..n] ==
            IF k = 0 THEN input
            ELSE LET mid == NatPower(2, n - k)
                 IN [j \in 1..mid |-> level[k - 1][IF bits[n + 1 - k] THEN j + mid ELSE j]]
    IN level[n][1]

\* select_array_element_be: the first bit chooses.
SelectArrayElementBe(input, bits) ==
    LET n == Len(bits)
        level[k \in 0..n] ==
            IF k = 0 THEN input
            ELSE LET mid == NatPower(2, n - k)
                 IN [j \in 1..mid |-> level[k - 1][IF bits[k] THEN j + mid ELSE j]]
    IN level[n][1]

\* select_power_of_two_le: arkworks' big-endian selection on the bits turned.
SelectPowerOfTwoLe(input, bits) == SelectArrayElementBe(input, Turned(bits))

Select(input, bits) ==
    /\ gateIn' = <<input, bits>>
    /\ gateOk' = SelectOk(input, bits)
    /\ gateOut' = IF ~gateOk' THEN 0
                  ELSE CASE gate = "select_array_element" -> SelectArrayElement(input, bits)
                         [] gate = "select_array_element_be" -> SelectArrayElementBe(input, bits)
                         [] OTHER -> SelectPowerOfTwoLe(input, bits)

\* multi_mux: the same column of every row, by the one-hot vector of its index.
MultiMux(rows, column) ==
    /\ gateIn' = <<rows, column>>
    /\ gateOk' = \A r \in DOMAIN rows : column \in 0..(Len(rows[r]) - 1)
    /\ gateOut' = IF gateOk' THEN [r \in DOMAIN rows |-> rows[r][column + 1]] ELSE <<>>

-----------------------------------------------------------------------------
(* packing.rs                                                              *)

ByteBase == NatPower(2, ByteBits)
LimbBytes == (ModulusBits - 1) \div ByteBits        \* limb_width

PackBytesToField(bytes) == BigEndian(bytes, ByteBase) % P

\* pack_decompose_bytes_checked: the low bits alone give the byte back.
BytesRanged(bytes) == \A i \in DOMAIN bytes : bytes[i] % ByteBase = bytes[i]

Pack(bytes) ==
    /\ gateIn' = bytes
    /\ gateOk' = /\ Len(bytes) % LimbBytes = 0
                 /\ gate = "pack_checked" => BytesRanged(bytes)
    /\ gateOut' = IF ~gateOk' THEN <<>>
                  ELSE [c \in 1..(Len(bytes) \div LimbBytes) |->
                          PackBytesToField(SubSeq(bytes, LimbBytes * (c - 1) + 1, LimbBytes * c))]

-----------------------------------------------------------------------------
(* slice.rs: segments of a fixed width, and back.                          *)

SegmentsToNumOk(segments, width) == Len(segments) * width <= ModulusBits - 1
SegmentsToNumBe(segments, width) == BigEndian(segments, NatPower(2, width)) % P

NumToSegmentsOk(num, count, width) == num < NatPower(2, count * width)
NumToSegmentsBe(num, count, width) ==
    [i \in 1..count |-> Num(SubSeq(ToBits(num, count * width),
                                   (count - i) * width + 1, (count - i + 1) * width))]

Regroup(segments, width) ==
    /\ gateIn' = <<segments, width>>
    /\ gateOk' = /\ SegmentsToNumOk(segments, width)
                 /\ NumToSegmentsOk(SegmentsToNumBe(segments, width), Len(segments), width)
    /\ gateOut' = IF gateOk' THEN NumToSegmentsBe(SegmentsToNumBe(segments, width), Len(segments), width)
                  ELSE <<>>

-----------------------------------------------------------------------------

GateIdle == gate = "idle" /\ gateIn = <<>> /\ gateOk = FALSE /\ gateOut = FALSE

\* A gadget is picked, then called.
GateInit ==
    /\ gate \in Compares \cup Selects \cup Packs \cup {"multi_mux", "segments"}
    /\ gateIn = <<>> /\ gateOk = FALSE /\ gateOut = FALSE

Vectors(lengths) == UNION {BitVectors(n) : n \in lengths}
Tuples(S, lengths) == UNION {[1..n -> S] : n \in lengths}

GateCompare == gate \in Compares /\ \E a, b \in Vectors(NumBitsTried) : Compare(a, b)
GateSelect ==
    gate \in Selects /\ \E input \in {<<>>, <<7>>, <<7, 8, 9>>, <<7, 8, 9, 10, 11, 12, 13, 14>>},
                           bits \in Vectors(0..3) : Select(input, bits)
GateMux ==
    gate = "multi_mux" /\ \E rows \in {<< <<1, 2, 3>>, <<4, 5, 6>> >>, << <<1, 2>>, <<3>> >>},
                             column \in 0..3 : MultiMux(rows, column)
GatePack == gate \in Packs /\ \E bytes \in Tuples(Entries, 0..(LimbBytes + 1)) : Pack(bytes)
GateSegments == gate = "segments" /\ \E segments \in Tuples(Entries, 0..4), width \in 1..3 :
                    (\A i \in DOMAIN segments : segments[i] < NatPower(2, width)) /\ Regroup(segments, width)

GateNext ==
    /\ gateIn = <<>>
    /\ GateCompare \/ GateSelect \/ GateMux \/ GatePack \/ GateSegments
    /\ UNCHANGED gate

GateSpec == GateInit /\ [][GateNext]_gateVars

-----------------------------------------------------------------------------

Compared(a, b) ==
    CASE gate \in {"is_less_than", "enforce_less_than"} -> Num(a) < Num(b)
      [] gate \in {"is_less_or_equal", "enforce_less_or_equal"} -> Num(a) <= Num(b)
      [] OTHER -> Num(a) >= Num(b)

\* The limb that the bytes of one chunk spell.
Spelled(bytes, limb) == BigEndian(bytes, ByteBase) = limb

\* The gadgets mean what their names say: bit vectors of equal length compare
\* as numbers, also where the difference wraps in the field; an index picks its
\* element whichever end its bits come from; bytes that pass the range check
\* are packed without loss, and segments survive the way there and back.
EnforcingGate == gate \in {"enforce_less_than", "enforce_less_or_equal"} /\ gateIn # <<>>
GatesMeanArithmetic ==
    /\ EnforcingGate /\ SameLength(gateIn[1], gateIn[2]) => gateOk = Compared(gateIn[1], gateIn[2])
    /\ gateOk =>
        CASE gate \in {"is_less_than", "is_less_or_equal", "is_greater_or_equal"} ->
                gateOut = Compared(gateIn[1], gateIn[2])
          [] gate \in {"select_array_element", "select_power_of_two_le"} ->
                gateOut = gateIn[1][Num(gateIn[2]) + 1]
          [] gate = "select_array_element_be" -> gateOut = gateIn[1][Num(Turned(gateIn[2])) + 1]
          [] gate = "pack_checked" ->
                \A c \in DOMAIN gateOut :
                    Spelled(SubSeq(gateIn, LimbBytes * (c - 1) + 1, LimbBytes * c), gateOut[c])
          [] gate = "segments" -> gateOut = gateIn[1]
          [] OTHER -> TRUE
=============================================================================
