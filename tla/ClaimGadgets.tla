---------------------------- MODULE ClaimGadgets ----------------------------
(***************************************************************************)
(* What the circuit does with a claim: slicing (ark-r1cs-helpers), the     *)
(* extractor and its seven checks (circuit/src/token), and the readers of  *)
(* exp and nonce. A gadget f has two operators: fOk, that its constraints  *)
(* have a solution, and f, the value it returns then. Arguments that the   *)
(* code passes as field elements are integers here, and a byte is a        *)
(* character.                                                              *)
(***************************************************************************)
EXTENDS Integers, Sequences, FiniteSets

CONSTANTS
    GroupLen,       \* NUMS_PER_GROUP, a power of two that fits the field
    ExpDigits,      \* 10
    HexDigits       \* 64, the most digits of a nonce

ASSUME GadgetAssumption ==
    /\ GroupLen \in {2, 4, 8, 16} /\ ExpDigits \in Nat \ {0} /\ HexDigits \in Nat \ {0}

Word == 65536       \* UInt16 wraps
Decrement(n) == (n + Word - 1) % Word
CeilDiv(n, q) == (n + q - 1) \div q
Zero == "nul"

-----------------------------------------------------------------------------
(* select.rs, comparison.rs. A one-hot vector exists for an index in range *)
(* only, and lt_bit_vector(index, n) is built from that of index - 1.      *)

MultiplexerOk(s, idx) == idx \in 0..(Len(s) - 1)
Multiplexer(s, idx) == s[idx + 1]

LtBitVectorOk(index, n) == index - 1 \in 0..(n - 1)
SliceFromStartOk(s, length, n) == n \in 1..Len(s) /\ LtBitVectorOk(length, n)
SliceFromStart(s, length, n, pad) == [i \in 1..n |-> IF i <= length THEN s[i] ELSE pad]

-----------------------------------------------------------------------------
(* slice.rs: bytes are packed into groups, whole groups are selected, and  *)
(* the answer is cut out of them by the index's remainder.                 *)

Groups(data) ==
    [g \in 1..CeilDiv(Len(data), GroupLen) |->
        [j \in 1..GroupLen |-> LET i == (g - 1) * GroupLen + j
                               IN IF i <= Len(data) THEN data[i] ELSE Zero]]

(* slice_in_binary_tree: the code compares as many bits as the input's     *)
(* padded length has, and one more. Beyond the slice it returns 'A', which *)
(* is a group whose last byte is 65.                                       *)
NextPowerOfTwo(n) ==
    LET two[e \in 0..n] == IF e = 0 THEN 1 ELSE 2 * two[e - 1]
        enough == {two[e] : e \in {d \in 0..n : n <= two[d]}}
    IN CHOOSE q \in enough : \A other \in enough : q <= other
PadGroup == [j \in 1..GroupLen |-> IF j = GroupLen THEN "A" ELSE Zero]

SliceInBinaryTree(input, offset, length, n) ==
    LET bits == 2 * NextPowerOfTwo(Len(input)) IN
    [i \in 1..n |->
        LET idx == (offset + i - 1) % bits
        IN IF (i - 1) % bits < length % bits /\ idx < Len(input)
           THEN input[idx + 1] ELSE PadGroup]

GroupsOut(max) == 1 + CeilDiv(max - 1, GroupLen)

SliceOk(data, index, length, max) ==
    /\ index <= Len(data) - 1
    /\ Decrement(length) <= max - 1
    /\ (index + length) % Word <= Len(data)
    /\ LtBitVectorOk(length, max)

Slice(data, index, length, max) ==
    LET first == index \div GroupLen
        last == Decrement(index + length) \div GroupLen
        taken == SliceInBinaryTree(Groups(data), first, last - first + 1, GroupsOut(max))
        byte(i) == taken[(i \div GroupLen) + 1][(i % GroupLen) + 1]
        turned == [i \in 1..max |-> byte(i - 1 + (index % GroupLen))]
    IN SliceFromStart(turned, length, max, Zero)

-----------------------------------------------------------------------------
(* claimverifier/format.rs. Prefix sums count the bytes that are not white *)
(* space; a range is white space when the sums at its ends agree.          *)

CircuitBlank == {"space"}       \* tab, line feed, carriage return, space
PrefixSums(claim) ==
    [k \in 1..(Len(claim) + 1) |-> Cardinality({i \in 1..(k - 1) : claim[i] \notin CircuitBlank})]

RangeUnclamped(claim, start, end) ==
    LET sums == PrefixSums(claim)
    IN /\ MultiplexerOk(sums, start + 1) /\ MultiplexerOk(sums, end)
       /\ Multiplexer(sums, start + 1) = Multiplexer(sums, end)

RangeIsWhitespace(claim, start, end) ==
    LET from == IF (start + 1) % Word <= end % Word THEN start + 1 ELSE end
        sums == PrefixSums(claim)
    IN /\ MultiplexerOk(sums, from) /\ MultiplexerOk(sums, end)
       /\ Multiplexer(sums, from) = Multiplexer(sums, end)

ClaimFormatOk(claim, nameLen, pos) ==
    LET last == pos.claim_len - 1 IN
    /\ nameLen <= pos.colon_idx
    /\ pos.colon_idx < pos.value_idx
    /\ RangeIsWhitespace(claim, nameLen - 1, pos.colon_idx)
    /\ RangeIsWhitespace(claim, pos.colon_idx, pos.value_idx)
    /\ RangeIsWhitespace(claim, pos.value_idx + pos.value_len, last)
    /\ MultiplexerOk(claim, pos.colon_idx) /\ Multiplexer(claim, pos.colon_idx) = ":"
    /\ MultiplexerOk(claim, last) /\ Multiplexer(claim, last) \in {",", "}"}

-----------------------------------------------------------------------------
(* claim_extractor_v2 over the decoded payload; name is the quoted key.    *)

AllocatesOk(pos) == \A f \in DOMAIN pos : pos[f] < Word
ValueOffset(pos) == (pos.offset + pos.value_idx) % Word

SlicesOk(bytes, pos, max) ==
    /\ AllocatesOk(pos)
    /\ SliceOk(bytes, pos.offset, pos.claim_len, max)
    /\ SliceOk(bytes, ValueOffset(pos), pos.value_len, max)
ClaimSlice(bytes, pos, max) == Slice(bytes, pos.offset, pos.claim_len, max)
ValueSlice(bytes, pos, max) == Slice(bytes, ValueOffset(pos), pos.value_len, max)

ClaimOk(name, claim, pos) ==
    /\ SliceFromStartOk(claim, Len(name), Len(name))
    /\ SliceFromStart(claim, Len(name), Len(name), "0") = name
    /\ ClaimFormatOk(claim, Len(name), pos)

-----------------------------------------------------------------------------
(* jwt_field/exp.rs and nonce.rs. "0", "1" and "f" stand for the digits.   *)

DigitValue == [c \in {"0", "1", "f"} |-> CASE c = "0" -> 0 [] c = "1" -> 1 [] OTHER -> 15]
Decimal == {"0", "1"}
Hex == DOMAIN DigitValue

(* The value of digits, read from the left in the given base. *)
NumberOf(digits, base) ==
    LET upTo[i \in 0..Len(digits)] ==
            IF i = 0 THEN 0 ELSE upTo[i - 1] * base + DigitValue[digits[i]]
    IN upTo[Len(digits)]

JwtExpOk(bytes) ==
    /\ Len(bytes) >= ExpDigits
    /\ \A i \in 1..ExpDigits : bytes[i] \in Decimal
    /\ \A i \in (ExpDigits + 1)..Len(bytes) : bytes[i] = Zero
JwtExp(bytes) == NumberOf(SubSeq(bytes, 1, ExpDigits), 10)

(* last_quote_index is value_len - 1, a witness the circuit ranges.        *)
MaxQuoteIndex(bytes) == IF Len(bytes) - 1 < HexDigits + 3 THEN Len(bytes) - 1 ELSE HexDigits + 3
JwtNonceOk(bytes, lastQuote) ==
    /\ Len(bytes) >= 5
    /\ SubSeq(bytes, 1, 3) = <<"quote", "0", "x">>
    /\ 3 < lastQuote /\ lastQuote < MaxQuoteIndex(bytes) + 1
    /\ bytes[lastQuote + 1] = "quote"
    /\ \A i \in 3..(lastQuote - 1) : bytes[i + 1] \in Hex
JwtNonce(bytes, lastQuote) == NumberOf(SubSeq(bytes, 4, lastQuote), 16)
=============================================================================
