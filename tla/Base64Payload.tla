---------------------------- MODULE Base64Payload ---------------------------
(***************************************************************************)
(* URL-safe base64 without padding (gadget/src/base64): the host turns a   *)
(* payload into the index of every character, the circuit looks each index *)
(* up and joins their bits. A character is its ASCII code; the six bits of *)
(* an index are written as the number they are.                            *)
(***************************************************************************)
EXTENDS Integers, Sequences

\* get_base64_table
Base64Table ==
    [i \in 0..63 |-> IF i < 26 THEN 65 + i ELSE IF i < 52 THEN 97 + i - 26
                     ELSE IF i < 62 THEN 48 + i - 52 ELSE IF i = 62 THEN 45 ELSE 95]

\* decode_char, by its ranges.
DecodeCharOk(c) == c \in 65..90 \cup 97..122 \cup 48..57 \cup {45, 95}
DecodeChar(c) ==
    IF c \in 65..90 THEN c - 65
    ELSE IF c \in 97..122 THEN c - 97 + 26
    ELSE IF c \in 48..57 THEN c - 48 + 52
    ELSE IF c = 45 THEN 62 ELSE 63

\* from_base64_url: padded with the index of 'A'.
IndexBitsOk(input, paddedLen) ==
    Len(input) <= paddedLen /\ \A i \in DOMAIN input : DecodeCharOk(input[i])
IndexBits(input, paddedLen) ==
    [i \in 1..paddedLen |-> IF i <= Len(input) THEN DecodeChar(input[i]) ELSE 0]

\* Four indices make three bytes, bit by bit from the first.
JoinBits(indices) ==
    [k \in 1..(3 * (Len(indices) \div 4)) |->
        LET g == 4 * ((k - 1) \div 3)
        IN CASE k % 3 = 1 -> indices[g + 1] * 4 + indices[g + 2] \div 16
             [] k % 3 = 2 -> (indices[g + 2] % 16) * 16 + indices[g + 3] \div 4
             [] OTHER -> (indices[g + 3] % 4) * 64 + indices[g + 4]]

\* decode: a null is read as 'A', and every character is its index's.
Normalized(c) == IF c = 0 THEN 65 ELSE c
DecodeOk(asciis, indices) ==
    /\ Len(asciis) = Len(indices) /\ Len(asciis) % 4 = 0
    /\ \A i \in DOMAIN asciis : indices[i] \in 0..63 /\ Base64Table[indices[i]] = Normalized(asciis[i])
=============================================================================
