------------------------------- MODULE Sha256 -------------------------------
(***************************************************************************)
(* SHA-256 around its compression function (gadget/src/hashes/sha256):     *)
(* the padding the host writes, the padding the circuit accepts, and the   *)
(* chain of blocks. A hash state is the sequence of the blocks compressed  *)
(* into it, as if the compression function had no collisions; the          *)
(* function itself is in Sha256Rounds. Bytes are numbers, and data[k] of   *)
(* the code is data[k + 1] here.                                           *)
(***************************************************************************)
EXTENDS Integers, Sequences

BlockSize == 64
Marker == 128                   \* SHA256_PAD_MARKER
MaxU16 == 65535                 \* u16::MAX
U16 == 0..MaxU16
Byte == 0..255

H == <<>>
UpdateState(state, block) == Append(state, block)

Zeros(n) == [k \in 1..n |-> 0]
Blocks(data) == [b \in 1..(Len(data) \div 64) |-> SubSeq(data, 64 * (b - 1) + 1, 64 * b)]

-----------------------------------------------------------------------------
(* The host (utils.rs).                                                    *)

\* u64::to_be_bytes of a length in bits, below 2^24.
LengthBytes(bits) ==
    <<0, 0, 0, 0, 0, (bits \div 65536) % 256, (bits \div 256) % 256, bits % 256>>

ZeroPadLen(len) == (64 - ((len + 1 + 8) % 64)) % 64
Sha256PadWithLen(input, len) ==
    input \o <<Marker>> \o Zeros(ZeroPadLen(Len(input))) \o LengthBytes(8 * len)

Stretch(buffer, len) == IF Len(buffer) < len THEN buffer \o Zeros(len - Len(buffer)) ELSE buffer
Sha256BlockLen(len) == (len + 1 + 8 + 63) \div 64

\* Sha256::digest of the sha2 crate.
Digest(message) == Blocks(Sha256PadWithLen(message, Len(message)))

\* finalize_with_state: update_with_state takes one block, and panics at more.
FinalizesInOneBlock(data) == Len(Sha256PadWithLen(data, 0)) = 64
FinalizeWithState(state, data, len) == UpdateState(state, Sha256PadWithLen(data, len))

\* Vec::resize, which also cuts off.
Resize(buffer, len) == SubSeq(Stretch(buffer, len), 1, len)

\* sha_pad_signing_input pads on its own: zeros until 56 bytes of a block are full.
ZerosUntilLength(len) == CHOOSE z \in 0..63 : (len + 1 + z) % 64 = 56
SigningInput(message, bufferLen) ==
    LET len == Len(message)
        padded == message \o <<Marker>> \o Zeros(ZerosUntilLength(len)) \o LengthBytes(8 * len)
    IN [data |-> Resize(padded, bufferLen), last |-> Len(padded) \div 64 - 1,
        total |-> len, pad |-> len]

-----------------------------------------------------------------------------
(* The circuit: enforce_sha2_pad_verifier and its twin for whole messages. *)
(* last is nblocks_idx, the index of the block the padding ends in.        *)

MaxBlocks(data) == Len(data) \div 64
LengthField(data, last) == [j \in 1..8 |-> data[64 * last + 56 + j]]

\* The eight bytes, read as one big-endian number, are 8 * total: a number
\* below 2^19 has its bytes in the last three places.
LengthEncoded(data, last, total) ==
    LET field == LengthField(data, last)
    IN /\ \A j \in 1..5 : field[j] = 0
       /\ 65536 * field[6] + 256 * field[7] + field[8] = 8 * total

InLastBlock(pad, last) == pad >= 64 * last
PositionOk(pad, last) ==
    \/ 64 * last <= pad /\ pad < 64 * last + 56
    \/ last > 0 /\ 64 * (last - 1) + 56 <= pad /\ pad < 64 * last

PaddingLen(pad, last) == 64 * last + 56 - pad
PaddingLenOk(pad, last) ==
    LET len == PaddingLen(pad, last)
    IN /\ len \in U16 /\ 0 < len /\ len < 65
       /\ (len < 57) <=> InLastBlock(pad, last)

\* slice_efficient by what it returns (ClaimGadgets has how).
SliceOk(data, index, length) ==
    /\ index <= Len(data) - 1 /\ length \in 1..64
    /\ index + length <= Len(data)
PadRegion(data, pad, length) == [k \in 1..64 |-> IF k <= length THEN data[pad + k] ELSE 0]

\* Wrong: the zeros are checked from the third byte on.
LooseRegionOk(data, pad, length) ==
    /\ SliceOk(data, pad, length)
    /\ PadRegion(data, pad, length)[1] = Marker
    /\ \A k \in 3..64 : PadRegion(data, pad, length)[k] = 0
PadRegionOk(data, pad, length) ==
    /\ SliceOk(data, pad, length)
    /\ PadRegion(data, pad, length)[1] = Marker
    /\ \A k \in 2..64 : PadRegion(data, pad, length)[k] = 0

TrailingZeros(data, last) == \A k \in 1..Len(data) : k > 64 * (last + 1) => data[k] = 0

PaddingOk(data, last, total, pad) ==
    /\ Len(data) % 64 = 0
    /\ last \in 0..(MaxBlocks(data) - 1)
    /\ LengthEncoded(data, last, total)
    /\ PositionOk(pad, last)
    /\ PaddingLenOk(pad, last)
    /\ PadRegionOk(data, pad, PaddingLen(pad, last))
    /\ TrailingZeros(data, last)

PadVerifierOk(data, last, prefix, total, pad) ==
    PaddingOk(data, last, total, pad) /\ 64 * prefix + pad = total
PadVerifierFullOk(data, last, total, pad) ==
    PaddingOk(data, last, total, pad) /\ pad = total

\* digest_with_pad: the state after block `last`, and no other.
DigestWithPadOk(data, last) == last \in 0..(MaxBlocks(data) - 1)
DigestWithPad(state, data, last) == state \o SubSeq(Blocks(data), 1, last + 1)
=============================================================================
