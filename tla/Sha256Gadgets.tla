---------------------------- MODULE Sha256Gadgets ---------------------------
(***************************************************************************)
(* SHA256Gadget: bytes go in by chunks of any length, and a digest comes   *)
(* out by finalize, which pads, or by one of the two functions that take a *)
(* buffer padded by somebody else and check its padding. A gadget starts   *)
(* from H or from a midstate it is allocated with.                         *)
(***************************************************************************)
EXTENDS Sha256

CONSTANTS
    Text,           \* the bytes that updates are cut from, in order
    ChunkLens,      \* how many of them one update gets
    Buffers,        \* the padded buffers: records data, last, prefix, total, pad
    Midstates       \* the lengths of the prefixes a gadget may be allocated after

ASSUME ShaTextAssumption == Text \in Seq(Byte) /\ ChunkLens \subseteq Nat
ASSUME ShaMidstatesAssumption == \A m \in Midstates : m \in Nat /\ 64 * m <= Len(Text)
\* The lengths are UInt16 variables, the buffers whole blocks (both asserted).
ASSUME ShaBuffersAssumption ==
    \A b \in Buffers :
        /\ b.data \in Seq(Byte) /\ Len(b.data) % 64 = 0 /\ Len(b.data) \in U16
        /\ b.last \in U16 /\ b.prefix \in U16 /\ b.total \in U16 /\ b.pad \in U16

VARIABLES
    sha,            \* SHA256Gadget: state, completed, pending, numPending
    shaIn,          \* history: the bytes hashed so far
    shaOut,         \* the digest, <<>> before there is one
    shaCall,        \* what produced or refused it
    shaArgs,        \* the buffer and witnesses of that call
    shaSeed         \* history: the blocks hashed before the gadget was allocated

shaVars == <<sha, shaIn, shaOut, shaCall, shaArgs, shaSeed>>

None == [data |-> <<>>, last |-> 0, prefix |-> 0, total |-> 0, pad |-> 0]

\* Default, and new_variable of a midstate, which counts no block.
NewGadget(state) == [state |-> state, completed |-> 0, pending |-> Zeros(64), numPending |-> 0]

ShaIdle ==
    /\ sha = NewGadget(H) /\ shaIn = <<>> /\ shaOut = H /\ shaCall = "idle" /\ shaArgs = None
    /\ shaSeed = 0

ShaInit ==
    /\ shaSeed \in Midstates
    /\ shaIn = SubSeq(Text, 1, 64 * shaSeed)
    /\ sha = NewGadget(Blocks(shaIn))
    /\ shaOut = H /\ shaCall = "none" /\ shaArgs = None

-----------------------------------------------------------------------------
(* update                                                                  *)

Overwrite(buffer, at, bytes) ==
    [k \in 1..64 |-> IF k - at \in 1..Len(bytes) THEN bytes[k - at] ELSE buffer[k]]

\* The pending bytes and the first of the data make a block.
FlushPending(g, taken) ==
    LET block == Overwrite(g.pending, g.numPending, taken)
    IN [state |-> UpdateState(g.state, block), completed |-> g.completed + 1,
        pending |-> block, numPending |-> 0]

\* Whole blocks are compressed, what is left of them waits.
TakeChunks(g, data) ==
    LET whole == Len(data) \div 64
        left == SubSeq(data, 64 * whole + 1, Len(data))
    IN [state |-> g.state \o Blocks(data), completed |-> g.completed + whole,
        pending |-> Overwrite(g.pending, g.numPending, left),
        numPending |-> g.numPending + Len(left)]

Update(g, data) ==
    IF g.numPending > 0 /\ g.numPending + Len(data) >= 64
    THEN LET offset == 64 - g.numPending
         IN TakeChunks(FlushPending(g, SubSeq(data, 1, offset)), SubSeq(data, offset + 1, Len(data)))
    ELSE TakeChunks(g, data)

\* Wrong: 56 pending bytes leave no room for the marker and the length.
PaddingOffsetAt56(g) == IF g.numPending <= 56 THEN 56 - g.numPending ELSE 120 - g.numPending
PaddingOffset(g) == IF g.numPending < 56 THEN 56 - g.numPending ELSE 120 - g.numPending

\* The padding is built in a buffer of 72 bytes, the length over the marker last.
Padding(g) ==
    LET offset == PaddingOffset(g)
        bits == 512 * g.completed + 8 * g.numPending
    IN [k \in 1..(offset + 8) |-> IF k > offset THEN LengthBytes(bits)[k - offset]
                                  ELSE IF k = 1 THEN Marker ELSE 0]

-----------------------------------------------------------------------------

ShaUpdate ==
    /\ shaCall = "none"
    /\ \E n \in ChunkLens :
        LET chunk == SubSeq(Text, Len(shaIn) + 1, Len(shaIn) + n)
        IN /\ Len(shaIn) + n <= Len(Text)
           /\ sha' = Update(sha, chunk)
           /\ shaIn' = shaIn \o chunk
    /\ UNCHANGED <<shaOut, shaCall, shaArgs, shaSeed>>

ShaFinalize ==
    /\ shaCall = "none"
    /\ shaCall' = "finalize"
    /\ sha' = Update(sha, Padding(sha))
    /\ shaOut' = sha'.state
    /\ UNCHANGED <<shaIn, shaArgs, shaSeed>>

\* The host's way to the same digest, from the state after the whole blocks.
ShaFinalizeNative ==
    /\ shaCall = "none"
    /\ LET rest == SubSeq(sha.pending, 1, sha.numPending)
       IN IF FinalizesInOneBlock(rest)
          THEN /\ shaCall' = "native"
               /\ shaOut' = FinalizeWithState(sha.state, rest, Len(shaIn))
          ELSE shaCall' = "panic" /\ UNCHANGED shaOut
    /\ UNCHANGED <<sha, shaIn, shaArgs, shaSeed>>

\* digest_with_pad_checked: after the updates the gadget has had.
DigestSuffix(args) ==
    /\ shaArgs' = args
    /\ IF PadVerifierOk(args.data, args.last, args.prefix, args.total, args.pad)
          /\ DigestWithPadOk(args.data, args.last)
       THEN /\ shaCall' = "suffix"
            /\ shaOut' = DigestWithPad(sha.state, args.data, args.last)
            /\ sha' = [sha EXCEPT !.state = @ \o Blocks(args.data)]
       ELSE shaCall' = "refused" /\ UNCHANGED <<sha, shaOut>>

\* digest_full_with_pad_checked: a gadget of its own, from H.
DigestFull(args) ==
    /\ shaArgs' = args
    /\ IF PadVerifierFullOk(args.data, args.last, args.total, args.pad)
          /\ DigestWithPadOk(args.data, args.last)
       THEN /\ shaCall' = "full"
            /\ shaOut' = DigestWithPad(H, args.data, args.last)
       ELSE shaCall' = "refused" /\ UNCHANGED shaOut
    /\ UNCHANGED sha

ShaDigest ==
    /\ shaCall = "none"
    /\ sha.numPending = 0      \* the prefix is whole blocks, updated or in the midstate
    /\ \E args \in Buffers :
        \/ DigestSuffix(args)
        \/ args.prefix = 0 /\ sha = NewGadget(H) /\ DigestFull(args)
    /\ UNCHANGED <<shaIn, shaSeed>>

ShaNext == ShaUpdate \/ ShaFinalize \/ ShaFinalizeNative \/ ShaDigest

ShaSpec == ShaInit /\ [][ShaNext]_shaVars

-----------------------------------------------------------------------------

\* The message an accepted buffer holds.
Held == SubSeq(shaArgs.data, 1, shaArgs.pad)

\* Every digest is the one the host computes: of the bytes fed, however they
\* were cut into chunks, or of those the buffer holds before its padding
\* (after the blocks hashed already, if prefix_blocks counts them). A gadget
\* allocated with a midstate does not know its length: finalize is not for it.
DigestIsOfTheMessage ==
    /\ shaCall = "finalize" /\ shaSeed = 0 => shaOut = Digest(shaIn)
    /\ shaCall = "native" => shaOut = Digest(shaIn)
    /\ shaCall = "panic" => sha.numPending >= 56
    /\ shaCall = "full" => shaOut = Digest(Held)
    /\ shaCall = "suffix" /\ 64 * shaArgs.prefix = Len(shaIn) => shaOut = Digest(shaIn \o Held)

\* The verifier accepts a buffer exactly when it is what the host's padding of
\* the message in it fills the slot with, and the witnesses are the host's:
\* nothing but zeros outside, no second reading of the length or the marker.
HostPadding(args) ==
    /\ args.pad <= Len(args.data)
    /\ args.total = 64 * args.prefix + args.pad
    /\ args.last = Sha256BlockLen(args.pad) - 1
    /\ args.data = Stretch(Sha256PadWithLen(SubSeq(args.data, 1, args.pad), args.total), Len(args.data))
PadVerifierExact ==
    /\ shaCall \in {"suffix", "full"} => HostPadding(shaArgs)
    /\ shaCall = "refused" => ~HostPadding(shaArgs)
=============================================================================
