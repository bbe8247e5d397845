--------------------------------- MODULE Rsa --------------------------------
(***************************************************************************)
(* RSA-2048 signatures over a SHA-256 digest (gadget/src/signature/rsa).   *)
(* Nobody can make a signature without the key: it is a record of the key, *)
(* the encoded message it opens to, and whether its integer is below the   *)
(* modulus. The arithmetic behind "opens to" is BigNatOps'. A byte that    *)
(* depends on a digest is the pair of its place in the digest and the      *)
(* digest, any other byte is paired with <<>>.                             *)
(***************************************************************************)
EXTENDS Integers, Sequences

DefaultExponent == 65537        \* RSA_DEFAULT_EXPONENT

Constants(bytes) == [k \in 1..Len(bytes) |-> <<bytes[k], <<>> >>]
Repeated(byte, n) == [k \in 1..n |-> <<byte, <<>> >>]
Reverse256(bytes) == [k \in 1..Len(bytes) |-> bytes[Len(bytes) + 1 - k]]

\* DigestVar: 32 bytes, the most significant first.
DigestBytes(digest) == [k \in 1..32 |-> <<k, digest>>]

\* EMSA-PKCS1-v1_5 of RFC 8017, which the rsa crate signs: 256 bytes, the most
\* significant first, with the DigestInfo of SHA-256.
EncodedMessage(digest) ==
    Constants(<<0, 1>>) \o Repeated(255, 202) \o Constants(<<0>>)
    \o Constants(<<48, 49, 48, 13, 6, 9, 96, 134, 72, 1, 101, 3, 4, 2, 1, 5, 0, 4, 32>>)
    \o DigestBytes(digest)

Sign(key, digest) == [key |-> key, opens |-> EncodedMessage(digest), reduced |-> TRUE]

\* The same residue with the modulus added to it.
Unreduced(sig) == [sig EXCEPT !.reduced = FALSE]

-----------------------------------------------------------------------------
(* constraints.rs                                                          *)

\* output_with_prefix: least significant byte first.
OutputWithPrefix(hashed) ==
    hashed
    \o Constants(<<32, 4, 0, 5, 1, 2, 4, 3>>)
    \o Constants(<<101, 1, 72, 134, 96, 9, 6, 13>>)
    \o Constants(<<48, 49, 48, 0, 255, 255, 255, 255>>)
    \o Repeated(255, 24 * 8)
    \o Constants(<<255, 255, 255, 255, 255, 255, 1, 0>>)

\* sig^65537 mod n in little-endian bytes; with another key, some number.
OpenedBytes(sig, pk) == IF sig.key = pk.key THEN Reverse256(sig.opens) ELSE Repeated(0, 256)

\* Wrong: the digest goes in as the hash gadget returns it.
VerifyWithoutReverse(digest, sig, pk) ==
    /\ sig.reduced
    /\ OpenedBytes(sig, pk) = OutputWithPrefix(DigestBytes(digest))

\* verify_opt.
VerifyOk(digest, sig, pk) ==
    /\ sig.reduced
    /\ OpenedBytes(sig, pk) = OutputWithPrefix(Reverse256(DigestBytes(digest)))

\* zkap.rs fixes the exponent before.
ExponentOk(pk) == pk.e = DefaultExponent

-----------------------------------------------------------------------------
(* mod.rs: verify of the host accepts what the key has signed.             *)

HostVerify(digest, sig, pk) == sig = Sign(pk.key, digest)
=============================================================================
