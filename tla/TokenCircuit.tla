---------------------------- MODULE TokenCircuit ----------------------------
(***************************************************************************)
(* One token on its way through the circuit's phases (circuit/src/zkap.rs) *)
(* over its bytes: digest, signature, payload boundaries, decoding, the    *)
(* five claims, the issuer's leaf and the public inputs. The witness comes *)
(* from the host (build_jwt_stage and after), or from anybody: then every  *)
(* phase is given any piece of witness that its constraints let through.   *)
(*                                                                         *)
(* The header is made of one character. A claim of the issuer's is four    *)
(* bytes: a number for the quoted name and the colon, a value of one byte, *)
(* what closes it and a comma; any bytes may follow the five (JwtClaims    *)
(* has longer claims). A field element is tagged with what it is, so equal *)
(* hashes have equal inputs.                                               *)
(***************************************************************************)
EXTENDS Sha256, Rsa, Base64Payload, NatPowers, FiniteSets

CONSTANTS
    Tokens,         \* what may be put before the circuit
    TokenRequests,  \* what callers ask the host to prove
    BufferLen,      \* max_jwt_b64_len
    MaxPayload,     \* max_payload_b64_len, a multiple of 4
    MaxClaim,       \* max_aud_len and the others
    Leaves          \* the issuers' tree: <<iss, key>> by leaf index

VARIABLES
    tokBy,          \* whose witness it is: "host", "anybody" or "nobody"
    tokStage,       \* the phase reached
    tokReq,         \* the request of the host's caller
    tokWit,         \* the witness, piece by piece
    tokSeen,        \* what the circuit has computed of it
    tokPub          \* the public inputs

tokVars == <<tokBy, tokStage, tokReq, tokWit, tokSeen, tokPub>>

Empty == [x \in {} |-> 0]

-----------------------------------------------------------------------------
(* Poseidon, field elements and the token's text.                          *)

Number(v) == <<"number", v>>
Packed(bytes) == <<"packed", bytes>>
Poseidon(inputs) == <<"poseidon", inputs>>

ClaimNames == <<"aud", "exp", "iss", "nonce", "sub">>    \* the circuit's order
IdOf(name) == CHOOSE j \in 1..5 : ClaimNames[j] = name
NonceValue(run, random) == 16 * run + random             \* stands for the hash of the pair
NonceField(v) == Poseidon(<<Number(v \div 16), Number(v % 16)>>)

DotChar == 46
QuoteChar == 34
WhiteSpace == {9, 10, 13, 32}
Terminators == {44, 125}

ValueIn(t, j) ==
    CASE j = 1 -> t.aud [] j = 2 -> t.exp [] j = 3 -> t.iss
      [] j = 4 -> NonceValue(t.run, t.random) [] OTHER -> t.sub

\* exp is a number, with a blank behind it; the others are in quotes.
AfterValue(j) == IF j = 2 THEN 32 ELSE QuoteChar
ClaimByte(t, j, m) ==
    IF m = 1 THEN j ELSE IF m = 2 THEN ValueIn(t, j) ELSE IF m = 3 THEN AfterValue(j) ELSE 44
TextOf(t) ==
    [k \in 1..(20 + Len(t.rest)) |->
        IF k <= 20 THEN ClaimByte(t, ((k - 1) \div 4) + 1, ((k - 1) % 4) + 1) ELSE t.rest[k - 20]]

\* base64url without padding: the c-th character of a text's encoding.
ByteAt(text, i) == IF i <= Len(text) THEN text[i] ELSE 0
SixBits(text, c) ==
    LET b == 3 * ((c - 1) \div 4)
    IN IF c % 4 = 1 THEN ByteAt(text, b + 1) \div 4
       ELSE IF c % 4 = 2 THEN (ByteAt(text, b + 1) % 4) * 16 + ByteAt(text, b + 2) \div 16
       ELSE IF c % 4 = 3 THEN (ByteAt(text, b + 2) % 16) * 4 + ByteAt(text, b + 3) \div 64
       ELSE ByteAt(text, b + 3) % 64
Encoded(text) == [c \in 1..((4 * Len(text) + 2) \div 3) |-> Base64Table[SixBits(text, c)]]

Payload(t) == Encoded(TextOf(t))
Message(t) == [k \in 1..t.header |-> 104] \o <<DotChar>> \o Payload(t)

\* The signature a token comes with (of another message, if its key has not
\* signed it), and all there are.
SignatureOf(t) == Sign(t.key, Digest(IF t.signed THEN Message(t) ELSE <<>>))
Signatures == {SignatureOf(t) : t \in Tokens}

\* A value is a byte here, and so is the nonce: none that separates members, nor
\* one that stands for a name.
IsClaims(t) ==
    /\ t.run \in 0..15 /\ t.random \in 0..15
    /\ \A j \in 1..5 : ValueIn(t, j) \in Byte \ (1..5 \cup WhiteSpace \cup Terminators)

\* Sizes as CircuitConfig::validate has them; a length field of three bytes.
ASSUME TokenSizesAssumption ==
    /\ BufferLen \in U16 /\ BufferLen % 64 = 0 /\ MaxPayload \in Nat /\ MaxPayload % 4 = 0
    /\ MaxClaim \in Nat /\ MaxClaim >= 4
ASSUME TokensAssumption ==
    \A t \in Tokens :
        /\ IsClaims(t) /\ t.rest \in Seq(Byte) /\ t.signed \in BOOLEAN
        /\ t.header \in Nat /\ 8 * Len(Message(t)) < 256 * 256 * 256
ASSUME RequestsAssumption ==
    \A r \in TokenRequests :
        r.token \in Tokens /\ \A j \in 1..5 : \E i \in 1..5 : r.order[j] = ClaimNames[i]
ASSUME LeavesAssumption ==
    /\ \E h \in 0..16 : DOMAIN Leaves = 0..(NatPower(2, h) - 1)
    /\ \A i \in DOMAIN Leaves : Leaves[i] = <<Leaves[i][1], Leaves[i][2]>>

-----------------------------------------------------------------------------
(* The issuers' tree (merkletree). A leaf is hashed once more by the tree. *)

LeafOf(iss, key) == Poseidon(<<Packed(iss), <<"modulus", key>> >>)
Height == CHOOSE h \in 0..16 : NatPower(2, h) = Cardinality(DOMAIN Leaves)
Levels ==
    LET level[h \in 0..Height] ==
            IF h = 0 THEN [i \in DOMAIN Leaves |-> Poseidon(<<LeafOf(Leaves[i][1], Leaves[i][2])>>)]
            ELSE [i \in 0..(NatPower(2, Height - h) - 1) |->
                     Poseidon(<<level[h - 1][2 * i], level[h - 1][2 * i + 1]>>)]
    IN level
Root == Levels[Height][0]
SiblingOf(i) == IF i % 2 = 0 THEN i + 1 ELSE i - 1
PathOf(idx) == [h \in 1..Height |-> Levels[h - 1][SiblingOf(idx \div NatPower(2, h - 1))]]

\* verify_membership: the lowest bit of the index is the leaf's side.
RootOf(leaf, idx, path) ==
    LET at[h \in 0..Height] ==
            IF h = 0 THEN Poseidon(<<leaf>>)
            ELSE IF (idx \div NatPower(2, h - 1)) % 2 = 0 THEN Poseidon(<<at[h - 1], path[h]>>)
                 ELSE Poseidon(<<path[h], at[h - 1]>>)
    IN at[Height]

-----------------------------------------------------------------------------
(* The host's witness. A payload too long for the circuit, or a claim or a *)
(* path that is not there, is an error; the buffer is cut off in silence.  *)

PathLengthOk(r) == Len(r.path) = Height
IndexBitsFit(r) == IndexBitsOk(Payload(r.token), MaxPayload)

\* locate_claim of a configured name: where it occurs first, which is the issuer's claim.
ValueLen(j) == IF j = 2 THEN 1 ELSE 2
PlaceOf(j) == [offset |-> 4 * (j - 1), value |-> 1, len |-> ValueLen(j), claimLen |-> 4]

\* claim_value_bytes_padded takes a claim by its name, whatever the order.
OwnValue(t, j) ==
    [k \in 1..MaxClaim |-> IF k = 1 THEN ValueIn(t, j) ELSE IF k = 2 /\ j # 2 THEN QuoteChar ELSE 0]
Identity(aud, iss, sub) == Poseidon(<<Packed(aud), Packed(iss), Packed(sub)>>)
HostPublic(r) ==
    [root |-> Root,
     h_sign_user_op |-> Number(r.run),
     jwt_exp |-> Number(r.token.exp),
     partial_rhs |-> Poseidon(<<Number(r.slot), Number(r.random),
                                Identity(OwnValue(r.token, 1), OwnValue(r.token, 3), OwnValue(r.token, 5))>>),
     h_aud_list |-> Poseidon(r.audList)]

HostWitness(r) ==
    [digest |-> SigningInput(Message(r.token), BufferLen),
     rsa |-> [sig |-> SignatureOf(r.token), pk |-> [key |-> r.key, e |-> DefaultExponent]],
     boundaries |-> [offset |-> r.token.header + 1, len |-> Len(Payload(r.token))],
     claims |-> [j \in 1..5 |-> PlaceOf(IdOf(r.order[j]))],
     issuer |-> [leaf_idx |-> r.leafIdx % 65536, path |-> r.path],
     binding |-> [random |-> Number(r.random), audList |-> r.audList, current_idx |-> r.slot]]

BuildWitness ==
    /\ tokStage = "build"
    /\ IF IndexBitsFit(tokReq) /\ PathLengthOk(tokReq)
       THEN tokStage' = "digest" /\ tokWit' = HostWitness(tokReq) /\ tokPub' = HostPublic(tokReq)
       ELSE tokStage' = "error" /\ UNCHANGED <<tokWit, tokPub>>
    /\ UNCHANGED <<tokBy, tokReq, tokSeen>>

-----------------------------------------------------------------------------
(* A phase has a piece of witness, its constraints, and what it computes.  *)

Phase(piece, next, choices, Ok(_), Computed(_)) ==
    /\ tokStage = piece
    /\ \E w \in IF tokBy = "host" THEN {tokWit[piece]} ELSE choices :
          IF Ok(w) THEN /\ tokStage' = next
                        /\ tokWit' = [p \in DOMAIN tokWit \cup {piece} |->
                                         IF p = piece THEN w ELSE tokWit[p]]
                        /\ tokSeen' = Computed(w)
          ELSE tokBy = "host" /\ tokStage' = "refused" /\ UNCHANGED <<tokWit, tokSeen>>
    /\ UNCHANGED <<tokBy, tokReq, tokPub>>

\* 1.1: digest_full_with_pad_checked.
AnyPadding ==
    {[data |-> SigningInput(Message(t), BufferLen).data, last |-> l, total |-> n, pad |-> n] :
        t \in Tokens, l \in 0..(BufferLen \div 64 - 1), n \in 0..(BufferLen - 1)}
DigestPhase ==
    Phase("digest", "rsa", AnyPadding,
          LAMBDA w : PadVerifierFullOk(w.data, w.last, w.total, w.pad) /\ DigestWithPadOk(w.data, w.last),
          LAMBDA w : [digest |-> DigestWithPad(H, w.data, w.last)])

\* The exponent and the signature.
AnySignature ==
    {[sig |-> s, pk |-> [key |-> k, e |-> e]] :
        s \in Signatures \cup {Unreduced(s) : s \in Signatures},
        k \in {t.key : t \in Tokens}, e \in {3, DefaultExponent}}
RsaPhase ==
    Phase("rsa", "boundaries", AnySignature,
          LAMBDA w : ExponentOk(w.pk) /\ VerifyOk(tokSeen.digest, w.sig, w.pk),
          LAMBDA w : tokSeen)

\* 1.2: the payload begins after a dot and ends where the padding begins.
Data == tokWit.digest.data
SlicePayloadOk(w) ==
    /\ w.offset <= Len(Data) - 1 /\ w.len \in 1..MaxPayload /\ w.offset + w.len <= Len(Data)
SlicePayload(w) == [k \in 1..MaxPayload |-> IF k <= w.len THEN Data[w.offset + k] ELSE 0]

\* Wrong: any stretch that ends with the message is its payload.
BoundariesWithoutDot(w) ==
    w.offset > 0 /\ w.offset + w.len < Len(Data) /\ w.offset + w.len = tokWit.digest.pad
BoundariesOk(w) ==
    /\ w.offset > 0 /\ w.offset + w.len < Len(Data)
    /\ Data[w.offset] = DotChar
    /\ w.offset + w.len = tokWit.digest.pad

\* The table has every character once: these are the only indices that fit.
IndicesFor(asciis) == [k \in DOMAIN asciis |-> IF DecodeCharOk(Normalized(asciis[k]))
                                              THEN DecodeChar(Normalized(asciis[k])) ELSE 64]
DecodesOk(w) == DecodeOk(SlicePayload(w), IndicesFor(SlicePayload(w)))

AnyBoundaries == {[offset |-> o, len |-> l] : o \in 0..BufferLen, l \in 0..(MaxPayload + 1)}
BoundariesPhase ==
    Phase("boundaries", "claims", AnyBoundaries,
          LAMBDA w : BoundariesOk(w) /\ SlicePayloadOk(w) /\ DecodesOk(w),
          LAMBDA w : [digest |-> tokSeen.digest, payload |-> JoinBits(IndicesFor(SlicePayload(w)))])

\* claim_extractor_v2 of one name. The place is a witness: the claim begins with the
\* name and ends in a terminator, and white space is all there is between name and
\* value and, but for the byte behind the value, between that and the end.
AreWhite(bytes, first, end) == \A i \in first..(end - 1) : bytes[i] \in WhiteSpace
ExtractOk(name, w) ==
    LET bytes == tokSeen.payload
        value == w.offset + w.value
        end == w.offset + w.claimLen
    IN /\ w.claimLen \in 1..MaxClaim /\ end <= Len(bytes)
       /\ w.value \in 1..MaxClaim
       /\ w.len \in 1..MaxClaim /\ value + w.len <= Len(bytes)
       /\ bytes[w.offset + 1] = IdOf(name)
       /\ AreWhite(bytes, w.offset + 2, value + 1)
       /\ AreWhite(bytes, value + w.len + 2, end)
       /\ bytes[end] \in Terminators
Extracted(w) ==
    [k \in 1..MaxClaim |-> IF k <= w.len THEN tokSeen.payload[w.offset + w.value + k] ELSE 0]

\* jwt_exp_to_field and jwt_nonce_hex_to_field, of a number of one byte: nothing
\* behind the one, and the quote behind the other where value_len says.
ReaderOk(j, w) ==
    /\ j = 2 => \A k \in 2..MaxClaim : Extracted(w)[k] = 0
    /\ j = 4 => w.len = 2 /\ Extracted(w)[2] = QuoteChar

ClaimsOk(w) == \A j \in 1..5 : ExtractOk(ClaimNames[j], w[j]) /\ ReaderOk(j, w[j])
Places(j) ==
    {w \in [offset : 0..(Len(tokSeen.payload) - 1), value : 1..MaxClaim,
            len : 1..MaxClaim, claimLen : 1..MaxClaim] :
        ExtractOk(ClaimNames[j], w) /\ ReaderOk(j, w)}
AnyPlaces ==
    {<<a, e, i, n, s>> : a \in Places(1), e \in Places(2), i \in Places(3), n \in Places(4), s \in Places(5)}
ClaimsPhase ==
    Phase("claims", "issuer", AnyPlaces, ClaimsOk,
          LAMBDA w : [digest |-> tokSeen.digest, payload |-> tokSeen.payload,
                      claim |-> [j \in 1..5 |-> Extracted(w[j])]])

\* 2.1 and 2.2: the key is registered for the issuer the token names.
Claim(name) == tokSeen.claim[IdOf(name)]
Nodes == UNION {{Levels[h][i] : i \in DOMAIN Levels[h]} : h \in 0..Height}
AnyPath == {[leaf_idx |-> i, path |-> p] : i \in DOMAIN Leaves, p \in [1..Height -> Nodes]}
IssuerPhase ==
    Phase("issuer", "binding", AnyPath,
          LAMBDA w : RootOf(LeafOf(Claim("iss"), tokWit.rsa.pk.key), w.leaf_idx, w.path) = Root,
          LAMBDA w : tokSeen)

\* 3 and 5: the public inputs are those of the witness.
CircuitPublic(run, w) ==
    [root |-> Root,
     h_sign_user_op |-> run,
     jwt_exp |-> Number(Claim("exp")[1]),
     partial_rhs |-> Poseidon(<<Number(w.current_idx), w.random,
                                Identity(Claim("aud"), Claim("iss"), Claim("sub"))>>),
     h_aud_list |-> Poseidon(w.audList)]
BindingOk(run, w) ==
    /\ Poseidon(<<run, w.random>>) = NonceField(Claim("nonce")[1])
    /\ \E j \in DOMAIN w.audList : w.audList[j] = Poseidon(<<Packed(Claim("aud"))>>)
    /\ w.random # Number(0)

HostBinding ==
    /\ tokStage = "binding" /\ tokBy = "host"
    /\ LET w == tokWit.binding
       IN tokStage' = IF BindingOk(tokPub.h_sign_user_op, w)
                         /\ tokPub = CircuitPublic(tokPub.h_sign_user_op, w)
                      THEN "accepted" ELSE "refused"
    /\ UNCHANGED <<tokBy, tokReq, tokWit, tokSeen, tokPub>>

AnyBinding ==
    /\ tokStage = "binding" /\ tokBy = "anybody"
    /\ \E run, random \in 0..15, aud \in {Claim("aud")} \cup {OwnValue(t, 1) : t \in Tokens} :
          LET w == [random |-> Number(random), audList |-> <<Poseidon(<<Packed(aud)>>)>>, current_idx |-> 0]
          IN /\ BindingOk(Number(run), w)
             /\ tokPub' = CircuitPublic(Number(run), w)
             /\ tokWit' = [p \in DOMAIN tokWit \cup {"binding"} |->
                              IF p = "binding" THEN w ELSE tokWit[p]]
    /\ tokStage' = "accepted"
    /\ UNCHANGED <<tokBy, tokReq, tokSeen>>

-----------------------------------------------------------------------------

TokIdle ==
    /\ tokBy = "nobody" /\ tokStage = "error" /\ tokReq = Empty
    /\ tokWit = Empty /\ tokSeen = Empty /\ tokPub = Empty

TokInit ==
    /\ \/ tokBy = "host" /\ tokStage = "build" /\ tokReq \in TokenRequests
       \/ tokBy = "anybody" /\ tokStage = "digest" /\ tokReq = Empty
    /\ tokWit = Empty /\ tokSeen = Empty /\ tokPub = Empty

TokNext ==
    \/ BuildWitness \/ DigestPhase \/ RsaPhase \/ BoundariesPhase
    \/ ClaimsPhase \/ IssuerPhase \/ HostBinding \/ AnyBinding

TokSpec == TokInit /\ [][TokNext]_tokVars

-----------------------------------------------------------------------------

\* What the reader of claim j was given stands in the text behind that claim's name,
\* in a stretch that a terminator ends.
ReadIn(text, j, read) ==
    \E p, e \in DOMAIN text :
        /\ text[p] = j /\ text[e] \in Terminators /\ p < e /\ e < p + MaxClaim
        /\ \E q \in (p + 1)..e, n \in 1..MaxClaim :
              /\ AreWhite(text, p + 1, q) /\ AreWhite(text, q + n + 1, e)
              /\ read = [k \in 1..MaxClaim |-> IF k <= n THEN ByteAt(text, q + k - 1) ELSE 0]
OnlyClaim(t, j) == \A p \in DOMAIN TextOf(t) : TextOf(t)[p] = j => p = 4 * j - 3

\* Whoever made the witness, accepted public inputs come from one text that a key has
\* signed: of what the claims were read as, each stands in that text, as decoded from
\* its beginning, behind its name; the key is registered for the issuer read; expiry,
\* run, randomness, identity and audience are those read. Where a name occurs once
\* what is read begins with the issuer's value. No other stretch of signed bytes is
\* taken for a payload. (Nothing in the circuit asks for a name at the top level of the
\* text, nor where a string ends.)
AcceptedMeansSigned ==
    tokStage = "accepted" =>
        LET read == tokSeen.claim
            w == tokWit.binding
        IN \E t \in Tokens :
            /\ t.signed /\ \E i \in DOMAIN Leaves : Leaves[i] = <<read[3], t.key>>
            /\ \A j \in 1..5 :
                  ReadIn(TextOf(t), j, read[j]) /\ (OnlyClaim(t, j) => read[j][1] = ValueIn(t, j))
            /\ tokPub.jwt_exp = Number(read[2][1])
            /\ tokPub.h_sign_user_op = Number(read[4][1] \div 16)
            /\ tokPub.partial_rhs =
                   Poseidon(<<Number(w.current_idx), Number(read[4][1] % 16),
                              Identity(read[1], read[3], read[5])>>)
            /\ \E aud \in DOMAIN w.audList : w.audList[aud] = Poseidon(<<Packed(read[1])>>)

\* What the host builds for a signed token of a registered key, with the path
\* of its leaf and the claims configured in the circuit's order, satisfies the
\* circuit, wherever the padding falls: unless the signing input does not fit
\* the buffer, which the host does not notice.
Meant(r) ==
    /\ r.token.signed /\ r.key = r.token.key
    /\ r.run = r.token.run /\ r.random = r.token.random /\ r.random # 0
    /\ r.leafIdx \in DOMAIN Leaves /\ Leaves[r.leafIdx] = <<OwnValue(r.token, 3), r.key>>
    /\ r.path = PathOf(r.leafIdx)
    /\ \E j \in DOMAIN r.audList : r.audList[j] = Poseidon(<<Packed(OwnValue(r.token, 1))>>)
    /\ r.order = ClaimNames
    /\ Len(Payload(r.token)) <= MaxPayload
    /\ 64 * Sha256BlockLen(Len(Message(r.token))) <= BufferLen
HonestAccepted ==
    tokBy = "host" => /\ Meant(tokReq) => tokStage \notin {"refused", "error"}
                      /\ tokStage = "accepted" => Sha256BlockLen(Len(Message(tokReq.token))) <= BufferLen \div 64
=============================================================================
