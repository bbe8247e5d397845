---------------------------- MODULE AudienceList ----------------------------
(***************************************************************************)
(* One account's audience list and identities through the four places that *)
(* compute them: the host helpers an account is registered with            *)
(* (service/src/hash, service/src/anchor), the prover's batch-shared list, *)
(* the cross-check of the two, and the circuit's packing; all under one    *)
(* configuration that generate_setup has accepted.                         *)
(*                                                                         *)
(* A text is a sequence of bytes. Capacities of the circuit's slices are   *)
(* JwtClaims's, the anchor is AnchorProtocol's.                            *)
(***************************************************************************)
EXTENDS Integers, Sequences, SequencesExt

CONSTANTS
    PackWidth,      \* bytes of a field element, 31 for BN254
    HostConfigs,    \* what config.json may hold
    Identities,     \* the tokens' identities: [aud, iss, sub], texts without quotes
    ListSizes,      \* how many audiences an account may be registered with
    BatchSizes      \* how many credentials a request may have

VARIABLES
    audAt,          \* where the account is: not set up, registered, in a request, ...
    audConfig,      \* the configuration
    audListed,      \* the audiences it was registered with
    audBatch,       \* the identities of the request
    audStage        \* the shared list: a hash for each slot

\* Counts, and texts as sequences of bytes.
Texts == Seq(0..255)
Claims == {"aud", "iss", "sub"}     \* the claims an identity is made of
ASSUME PackAssumption == PackWidth \in Nat \ {0}
ASSUME TextsAssumption ==
    \A c \in Identities :
        /\ c = [aud |-> c.aud, iss |-> c.iss, sub |-> c.sub]
        /\ \A name \in Claims : c[name] \in Texts
ASSUME ConfigsAssumption ==
    \A c \in HostConfigs :
        /\ c.k \in Nat /\ c.limit \in Nat /\ c.forbidden \in Texts
        /\ \A name \in Claims : c.max[name] \in Nat
ASSUME SizesAssumption == ListSizes \subseteq Nat /\ BatchSizes \subseteq Nat

audVars == <<audAt, audConfig, audListed, audBatch, audStage>>

Audiences == {c.aud : c \in Identities}
Lists(set, sizes) == UNION {[1..s -> set] : s \in sizes}

AudStages == {"idle", "config", "unpublished", "published", "unregistered", "registered",
              "submitted", "derived", "shared", "checked", "proved",
              "refused", "mispacked", "drift", "overlong", "unlisted"}

-----------------------------------------------------------------------------
(* ark-codec, and the circuit's packing.                                   *)

Quote == 34
Quoted(text) == <<Quote>> \o text \o <<Quote>>

\* Wrong: the last byte is kept for a terminator.
FitsWithTerminator(text, width) == Len(text) < width
Fits(text, width) == Len(text) <= width

\* pad, and Vec::resize, which also cuts.
PaddedTo(bytes, width) == [i \in 1..width |-> IF i <= Len(bytes) THEN bytes[i] ELSE 0]

\* from_be_bytes_mod_order of chunks that are shorter than the modulus; the last chunk
\* may be short.
LimbOf(chunk) == FoldLeft(LAMBDA n, byte : 256 * n + byte, 0, chunk)
Limbs(bytes) ==
    [j \in 1..((Len(bytes) + PackWidth - 1) \div PackWidth) |->
        LimbOf(SelectSeq([i \in 1..PackWidth |->
                            IF (j - 1) * PackWidth + i <= Len(bytes)
                            THEN bytes[(j - 1) * PackWidth + i] ELSE -1],
                         LAMBDA byte : byte >= 0))]
WholeLimbs(bytes) == Len(bytes) % PackWidth = 0

\* Poseidon, injective.
Absorb(inputs) == <<"poseidon", inputs>>

-----------------------------------------------------------------------------
(* The configuration.                                                      *)

\* CircuitConfig::validate
ValidConfig(c) ==
    /\ 1 <= c.k /\ c.k <= c.n /\ c.n <= 255
    /\ 1 <= c.height /\ c.height <= 16
    /\ c.payload <= c.jwt /\ c.jwt <= 65535
    /\ c.limit >= 1 /\ c.claims >= 1
    /\ \A name \in Claims : c.max[name] % PackWidth = 0

\* What synthesis refuses, or panics on, whatever the witness: the setup's mock
\* circuit meets it as well.
KeyLength == [aud |-> 5, exp |-> 5, iss |-> 5, nonce |-> 7, sub |-> 5]    \* with its quotes
Synthesizable(c) ==
    /\ \E e \in 6..16 : c.jwt = 2^e
    /\ c.payload % 4 = 0
    /\ c.claims >= 5
    /\ \A name \in DOMAIN KeyLength : c.max[name] >= KeyLength[name]
    /\ c.max["exp"] >= 10
    /\ \A name \in Claims : c.max[name] % PackWidth = 0

GenerateSetup ==
    /\ audAt = "config"
    /\ audAt' = IF ValidConfig(audConfig) /\ Synthesizable(audConfig)
                THEN "published" ELSE "unpublished"
    /\ UNCHANGED <<audConfig, audListed, audBatch, audStage>>

-----------------------------------------------------------------------------
(* Registration: generate_audience_hashes and derive_x_from_secret.        *)

MaxAud == audConfig.max["aud"]

Filled(list) ==
    [i \in 1..audConfig.limit |-> IF i <= Len(list) THEN list[i] ELSE audConfig.forbidden]

HostAccepts(list) ==
    /\ Len(list) <= audConfig.limit
    /\ \A i \in 1..audConfig.limit : Fits(Quoted(Filled(list)[i]), MaxAud)

HostHash(text) == Absorb(Limbs(PaddedTo(Quoted(text), MaxAud)))
HostListHash(list) == Absorb([i \in 1..audConfig.limit |-> HostHash(Filled(list)[i])])

Register ==
    /\ audAt = "published"
    /\ \E list \in Lists(Audiences, ListSizes) :
         /\ audListed' = list
         /\ audAt' = IF HostAccepts(list) THEN "registered" ELSE "unregistered"
    /\ UNCHANGED <<audConfig, audBatch, audStage>>

ClaimsFit(c) ==
    \A name \in Claims : Fits(Quoted(c[name]), audConfig.max[name])
Joined(c) ==
    PaddedTo(Quoted(c.aud), MaxAud) \o PaddedTo(Quoted(c.iss), audConfig.max["iss"])
    \o PaddedTo(Quoted(c.sub), audConfig.max["sub"])
HostIdentity(c) == Absorb(Limbs(Joined(c)))

-----------------------------------------------------------------------------
(* A request.                                                              *)

To(at) == audAt' = at /\ UNCHANGED <<audConfig, audListed, audBatch, audStage>>

\* prove_request_to_decoded
SubmitBatch ==
    /\ audAt = "registered"
    /\ \E batch \in Lists(Identities, BatchSizes) : audBatch' = batch
    /\ audAt' = IF ValidConfig(audConfig) /\ Len(audBatch') = audConfig.k
                THEN "submitted" ELSE "refused"
    /\ UNCHANGED <<audConfig, audListed, audStage>>

\* parse_anchor_secret_from_jwt and derive_x_from_secret, of every credential
DeriveIdentities ==
    /\ audAt = "submitted"
    /\ IF \E i \in DOMAIN audBatch : ~ClaimsFit(audBatch[i]) THEN To("refused")
       ELSE IF \A i \in DOMAIN audBatch : WholeLimbs(Joined(audBatch[i])) THEN To("derived")
       ELSE To("mispacked")

\* claim_value_bytes_padded and pad_claim_value_to_max cut what does not fit.
ClaimBytes(text) == PaddedTo(Quoted(text), MaxAud)
ForbiddenBytes == PaddedTo(Quoted(audConfig.forbidden), MaxAud)
\* Wrong: the placeholder is not quoted.
ForbiddenHashBare == Absorb(Limbs(PaddedTo(audConfig.forbidden, MaxAud)))
ForbiddenHash == Absorb(Limbs(ForbiddenBytes))

\* per_credential_h_aud and build_shared_audience_stage
ShareAudiences ==
    /\ audAt = "derived"
    /\ \/ Len(audBatch) > audConfig.limit /\ To("refused")
       \/ /\ Len(audBatch) <= audConfig.limit
          /\ audStage' = [i \in 1..audConfig.limit |->
                            IF i <= Len(audBatch) THEN Absorb(Limbs(ClaimBytes(audBatch[i].aud)))
                            ELSE ForbiddenHash]
          /\ audAt' = IF WholeLimbs(ForbiddenBytes) THEN "shared" ELSE "mispacked"
          /\ UNCHANGED <<audConfig, audListed, audBatch>>

\* validate_shared_audience
BatchAudiences == [i \in DOMAIN audBatch |-> audBatch[i].aud]
CrossCheck ==
    /\ audAt = "shared"
    /\ IF HostAccepts(BatchAudiences)
       THEN IF Absorb(audStage) = HostListHash(BatchAudiences) THEN To("checked") ELSE To("drift")
       ELSE To("refused")

\* Phases 1, 3 and 5 of the circuit, of every credential: the extractor's slice holds the
\* whole claim, from its name's quote to the byte after the value, in a token written
\* without blanks; the claims are packed one by one; and the audience's hash is a member
\* of the committed list.
Spans(c, name) == KeyLength[name] + 1 + Len(c[name]) + 2 + 1 <= audConfig.max[name]
Overlong == \E i \in DOMAIN audBatch, name \in Claims : ~Spans(audBatch[i], name)
CircuitAudience(c) == Absorb(Limbs(ClaimBytes(c.aud)))
CircuitIdentity(c) ==
    Absorb(Limbs(ClaimBytes(c.aud)) \o Limbs(PaddedTo(Quoted(c.iss), audConfig.max["iss"]))
           \o Limbs(PaddedTo(Quoted(c.sub), audConfig.max["sub"])))
ConstrainAudience ==
    /\ audAt = "checked"
    /\ IF Overlong THEN To("overlong")
       ELSE IF \A i \in DOMAIN audBatch : \E j \in DOMAIN audStage : audStage[j] = CircuitAudience(audBatch[i])
       THEN To("proved") ELSE To("unlisted")

-----------------------------------------------------------------------------
AudIdle ==
    /\ audAt = "idle"
    /\ audConfig = CHOOSE c \in HostConfigs : TRUE
    /\ audListed = <<>> /\ audBatch = <<>> /\ audStage = <<>>
AudInit ==
    /\ audAt = "config"
    /\ audConfig \in HostConfigs
    /\ audListed = <<>> /\ audBatch = <<>> /\ audStage = <<>>
AudNext ==
    \/ GenerateSetup \/ Register \/ SubmitBatch
    \/ DeriveIdentities \/ ShareAudiences \/ CrossCheck \/ ConstrainAudience

AudSpec == AudInit /\ [][AudNext]_audVars

-----------------------------------------------------------------------------

\* The recipes never part: the cross-check finds no drift, no width is packed with a
\* rest, every credential is a member of its batch's list.
NoDrift == audAt \notin {"drift", "mispacked", "unlisted"}

\* A batch that is proved closes with the registered list exactly if the lists, filled
\* up, are the same texts: the closing quote makes the zero padding unambiguous.
ListsMeanTexts ==
    audAt = "proved" =>
        (Absorb(audStage) = HostListHash(audListed) <=> Filled(audListed) = Filled(BatchAudiences))

\* The circuit's identity is the host's: widths of whole limbs make claims packed apart
\* equal to claims packed together.
IdentitiesMeanTexts ==
    audAt = "proved" =>
        \A c \in Identities, i \in DOMAIN audBatch :
            ClaimsFit(c) => (HostIdentity(c) = CircuitIdentity(audBatch[i]) <=> c = audBatch[i])

\* The host helpers, the prover and the circuit mean the same by a list and by an
\* identity.
AudienceListsAgree == NoDrift /\ ListsMeanTexts /\ IdentitiesMeanTexts

\* Whom a bundle does not serve. The host refuses a batch of another size than k, and a
\* claim whose quoted value is longer than its capacity; what validate leaves open is a
\* batch (k) longer than the audience list, and a list that is not full and whose
\* placeholder does not fit. What the host accepts, the circuit refuses only for a claim
\* that with its name, its colon and its terminator is longer than the capacity.
WellSizedBatchesServed ==
    /\ audAt = "refused" =>
         \/ Len(audBatch) # audConfig.k
         \/ \E i \in DOMAIN audBatch, name \in Claims :
              Len(audBatch[i][name]) + 2 > audConfig.max[name]
         \/ audConfig.k > audConfig.limit
         \/ audConfig.k < audConfig.limit /\ Len(audConfig.forbidden) + 2 > MaxAud
    /\ audAt \in {"overlong", "unlisted"} => Overlong
=============================================================================
