---------------------------- MODULE ProveRequest ----------------------------
(***************************************************************************)
(* What a prove request holds, which requests witness synthesis accepts,   *)
(* the bundles it makes of one, and when a bundle satisfies the circuit.   *)
(*                                                                         *)
(* A hash is the tuple of its inputs, so equal hashes mean equal inputs. A *)
(* Merkle root is the set of its leaves, and a request's path is the right *)
(* one for the leaf it claims.                                             *)
(***************************************************************************)
EXTENDS Integers, Sequences

CONSTANTS
    N, K,           \* slots of an anchor, credentials of a batch
    AudLimit,       \* num_audience_limit
    Auds, Issuers, Subs, Keys, Ops, Exps,   \* contents of a request
    Forbidden,      \* the audience that fills the unused entries of the list
    Requests        \* the requests that callers make

Identity == [aud : Auds, iss : Issuers, sub : Subs]
Slots == 0..(N - 1)

(***************************************************************************)
(* A credential: the identity its token names, its RSA modulus, the pair   *)
(* its nonce hashes, its expiry; whether every field decodes to the right  *)
(* length and its claims are found; whether the expiry, which only the     *)
(* credential loop reads, is ten digits; whether the padded signing input  *)
(* fits max_jwt_b64_len; whether each claim with its key, its colon and    *)
(* its terminator spans no more than its capacity, which the host compares *)
(* with the value alone; whether the circuit verifies its signature.       *)
(***************************************************************************)
Credential == [id : Identity, key : Keys, nonce : Ops \X Nat, exp : Exps,
               decodes : BOOLEAN, digits : BOOLEAN, fits : BOOLEAN, spans : BOOLEAN,
               signed : BOOLEAN]

(* An anchor is the identities it was generated from, slot by slot. *)
Request == [creds : Seq(Credential), random : Nat, op : Ops,
            anchor : [Slots -> Identity], root : SUBSET (Issuers \X Keys)]

ASSUME RequestAssumption ==
    /\ N \in Nat /\ K \in 1..N /\ AudLimit \in Nat
    /\ Requests \subseteq Request

-----------------------------------------------------------------------------
(* The stages of synthesize_witnesses_streaming before its loop.           *)

Decodes(r) == Len(r.creds) = K /\ \A i \in 1..K : r.creds[i].decodes

(* derive_selector_from_x_list_and_anchor returns the first selection, in  *)
(* lexicographic order, whose slots hold the identities in request order   *)
(* (AnchorProtocol!SelectorIsRegistered). one_positions is that selection. *)
Selections(r) ==
    {s \in [1..K -> Slots] :
        /\ \A i, j \in 1..K : i < j => s[i] < s[j]
        /\ \A i \in 1..K : r.anchor[s[i]] = r.creds[i].id}
Before(s, t) == \E i \in 1..K : s[i] < t[i] /\ \A j \in 1..(i - 1) : s[j] = t[j]
Selection(r) == CHOOSE s \in Selections(r) : \A t \in Selections(r) : t = s \/ Before(s, t)

Leaf(c) == <<c.id.iss, c.key>>
Bound(c, r) == c.nonce = <<r.op, r.random>>

(* validate_decoded_inputs. *)
ValidatesUnbound(r) == r.random # 0 /\ \A i \in 1..K : Leaf(r.creds[i]) \in r.root
Validates(r) ==
    /\ r.random # 0
    /\ \A i \in 1..K : Leaf(r.creds[i]) \in r.root /\ Bound(r.creds[i], r)

(* build_shared_audience_stage: one list for the batch.                    *)
AudList(r) == [j \in 1..AudLimit |-> IF j <= K THEN r.creds[j].id.aud ELSE Forbidden]

Synthesizes(r) == Decodes(r) /\ Selections(r) # {} /\ Validates(r) /\ K <= AudLimit

(* The i-th bundle: the private inputs and the public ones. *)
Bundle(r, i) ==
    LET c == r.creds[i] s == Selection(r) IN
    [cred |-> c, selection |-> s, slot |-> s[i], anchor |-> r.anchor, random |-> r.random,
     aud_list |-> AudList(r),
     public |-> [hanchor |-> r.anchor, h_a |-> <<s, r.random>>, root |-> r.root,
                 h_sign_user_op |-> r.op, jwt_exp |-> c.exp,
                 partial_rhs |-> <<s, s[i], c.id, r.random>>,
                 lhs |-> <<s, r.anchor, r.random>>, h_aud_list |-> AudList(r)]]

(* What the circuit's five phases require of a bundle beyond its token:    *)
(* that its inputs are each other's.                                       *)
Bindings(b) ==
    LET c == b.cred p == b.public IN
    /\ Leaf(c) \in p.root
    /\ c.digits /\ p.jwt_exp = c.exp
    /\ p.hanchor = b.anchor /\ p.h_a = <<b.selection, b.random>>
    /\ c.nonce = <<p.h_sign_user_op, b.random>>
    /\ \E j \in 1..AudLimit : b.aud_list[j] = c.id.aud
    /\ p.h_aud_list = b.aud_list
    /\ b.random # 0 /\ \E j \in 1..K : b.selection[j] = b.slot
    /\ p.partial_rhs = <<b.selection, b.slot, c.id, b.random>>
    /\ p.lhs = <<b.selection, b.anchor, b.random>>

(* And of the token itself: the signing input is whole in its buffer, the  *)
(* extractor's slice holds each claim with what is around it (the other    *)
(* format checks follow from where the host found it:                      *)
(* JwtClaims!CircuitAccepts), and the signature verifies.                  *)
SatisfiedUnsigned(b) == b.cred.fits /\ b.cred.spans /\ Bindings(b)
Satisfied(b) == b.cred.signed /\ b.cred.fits /\ b.cred.spans /\ Bindings(b)

(* What a caller must hold to be given proofs: K credentials of the anchor *)
(* in slot order, each one signed, short enough as a whole and in every    *)
(* claim, expiring at a number, bound to this execution, and of an issuer  *)
(* in the tree.                                                            *)
Provable(r) ==
    /\ Len(r.creds) = K /\ K <= AudLimit
    /\ \E s \in [1..K -> Slots] :
          /\ \A i, j \in 1..K : i < j => s[i] < s[j]
          /\ \A i \in 1..K : r.anchor[s[i]] = r.creds[i].id
    /\ r.random # 0
    /\ \A i \in 1..K :
          LET c == r.creds[i] IN
          /\ c.decodes /\ c.digits /\ c.fits /\ c.spans /\ c.signed
          /\ c.nonce = <<r.op, r.random>> /\ <<c.id.iss, c.key>> \in r.root

-----------------------------------------------------------------------------
(* dto/proof.rs: a response carries the batch's shared public inputs once, *)
(* from the first proof. An error says what is wrong with its request.     *)

ResponseOf(proofs) ==
    [proofs |-> proofs,
     shared |-> [hanchor |-> proofs[1].public.hanchor, h_a |-> proofs[1].public.h_a,
                 root |-> proofs[1].public.root,
                 h_sign_user_op |-> proofs[1].public.h_sign_user_op,
                 lhs |-> proofs[1].public.lhs, h_aud_list |-> proofs[1].public.h_aud_list],
     jwt_exp |-> [i \in 1..K |-> proofs[i].public.jwt_exp],
     verification_rhs |-> [i \in 1..K |-> proofs[i].public.partial_rhs]]

ErrorOf(r) == [refused |-> r]

PublicInputsFor(resp, i) ==
    [hanchor |-> resp.shared.hanchor, h_a |-> resp.shared.h_a, root |-> resp.shared.root,
     h_sign_user_op |-> resp.shared.h_sign_user_op, jwt_exp |-> resp.jwt_exp[i],
     partial_rhs |-> resp.verification_rhs[i], lhs |-> resp.shared.lhs,
     h_aud_list |-> resp.shared.h_aud_list]
=============================================================================
