--------------------------- MODULE AnchorProtocol ---------------------------
(***************************************************************************)
(* From a registered anchor to an accepted batch of proofs.                *)
(*                                                                         *)
(* The library's side: a request presents K identities; the selector is    *)
(* searched combination by combination; then one proof is made for each    *)
(* identity. Any other prover may submit whatever satisfies the circuit:   *)
(* the submitted proofs are judged by Phases 4 and 5 of the circuit and by *)
(* the equations the verifying contract closes over the batch.             *)
(***************************************************************************)
EXTENDS Anchor

CONSTANTS
    Randoms     \* values of the batch's random
ASSUME RandomAssumption == Randoms \subseteq GF

VARIABLES
    registered, \* the identity in each slot when the anchor was generated
    anchor,     \* the anchor generated from them, as the contract stores it
    presented,  \* the identities of the request, in request order
    phase,      \* "searching", "found", "refused" or "outside"
    tried,      \* combinations tried so far
    selector,   \* the selector found
    random,     \* the batch's random
    batch       \* the proofs submitted, in order

vars == <<registered, anchor, presented, phase, tried, selector, random, batch>>

NoSelector == [j \in Slots |-> 0]

-----------------------------------------------------------------------------
(* A proof's private inputs that matter here: the vector a, the selector,  *)
(* the current slot and the identity read from the token.                  *)
Witnesses == [a : [Rows -> GF], sel : [Slots -> {0, 1}], idx : Slots, id : Ids]

(* Phase 4: a is not zero, b vanishes off the selector, the selector has K *)
(* ones and selects the current slot, random is not zero.                  *)
SatisfiesZeroA(w) ==
    LET b == VectorB(w.a) IN
    /\ w.sel[w.idx] = 1
    /\ Cardinality(Known(w.sel)) = K
    /\ random # 0
    /\ \A j \in Slots : w.sel[j] = 0 => b[j] = 0
SatisfiesPhase4(w) ==
    LET b == VectorB(w.a) IN
    /\ w.sel[w.idx] = 1
    /\ Cardinality(Known(w.sel)) = K
    /\ random # 0
    /\ \E i \in Rows : w.a[i] # 0
    /\ \A j \in Slots : w.sel[j] = 0 => b[j] = 0

(* Phase 5: partial_rhs = b[idx] * h_id * random + mask(idx), and          *)
(* lhs = <a, anchor> * random + the masks of the selected slots.           *)
PartialRhs(w) ==
    Add(Scale(Times(VectorB(w.a)[w.idx], random), Hash(w.idx, w.id)), OutputMask(w.idx))
Lhs(w) == 
    Add(Scale(random, Combine(M, w.a, anchor)), Combine(N, w.sel, [j \in Slots |-> OutputMask(j)]))

(* The contract accepts K proofs that agree on h_a and lhs and whose       *)
(* partial right-hand sides add up to it.                                  *)
Closes(proofs) ==
    /\ Len(proofs) = K
    /\ \A q \in 1..K : proofs[q].a = proofs[1].a /\ Lhs(proofs[q]) = Lhs(proofs[1])
    /\ Combine(K, [q \in 0..(K - 1) |-> 1], [q \in 0..(K - 1) |-> PartialRhs(proofs[q + 1])])
        = Lhs(proofs[1])

-----------------------------------------------------------------------------
TypeOK ==
    /\ registered \in [Slots -> Ids]
    /\ anchor \in [Rows -> Forms]
    /\ presented \in [1..K -> Ids]
    /\ phase \in {"searching", "found", "refused", "outside"}
    /\ tried \in 0..Len(Combinations)
    /\ selector \in Selectors \cup {NoSelector}
    /\ random \in Randoms
    /\ Len(batch) <= K /\ \A q \in 1..Len(batch) : batch[q] \in Witnesses

Init ==
    /\ registered \in [Slots -> Ids]
    /\ anchor = AnchorOf(registered)
    /\ presented \in [1..K -> Ids]
    /\ phase \in {"searching", "outside"}
    /\ phase = "outside" => presented = [i \in 1..K |-> registered[0]]   \* not used
    /\ tried = 0
    /\ selector = NoSelector
    /\ random \in Randoms
    /\ batch = <<>>

(* One round of derive_selector_from_x_list_and_anchor's loop: build the   *)
(* witness for the next combination and check the opening.                 *)
TrySelector ==
    /\ phase = "searching"
    /\ tried < Len(Combinations)
    /\ tried' = tried + 1
    /\ LET s == Combinations[tried + 1] a == VectorA[s] b == VectorB(a) IN
       IF Opens(anchor, a, b, HKnown(presented, s))
       THEN phase' = "found" /\ selector' = s
       ELSE UNCHANGED <<phase, selector>>
    /\ UNCHANGED <<registered, anchor, presented, random, batch>>

(* Every combination failed; or the request's random is zero, which        *)
(* validate_decoded_inputs refuses once the selector is known.             *)
Refuse ==
    /\ \/ phase = "searching" /\ tried = Len(Combinations)
       \/ phase = "found" /\ random = 0
    /\ phase' = "refused"
    /\ UNCHANGED <<registered, anchor, presented, tried, selector, random, batch>>

(* The credential loop of synthesize_witnesses_streaming: credential i is  *)
(* proved at the i-th selected slot.                                       *)
Prove ==
    /\ phase = "found"
    /\ random # 0
    /\ Len(batch) < K
    /\ LET i == Len(batch) + 1 IN
       batch' = Append(batch, [a |-> VectorA[selector], sel |-> selector,
                               idx |-> Ones(selector)[i], id |-> presented[i]])
    /\ UNCHANGED <<registered, anchor, presented, phase, tried, selector, random>>

(* Any prover's next proof: it satisfies the circuit, and the contract     *)
(* refuses a batch whose h_a or lhs differ. A submitted vector a is taken  *)
(* from those that vanish off some selection, and is the batch's own once  *)
(* there is one.                                                           *)
Vectors == [s \in [Slots -> {0, 1}] |->
               {a \in [Rows -> GF] : \A j \in Slots : s[j] = 0 => VectorB(a)[j] = 0}]

SubmitUnbounded(w) ==
    /\ phase = "outside"
    /\ Len(batch) <= K
    /\ SatisfiesPhase4(w)
    /\ \A q \in 1..Len(batch) : batch[q].a = w.a /\ Lhs(batch[q]) = Lhs(w)
    /\ batch' = Append(batch, w)
    /\ UNCHANGED <<registered, anchor, presented, phase, tried, selector, random>>
Submit(w) ==
    /\ phase = "outside"
    /\ Len(batch) < K
    /\ SatisfiesPhase4(w)
    /\ \A q \in 1..Len(batch) : batch[q].a = w.a /\ Lhs(batch[q]) = Lhs(w)
    /\ batch' = Append(batch, w)
    /\ UNCHANGED <<registered, anchor, presented, phase, tried, selector, random>>

SubmitAny ==
    /\ phase = "outside"
    /\ \E s \in [Slots -> {0, 1}] :
          \E a \in IF batch = <<>> THEN Vectors[s] ELSE {batch[1].a} :
             \E j \in Slots, x \in Ids : Submit([a |-> a, sel |-> s, idx |-> j, id |-> x])

Library == TrySelector \/ Refuse \/ Prove

(* What the library's side does; anybody else's steps are SubmitAny.       *)
LibrarySpec == Init /\ [][phase # "outside" => Library]_vars

-----------------------------------------------------------------------------
(* The presented identities occupy the slots of s in slot order.           *)
Occupies(s) == \A i \in 1..K : registered[Ones(s)[i]] = presented[i]

(* The selector the search returns names slots that hold the presented     *)
(* identities, and a refusal means there is no such selection.             *)
SelectorIsRegistered ==
    /\ phase = "found" => Occupies(selector)
    /\ phase = "refused" /\ random # 0 => \A s \in Selectors : ~Occupies(s)

(* Each proof the library makes satisfies the circuit, and a complete      *)
(* batch closes the contract's equation.                                   *)
LibraryBatchCloses ==
    phase = "found" =>
        /\ \A q \in 1..Len(batch) : SatisfiesPhase4(batch[q])
        /\ Len(batch) = K => Closes(batch)

(* Whoever made them, proofs that close the equation prove the identities  *)
(* of K distinct slots, each with the identity registered there.           *)
OnlyHoldersClose ==
    Closes(batch) =>
        /\ Cardinality({batch[q].idx : q \in 1..K}) = K
        /\ \A q \in 1..K : registered[batch[q].idx] = batch[q].id
=============================================================================
