------------------------------- MODULE Anchor -------------------------------
(***************************************************************************)
(* The algebra of the k-of-n anchor: gadget/src/matrix and                 *)
(* gadget/src/anchor/poseidon on the host side.                            *)
(*                                                                         *)
(* An anchor value is a field element computed from Poseidon hashes. The   *)
(* hashes of distinct inputs are kept as independent unknowns, so a value  *)
(* is a linear form over them: two forms are equal exactly when the field  *)
(* elements are equal for every outcome of the hash. That is what "no      *)
(* accidental collision" means in this model.                              *)
(***************************************************************************)
EXTENDS PrimeField, Sequences, SequencesExt

CONSTANTS
    N,          \* registered slots
    K,          \* credentials a proof batch presents
    Ids,        \* identities: an (aud, iss, sub) triple, hashed into one x
    Mask        \* the second input of an output mask, which is no identity

ASSUME SizeAssumption == K \in 1..N /\ N \in Nat /\ Mask \notin Ids

M == N - K + 1
Rows == 0..(M - 1)
Slots == 0..(N - 1)

(* VandermondeMatrix::new: row i holds the powers of i + 1. *)
Matrix == [i \in Rows |-> [j \in Slots |-> Power((i + 1) % P, j)]]

Selectors == {s \in [Slots -> {0, 1}] : Cardinality({j \in Slots : s[j] = 1}) = K}
Known(s) == {j \in Slots : s[j] = 1}

\* The members of a finite set in the order that the pairs of R give them.
Sorted(S, R) ==
    [i \in 1..Cardinality(S) |-> CHOOSE x \in S : Cardinality({y \in S : <<y, x>> \in R}) = i - 1]
Ascending == {e \in Slots \X Slots : e[1] < e[2]}
Ones(s) == Sorted(Known(s), Ascending)        \* one_positions

(* vector_multiply: b = a * Matrix. *)
VectorB(a) == [j \in Slots |-> Dot(M, a, [i \in Rows |-> Matrix[i][j]])]

(* calculate_vector_a: the system it solves has a column for every unknown *)
(* slot, with target 0, and one for the first known slot, with target 1.   *)
SolvesFor(a, s) ==
    LET b == VectorB(a) first == Min(Known(s))
    IN b[first] = 1 /\ \A j \in Slots \ Known(s) : b[j] = 0

(* solve_linear_system reports a singular system instead of solving it. No *)
(* set of M columns is singular modulo P; the determinants are positive    *)
(* integers, so this excludes the primes that divide one of them.          *)
ASSUME RegularAssumption ==
    \A C \in kSubset(M, Slots) :
        \A a \in [Rows -> GF] :
            (\A j \in C : VectorB(a)[j] = 0) => \A i \in Rows : a[i] = 0

VectorA == [s \in Selectors |-> CHOOSE a \in [Rows -> GF] : SolvesFor(a, s)]

-----------------------------------------------------------------------------
(* Linear forms over H(slot, x) and the output masks H(random, slot).      *)

Atoms == Slots \X (Ids \cup {Mask})
Forms == [Atoms -> GF]
Zero == [t \in Atoms |-> 0]
Hash(j, x) == [Zero EXCEPT ![<<j, x>>] = 1 % P]
OutputMask(j) == Hash(j, Mask)
Scale(c, f) == [t \in Atoms |-> Times(c, f[t])]
Add(f, g) == [t \in Atoms |-> Plus(f[t], g[t])]
Combine(n, c, f) == [t \in Atoms |-> Dot(n, c, [i \in 0..(n - 1) |-> f[i][t]])]

(* generate_anchor: Matrix * h, with h[j] = H(j, secrets[j]). *)
AnchorOf(secrets) ==
    LET h == [j \in Slots |-> Hash(j, secrets[j])]
    IN [i \in Rows |-> Combine(N, Matrix[i], h)]

(* build_anchor_witness: the i-th secret is hashed with the i-th selected  *)
(* slot of the full vector. HashedSecretsCache once used the position      *)
(* within the selection instead.                                           *)
HKnownBySubset(xs, s) ==
    [j \in Slots |-> IF s[j] = 1
                     THEN LET i == CHOOSE q \in 1..K : Ones(s)[q] = j IN Hash(i - 1, xs[i])
                     ELSE Zero]
HKnown(xs, s) ==
    [j \in Slots |-> IF s[j] = 1
                     THEN LET i == CHOOSE q \in 1..K : Ones(s)[q] = j IN Hash(j, xs[i])
                     ELSE Zero]

(* PoseidonAnchorScheme::verify: <a, anchor> = <b, h_known>. *)
Opens(stored, a, b, hKnown) == Combine(M, a, stored) = Combine(N, b, hKnown)

(* generate_combinations: the selectors in lexicographic order of their    *)
(* index lists.                                                            *)
Precedes ==
    {e \in Selectors \X Selectors :
        \E j \in Slots : e[1][j] = 1 /\ e[2][j] = 0 /\ \A i \in 0..(j - 1) : e[1][i] = e[2][i]}
Combinations == Sorted(Selectors, Precedes)
=============================================================================
