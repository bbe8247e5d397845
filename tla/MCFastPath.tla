----------------------------- MODULE MCFastPath -----------------------------
(***************************************************************************)
(* The products of verify_opt under the bounds RSA allocates a signature   *)
(* and a key with, by a prover who keeps to the code: five limbs of two    *)
(* bits, the smallest layout found in which those bounds matter.           *)
(***************************************************************************)
EXTENDS BigNatOps

Limbs(ns) == {NatToLimbs(n, NLimbs) : n \in ns}
FastOperands == Limbs({3, 517, 720, 1012})
FastModuli == Limbs({971, 1023})

(* The first squaring, the squarings after it, the product. *)
FirstWord == [x |-> KeyWord, y |-> KeyWord, m |-> KeyWord]
SquareWord == [x |-> MaxWord, y |-> MaxWord, m |-> KeyWord]
ProductWord == [x |-> MaxWord, y |-> KeyWord, m |-> KeyWord]
FastWords == {FirstWord, SquareWord, ProductWord}

FastInit ==
    /\ Init
    /\ \/ op = "square_mod_unchecked"
       \/ op = "mult_mod_unchecked" /\ word = ProductWord
FastSpec == FastInit /\ [][Next /\ honest']_vars
=============================================================================
