----------------------------- MODULE NatPowers ------------------------------
(***************************************************************************)
(* Powers of natural numbers as a recursive function, so that the provers  *)
(* can unfold them: the weights of limbs and bits, the sizes of tables.    *)
(***************************************************************************)
EXTENDS Integers

\* A power of a natural number.
NatPower(b, e) ==
    LET power[i \in 0..e] == IF i = 0 THEN 1 ELSE power[i - 1] * b
    IN power[e]
=============================================================================
