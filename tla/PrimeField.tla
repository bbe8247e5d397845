----------------------------- MODULE PrimeField -----------------------------
(***************************************************************************)
(* Arithmetic in a prime field, as the code uses ark_ff's PrimeField. The  *)
(* code's field is the scalar field of BN254; a small P keeps TLC's sums   *)
(* small and every argument below is about an arbitrary prime.             *)
(***************************************************************************)
EXTENDS NatPowers, FiniteSets

CONSTANT P      \* the order of the field

ASSUME PrimeAssumption == P \in Nat \ {0, 1} /\ \A d \in 2..(P - 1) : P % d # 0

GF == 0..(P - 1)

Plus(x, y) == (x + y) % P
Times(x, y) == (x * y) % P
Minus(x, y) == (x - y) % P
FieldInverse(x) == CHOOSE y \in GF : Times(x, y) = 1

Power(x, e) ==
    LET power[i \in 0..e] == IF i = 0 THEN 1 ELSE Times(power[i - 1], x)
    IN power[e]

\* The inner product of two vectors of length n, indexed from 0 as in the code.
Dot(n, v, w) ==
    LET sum[i \in 0..n] == IF i = 0 THEN 0 ELSE Plus(sum[i - 1], v[i - 1] * w[i - 1])
    IN sum[n]
=============================================================================
