---------------------------- MODULE MCCrsBundle -----------------------------
(***************************************************************************)
(* Small instances of CrsBundle: a signed run, a seeded one with a witness *)
(* generator, and one that main() rejects.                                 *)
(***************************************************************************)
EXTENDS CrsBundle, TLC

CONSTANTS r1, r2, r3, l1, c1, c2, s1, k1, k2

Plain ==
  [ptau |-> FALSE, seed |-> None, allowTestOnly |-> FALSE, key |-> None, vkOut |-> FALSE,
   epochOk |-> TRUE, config |-> c1, wasm |-> None]

Signed(k) == [Plain EXCEPT !.key = k, !.vkOut = TRUE]
Seeded(c) == [Plain EXCEPT !.seed = s1, !.allowTestOnly = TRUE, !.config = c]

SerialClis ==
  {Signed(k1), Signed(k2),
   [Seeded(c2) EXCEPT !.wasm = "present", !.key = k2, !.vkOut = TRUE],
   [Plain EXCEPT !.vkOut = TRUE]}

\* Runs that overlap: one draws from the OS, one from a seed, for two circuits, one
\* signs, and one names an input that main() does not look at before setup().
OverlapClis == {Plain, Seeded(c2), [Plain EXCEPT !.wasm = "missing"], Signed(k1)}

RunSymmetry == Permutations({r1, r2, r3})
=============================================================================
