------------------------------ MODULE MCSidecar ------------------------------
(***************************************************************************)
(* A small instance of Sidecar: two runs that may overlap, one loader, the *)
(* tool, and one handmade sidecar that lists no shape.                     *)
(***************************************************************************)
EXTENDS Sidecar, TLC

CONSTANTS r1, r2, l1, c1, c2, s1, k1

Plain ==
  [ptau |-> FALSE, seed |-> None, allowTestOnly |-> FALSE, key |-> None, vkOut |-> FALSE,
   epochOk |-> TRUE, config |-> c1, wasm |-> "present"]

\* One draws from the OS and copies the witness generator; one draws from a seed for
\* another circuit and finds none to copy, when its artifacts are published.
OverlapClis ==
  {Plain,
   [Plain EXCEPT !.seed = s1, !.allowTestOnly = TRUE, !.config = c2, !.wasm = "missing"]}

MCHandmade == {[sha |-> "whole", shapes |-> {}]}

RunSymmetry == Permutations({r1, r2})
=============================================================================
