--------------------------- MODULE MCAtomicWrite ----------------------------
(***************************************************************************)
(* Three calls on one path: w1 and w2 run under the same pid, w3 under     *)
(* another.                                                                *)
(***************************************************************************)
EXTENDS AtomicWrite

CONSTANTS w1, w2, w3, p1, p2

MCPidOf == [w \in {w1, w2, w3} |-> IF w = w3 THEN p2 ELSE p1]

=============================================================================
