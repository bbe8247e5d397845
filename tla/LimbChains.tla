----------------------------- MODULE LimbChains -----------------------------
(***************************************************************************)
(* The two loops of gadget/src/bigint/constraints.rs that give limb        *)
(* vectors their meaning as numbers: the borrow chain that enforces a < b  *)
(* and the carry chain that enforces equality. Each step allocates         *)
(* witnesses and constrains them; a prover may choose any witness that     *)
(* satisfies the constraints, so a step is nondeterministic.               *)
(*                                                                         *)
(* `check` is what is being enforced, `i` the limb or group the loop is    *)
(* at. The history variables read by no action are the numbers compared so *)
(* far (sumLeft, sumRight, sumDiff), the place value, and whether every    *)
(* witness was the one the code computes.                                  *)
(***************************************************************************)
EXTENDS BigNat

VARIABLES check, i, carry, extra, borrow, nonzero, verdict, sumLeft, sumRight, sumDiff, place, honest

registers == <<i, carry, extra, borrow, nonzero>>
history == <<sumLeft, sumRight, sumDiff, place>>
chainVars == <<check, registers, verdict, history, honest>>

\* Wrong: the most significant limb is left out of the loop.
AllButLast == Size(check.left) - 1
Length == Size(check.left)
FieldEq(x, y) == (x - y) % P = 0

\* What the loops take for granted of their arguments: limbs are limbs, and no
\* sum they form reaches the order of the field.
IsLegal(c) ==
    /\ Size(c.left) \in Nat
    /\ DOMAIN c.left = 0..(Size(c.left) - 1) /\ DOMAIN c.right = DOMAIN c.left
    /\ c.base \in Nat \ {0, 1} /\ c.offset \in Nat /\ c.cap \in Nat \ {0}
    /\ \A k \in DOMAIN c.left : c.left[k] \in Nat /\ c.right[k] \in Nat
    /\ IF c.kind = "less"
       THEN /\ 2 * c.base < P
            /\ \A k \in DOMAIN c.left : c.left[k] < c.base /\ c.right[k] < c.base
       ELSE \A k \in DOMAIN c.left :
                /\ c.left[k] + c.cap + c.offset < P
                /\ c.cap * c.base + c.right[k] <= P
                /\ 2 * c.offset + c.right[k] < P

\* The state of a loop before its first iteration.
Start(c) ==
    /\ check = c
    /\ i = 0
    /\ carry = 0 /\ extra = 0
    /\ borrow = 0 /\ nonzero = FALSE
    /\ sumLeft = 0 /\ sumRight = 0 /\ sumDiff = 0
    /\ place = 1

Restart(c) ==
    /\ check' = c
    /\ i' = 0
    /\ carry' = 0 /\ extra' = 0
    /\ borrow' = 0 /\ nonzero' = FALSE
    /\ sumLeft' = 0 /\ sumRight' = 0 /\ sumDiff' = 0
    /\ place' = 1

-----------------------------------------------------------------------------
(* The borrow chain.                                                       *)

\* b_i - a_i - borrow + borrow_out * B - diff_i = 0 in the field.
BorrowEq(diff, out) ==
    FieldEq(check.right[i] - check.left[i] - borrow + out * check.base, diff)

\* What the code computes for the two witnesses of an iteration.
HonestOut == IF check.right[i] < check.left[i] + borrow THEN 1 ELSE 0
HonestDiff == check.right[i] - check.left[i] - borrow + HonestOut * check.base

BorrowStep ==
    /\ verdict = "running" /\ check.kind = "less" /\ i < Length
    /\ \E diff \in 0..(check.base - 1), out \in {0, 1} :
        /\ BorrowEq(diff, out)
        /\ borrow' = out
        /\ nonzero' = (nonzero \/ diff # 0)
        /\ sumDiff' = sumDiff + diff * place
        /\ honest' = (honest /\ diff = HonestDiff /\ out = HonestOut)
    /\ i' = i + 1
    /\ sumLeft' = sumLeft + check.left[i] * place
    /\ sumRight' = sumRight + check.right[i] * place
    /\ place' = place * check.base
    /\ UNCHANGED <<check, carry, extra, verdict>>

BorrowEnds == check.kind = "less" /\ i = Length
\* Wrong: equal numbers leave no borrow either.
NoBorrow == borrow = 0
BorrowHolds == borrow = 0 /\ nonzero

\* No witness satisfies the iteration's constraint.
BorrowFails ==
    \/ (BorrowEnds /\ ~BorrowHolds)
    \/ /\ check.kind = "less" /\ i < Length
       /\ \A diff \in 0..(check.base - 1), out \in {0, 1} : ~BorrowEq(diff, out)

-----------------------------------------------------------------------------
(* The carry chain.                                                        *)

Accumulated == extra + check.offset
NextExtra == Accumulated \div check.base

CarryEq(out) ==
    FieldEq(check.left[i] + carry - check.right[i] + check.offset,
            (out * check.base) + (Accumulated % check.base))

\* The witness the code computes: a subtraction of unsigned numbers, which
\* panics below zero, then a division.
HonestCarryExists == check.left[i] + carry + check.offset >= check.right[i]
HonestCarry == ((check.left[i] + carry + check.offset - check.right[i]) \div check.base) % P

\* A carry between groups is range-checked, the last one is a constant.
CarryOk(out) ==
    IF i + 1 < Length THEN out < check.cap ELSE out = NextExtra % P

CarryStep ==
    /\ verdict = "running" /\ check.kind = "equal" /\ i < Length
    /\ \E out \in 0..(P - 1) :
        /\ CarryEq(out)
        /\ CarryOk(out)
        /\ carry' = out
        /\ honest' = (honest /\ HonestCarryExists /\ out = HonestCarry)
    /\ extra' = NextExtra
    /\ i' = i + 1
    /\ sumLeft' = sumLeft + check.left[i] * place
    /\ sumRight' = sumRight + check.right[i] * place
    /\ place' = place * check.base
    /\ UNCHANGED <<check, borrow, nonzero, sumDiff, verdict>>

CarryEnds == check.kind = "equal" /\ i = Length

CarryFails ==
    /\ check.kind = "equal" /\ i < Length
    /\ \A out \in 0..(P - 1) : ~(CarryEq(out) /\ CarryOk(out))

-----------------------------------------------------------------------------

\* The loop is over and its constraints hold.
Enforced == (BorrowEnds /\ BorrowHolds) \/ CarryEnds

Refuse ==
    /\ verdict = "running"
    /\ BorrowFails \/ CarryFails
    /\ verdict' = "unsatisfied"
    /\ UNCHANGED <<check, registers, history, honest>>

ChainStep == BorrowStep \/ CarryStep \/ Refuse
=============================================================================
