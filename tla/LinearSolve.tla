---------------------------- MODULE LinearSolve ----------------------------
(***************************************************************************)
(* solve_linear_system of gadget/src/matrix: Gaussian elimination on the   *)
(* transposed matrix, one step for a round of its two outer loops.         *)
(*                                                                         *)
(* A system is a square matrix by rows and a target (the only caller makes *)
(* no other); vectors and matrices are indexed from 0 as in the code.      *)
(***************************************************************************)
EXTENDS PrimeField, FiniteSetsExt

CONSTANT Systems    \* what the solver is called with: [size, matrix, target]

ASSUME SystemsAssumption ==
    \A s \in Systems :
        /\ s.size \in Nat \ {0}
        /\ \A r, c \in 0..(s.size - 1) : s.matrix[r][c] \in GF
        /\ s.target \in [0..(s.size - 1) -> GF]

VARIABLES
    solveAt,    \* "idle", "ready", the loop that runs, or how the call ended
    system,     \* the call's arguments
    column,     \* the round, i in both loops
    rows,       \* m_t
    rhs,        \* the right-hand side
    solution

solveVars == <<solveAt, system, column, rows, rhs, solution>>

Order == system.size
Indices == 0..(Order - 1)

-----------------------------------------------------------------------------
Blank == column = 0 /\ rows = <<>> /\ rhs = <<>> /\ solution = <<>>
SolveIdle == solveAt = "idle" /\ system = (CHOOSE s \in Systems : TRUE) /\ Blank
SolveReset ==
    /\ solveAt' = "idle" /\ system' = (CHOOSE s \in Systems : TRUE)
    /\ column' = 0 /\ rows' = <<>> /\ rhs' = <<>> /\ solution' = <<>>
SolveInit == solveAt = "ready" /\ system \in Systems /\ Blank

Transpose ==
    /\ solveAt = "ready"
    /\ rows' = [r \in Indices |-> [c \in Indices |-> system.matrix[c][r]]]
    /\ rhs' = system.target
    /\ solution' = [i \in Indices |-> 0]
    /\ column' = 0
    /\ solveAt' = "eliminate"
    /\ UNCHANGED system

\* Rows that can serve as this round's pivot.
Candidates == {r \in column..(Order - 1) : rows[r][column] # 0}

Swapped(v, i, j) == [v EXCEPT ![i] = v[j], ![j] = v[i]]

Singular ==
    /\ solveAt = "eliminate" /\ column < Order
    /\ Candidates = {}
    /\ solveAt' = "singular"
    /\ UNCHANGED <<system, column, rows, rhs, solution>>

\* m and v once the pivot's row is in place.
ClearBelow(m, v) ==
    LET factor(r) == Times(m[r][column], FieldInverse(m[column][column])) IN
    /\ rows' = [r \in Indices |->
                  IF r <= column THEN m[r]
                  ELSE [c \in Indices |-> IF c < column THEN m[r][c]
                                          ELSE Minus(m[r][c], m[column][c] * factor(r))]]
    /\ rhs' = [r \in Indices |-> IF r <= column THEN v[r] ELSE Minus(v[r], v[column] * factor(r))]

\* Wrong: the right-hand side stays where it was.
EliminateRowsOnly ==
    /\ solveAt = "eliminate" /\ column < Order
    /\ Candidates # {}
    /\ ClearBelow(Swapped(rows, column, Min(Candidates)), rhs)
    /\ column' = column + 1
    /\ UNCHANGED <<solveAt, system, solution>>
Eliminate ==
    /\ solveAt = "eliminate" /\ column < Order
    /\ Candidates # {}
    /\ LET pivot == Min(Candidates)
       IN ClearBelow(Swapped(rows, column, pivot), Swapped(rhs, column, pivot))
    /\ column' = column + 1
    /\ UNCHANGED <<solveAt, system, solution>>

Turn ==
    /\ solveAt = "eliminate" /\ column = Order
    /\ solveAt' = "substitute"
    /\ column' = Order - 1
    /\ UNCHANGED <<system, rows, rhs, solution>>

Substitute ==
    /\ solveAt = "substitute"
    /\ LET after == Order - column - 1     \* the unknowns solved already
           sum == Dot(after, [c \in 0..(after - 1) |-> rows[column][column + 1 + c]],
                             [c \in 0..(after - 1) |-> solution[column + 1 + c]])
       IN solution' = [solution EXCEPT ![column] =
                        Times(Minus(rhs[column], sum), FieldInverse(rows[column][column]))]
    /\ column' = IF column = 0 THEN 0 ELSE column - 1
    /\ solveAt' = IF column = 0 THEN "solved" ELSE solveAt
    /\ UNCHANGED <<system, rows, rhs>>

\* A call that is not refused.
SolveSteps == Transpose \/ Eliminate \/ Turn \/ Substitute
SolveNext == SolveSteps \/ Singular

SolveSpec == SolveInit /\ [][SolveNext]_solveVars

-----------------------------------------------------------------------------
(* What the call is for.                                                   *)

\* The solutions of the transposed system.
Solutions ==
    {x \in [Indices -> GF] :
        \A r \in Indices : Dot(Order, [c \in Indices |-> system.matrix[c][r]], x) = system.target[r]}

\* Whatever the pivots, the solution that is returned satisfies every equation and is the
\* only one that does, and a system is refused only when it has none or more than one
\* (solve_linear_system).
SolvesExactly ==
    /\ solveAt = "solved" => Solutions = {solution}
    /\ solveAt = "singular" => Cardinality(Solutions) # 1
=============================================================================
