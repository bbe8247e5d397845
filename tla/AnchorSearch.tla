---------------------------- MODULE AnchorSearch ----------------------------
(***************************************************************************)
(* AnchorProtocol with the linear systems solved step by step: the search  *)
(* builds a witness for each combination it tries, and the credential loop *)
(* builds the selector's once more for every proof (build_anchor_witness). *)
(*                                                                         *)
(* RegularAssumption excludes a singular system, which would end the       *)
(* request at once; LinearSolve's own run has them.                        *)
(***************************************************************************)
EXTENDS AnchorProtocol, LinearSolve

searchVars == <<vars, solveVars>>

-----------------------------------------------------------------------------
(* create_submatrix: the unknown slots' columns in their order, then the   *)
(* first known slot's. Only that one has the target 1.                     *)
\* Wrong: the first known slot's column first, with the target still at the end.
ColumnsKnownFirst(s) == <<Min(Known(s))>> \o Sorted(Slots \ Known(s), Ascending)
SubmatrixColumns(s) == Append(Sorted(Slots \ Known(s), Ascending), Min(Known(s)))

SystemFor(s) ==
    LET columns == SubmatrixColumns(s)
        matrix == [r \in Rows |-> [c \in Rows |-> Matrix[r][columns[c + 1]]]]
    IN [size |-> M, matrix |-> matrix, target |-> [r \in Rows |-> IF r = M - 1 THEN 1 ELSE 0]]

SearchedSystems == {SystemFor(s) : s \in Selectors}

\* calculate_vector_a is called for s.
Call(s) ==
    /\ solveAt = "idle"
    /\ solveAt' = "ready"
    /\ system' = SystemFor(s)
    /\ UNCHANGED <<vars, column, rows, rhs, solution>>

SolveForCombination ==
    /\ phase = "searching" /\ tried < Len(Combinations)
    /\ Call(Combinations[tried + 1])

SolveForProof ==
    /\ phase = "found" /\ random # 0 /\ Len(batch) < K
    /\ Call(selector)

Solve == SolveSteps /\ UNCHANGED vars

CheckOpening ==
    /\ phase = "searching" /\ solveAt = "solved"
    /\ LET s == Combinations[tried + 1] IN
       IF Opens(anchor, solution, VectorB(solution), HKnown(presented, s))
       THEN phase' = "found" /\ selector' = s
       ELSE UNCHANGED <<phase, selector>>
    /\ tried' = tried + 1
    /\ SolveReset
    /\ UNCHANGED <<registered, anchor, presented, random, batch>>

\* Wrong: credential i is proved at slot i.
ProveAtPosition ==
    /\ phase = "found" /\ solveAt = "solved"
    /\ LET i == Len(batch) + 1 IN
       batch' = Append(batch, [a |-> solution, sel |-> selector, idx |-> i - 1, id |-> presented[i]])
    /\ SolveReset
    /\ UNCHANGED <<registered, anchor, presented, phase, tried, selector, random>>
ProveSolved ==
    /\ phase = "found" /\ solveAt = "solved"
    /\ LET i == Len(batch) + 1 IN
       batch' = Append(batch, [a |-> solution, sel |-> selector,
                               idx |-> Ones(selector)[i], id |-> presented[i]])
    /\ SolveReset
    /\ UNCHANGED <<registered, anchor, presented, phase, tried, selector, random>>

RefuseRequest == Refuse /\ UNCHANGED solveVars

SubmitOutside == SubmitAny /\ UNCHANGED solveVars

SearchInit == Init /\ SolveIdle

SearchNext ==
    \/ SolveForCombination \/ SolveForProof \/ Solve
    \/ CheckOpening \/ RefuseRequest \/ ProveSolved \/ SubmitOutside

SearchSpec == SearchInit /\ [][SearchNext]_searchVars

-----------------------------------------------------------------------------
\* Elimination, whatever rows it has to swap, hands the search and the proofs the one
\* vector that AnchorProtocol's algebra means: the step-by-step search takes the same
\* decisions and makes the same proofs (calculate_vector_a, build_anchor_witness). The
\* steps of other provers are AnchorProtocol's own.
ImplementsLibrary == LibrarySpec
=============================================================================
