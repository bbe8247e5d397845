--------------------------- MODULE CircuitGadgets ---------------------------
(***************************************************************************)
(* The gadgets of the circuit, one call at a time: an operation on big     *)
(* numbers, a run of the SHA-256 gadget, one compression, one of the small *)
(* bit gadgets, one linear system, one token through all phases, or an     *)
(* account's audiences through the host and the circuit. A behaviour       *)
(* begins with the machine it is about ready to start and the others idle, *)
(* and no machine reads another's variables: the circuit's synthesis is    *)
(* sequential, and each gadget is called with allocated inputs.            *)
(***************************************************************************)
EXTENDS BigNatOps, Sha256Gadgets, Sha256Rounds, BitGadgets, TokenCircuit, AudienceList,
        LinearSolve

callVars == <<vars, shaVars, roundVars, gateVars, tokVars, audVars, solveVars>>

CallBigNat == Init /\ ShaIdle /\ RoundsIdle /\ GateIdle /\ TokIdle /\ AudIdle /\ SolveIdle
CallSha256 == BigNatIdle /\ ShaInit /\ RoundsIdle /\ GateIdle /\ TokIdle /\ AudIdle /\ SolveIdle
CallCompression ==
    BigNatIdle /\ ShaIdle /\ RoundsInit /\ GateIdle /\ TokIdle /\ AudIdle /\ SolveIdle
CallBitGadget == BigNatIdle /\ ShaIdle /\ RoundsIdle /\ GateInit /\ TokIdle /\ AudIdle /\ SolveIdle
CallToken == BigNatIdle /\ ShaIdle /\ RoundsIdle /\ GateIdle /\ TokInit /\ AudIdle /\ SolveIdle
CallAudience == BigNatIdle /\ ShaIdle /\ RoundsIdle /\ GateIdle /\ TokIdle /\ AudInit /\ SolveIdle
CallLinearSystem ==
    BigNatIdle /\ ShaIdle /\ RoundsIdle /\ GateIdle /\ TokIdle /\ AudIdle /\ SolveInit

CallInit ==
    \/ CallBigNat \/ CallSha256 \/ CallCompression \/ CallBitGadget
    \/ CallToken \/ CallAudience \/ CallLinearSystem

BigNatStep ==
    Next /\ UNCHANGED <<shaVars, roundVars, gateVars, tokVars, audVars, solveVars>>
Sha256Step ==
    ShaNext /\ UNCHANGED <<vars, roundVars, gateVars, tokVars, audVars, solveVars>>
CompressionStep ==
    RoundsNext /\ UNCHANGED <<vars, shaVars, gateVars, tokVars, audVars, solveVars>>
BitGadgetStep ==
    GateNext /\ UNCHANGED <<vars, shaVars, roundVars, tokVars, audVars, solveVars>>
TokenStep ==
    TokNext /\ UNCHANGED <<vars, shaVars, roundVars, gateVars, audVars, solveVars>>
AudienceStep ==
    AudNext /\ UNCHANGED <<vars, shaVars, roundVars, gateVars, tokVars, solveVars>>
LinearSystemStep ==
    SolveNext /\ UNCHANGED <<vars, shaVars, roundVars, gateVars, tokVars, audVars>>

CallNext ==
    \/ BigNatStep \/ Sha256Step \/ CompressionStep \/ BitGadgetStep
    \/ TokenStep \/ AudienceStep \/ LinearSystemStep

CallSpec == CallInit /\ [][CallNext]_callVars
=============================================================================
