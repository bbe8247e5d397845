---------------------------- MODULE ProveService ----------------------------
(***************************************************************************)
(* What a caller of the prove pipeline is promised: every request gets one *)
(* answer, about itself. It is an error or it has, for each credential in  *)
(* the request's order, a proof that verifies against the public inputs    *)
(* the response gives for that position.                                   *)
(***************************************************************************)
EXTENDS ProveRequest

CONSTANT Nobody     \* no request, no answer

VARIABLES
    asked,      \* the request being answered, or Nobody
    answer      \* the answer to the last request, or Nobody

IsResponse(resp) == "proofs" \in DOMAIN resp

(* A proof is the statement it proves: it verifies against one vector of   *)
(* public inputs.                                                          *)
AnswersTo(r, resp) ==
    /\ IsResponse(resp)
    /\ \A i \in 1..K :
          /\ resp.proofs[i].cred = r.creds[i]
          /\ resp.proofs[i].public.h_sign_user_op = r.op
          /\ Satisfied(resp.proofs[i])
          /\ resp.proofs[i].public = PublicInputsFor(resp, i)

Init == asked = Nobody /\ answer = Nobody

Ask(r) == asked = Nobody /\ asked' = r /\ answer' = Nobody

Answer ==
    /\ asked # Nobody
    /\ asked' = Nobody
    /\ answer' = ErrorOf(asked) \/ AnswersTo(asked, answer')

Next == Answer \/ \E r \in Requests : Ask(r)

vars == <<asked, answer>>
Spec == Init /\ [][Next]_vars /\ WF_vars(Answer)
=============================================================================
