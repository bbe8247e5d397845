--------------------------- MODULE ProvePipeline ---------------------------
(***************************************************************************)
(* The prove pipeline, from a request to its answer, on its two paths.     *)
(*                                                                         *)
(* Native: prove() synthesizes the witnesses and proves them. Wasm: a host *)
(* drives one instance of the witness generator through its C ABI, reads   *)
(* the bundles or the error back, frees its buffers and proves natively.   *)
(* The instance outlives a call: its output, its error and what was not    *)
(* freed are still there in the next one. A batch is proved by a pool.     *)
(***************************************************************************)
EXTENDS ProveRequest, FiniteSets

CONSTANTS
    Nobody,
    Workers,    \* threads of the pool
    MaxCalls    \* bound: requests answered by one instance

ASSUME PipelineAssumption ==
    Workers \in Nat \ {0} /\ MaxCalls \in Nat /\ Nobody \notin Requests

VARIABLES
    asked,      \* the request under way, or Nobody
    answer,     \* the answer to the last one, or Nobody
    path,       \* "native" or "wasm"
    pc,         \* where the call is
    calls,      \* calls begun
    heap,       \* the host's buffers in the instance, <<call, kind>>
    out,        \* bundles streamed so far by the call
    lastOutput, \* LAST_OUTPUT of the instance
    lastError,  \* LAST_ERROR of the instance
    code,       \* what synthesize_witness returned
    held,       \* what the host has read: bundles, or an error
    task,       \* the state of each bundle's proof
    proofs,     \* the proofs of the batch
    trapped     \* calls that ended in a trap

request == <<asked, answer, path, calls>>
instance == <<heap, lastOutput, lastError, trapped>>
pool == <<task, proofs>>
vars == <<request, pc, instance, out, code, held, pool>>

NoTask == [i \in 1..K |-> "waiting"]
NoProof == [i \in 1..K |-> Nobody]

Init ==
    /\ asked = Nobody /\ answer = Nobody
    /\ path = "native" /\ pc = "idle" /\ calls = 0
    /\ heap = {} /\ lastOutput = <<>> /\ lastError = Nobody /\ trapped = {}
    /\ out = <<>> /\ code = "none" /\ held = <<>>
    /\ task = NoTask /\ proofs = NoProof

-----------------------------------------------------------------------------
Submit(r, p) ==
    /\ pc = "idle" /\ calls < MaxCalls
    /\ asked' = r /\ answer' = Nobody /\ path' = p /\ calls' = calls + 1
    /\ pc' = IF p = "wasm" THEN "alloc" ELSE "enter"
    /\ UNCHANGED <<instance, out, code, held, pool>>

(* wg_alloc, for the request and then for the configuration.               *)
Alloc(kind) ==
    /\ pc = "alloc"
    /\ IF <<calls, "request">> \in heap THEN kind = "config" ELSE kind = "request"
    /\ heap' = heap \cup {<<calls, kind>>}
    /\ pc' = IF kind = "config" THEN "enter" ELSE "alloc"
    /\ UNCHANGED <<request, lastOutput, lastError, trapped, out, code, held, pool>>

(* Synthesis refuses. Bundles streamed before are dropped with the error.  *)
Fail ==
    /\ out' = <<>>
    /\ \/ /\ path = "wasm"
          /\ lastError' = ErrorOf(asked) /\ code' = "err" /\ pc' = "read"
          /\ UNCHANGED <<lastOutput, held>>
       \/ /\ path = "native"
          /\ held' = ErrorOf(asked) /\ code' = "err" /\ pc' = "respond"
          /\ UNCHANGED <<lastOutput, lastError>>
    /\ UNCHANGED <<request, heap, trapped, pool>>

Enter ==
    /\ pc = "enter"
    /\ \/ ~Synthesizes(asked) /\ Fail
       \/ /\ Synthesizes(asked)
          /\ pc' = "emit"
          /\ UNCHANGED <<request, instance, out, code, held, pool>>

(* One round of the credential loop. The expiry is read here.              *)
Emit ==
    /\ pc = "emit" /\ Len(out) < K
    /\ LET i == Len(out) + 1 IN
       \/ ~asked.creds[i].digits /\ Fail
       \/ /\ asked.creds[i].digits
          /\ out' = Append(out, Bundle(asked, i))
          /\ UNCHANGED <<request, pc, instance, code, held, pool>>

Return ==
    /\ pc = "emit" /\ Len(out) = K
    /\ code' = "ok" /\ out' = <<>>
    /\ \/ /\ path = "wasm" /\ lastOutput' = out /\ pc' = "read"
          /\ UNCHANGED held
       \/ /\ path = "native" /\ held' = out /\ pc' = "prove"
          /\ UNCHANGED lastOutput
    /\ UNCHANGED <<request, heap, lastError, trapped, pool>>

(* The host looks at the return value and reads one buffer or the other.   *)
ReadBack ==
    /\ pc = "read"
    /\ held' = IF code = "ok" THEN lastOutput ELSE lastError
    /\ pc' = "free"
    /\ UNCHANGED <<request, instance, out, code, pool>>

(* wg_dealloc, for the request and then for the configuration, whatever    *)
(* the outcome.                                                            *)
FreeOnSuccess(kind) ==
    /\ pc = "free"
    /\ IF <<calls, "request">> \in heap /\ code = "ok" THEN kind = "request" ELSE kind = "config"
    /\ heap' = IF code = "ok" THEN heap \ {<<calls, kind>>} ELSE heap
    /\ pc' = IF kind = "request" THEN "free" ELSE IF code = "ok" THEN "prove" ELSE "respond"
    /\ UNCHANGED <<request, lastOutput, lastError, trapped, out, code, held, pool>>
Free(kind) ==
    /\ pc = "free"
    /\ IF <<calls, "request">> \in heap THEN kind = "request" ELSE kind = "config"
    /\ heap' = heap \ {<<calls, kind>>}
    /\ pc' = IF kind = "request" THEN "free" ELSE IF code = "ok" THEN "prove" ELSE "respond"
    /\ UNCHANGED <<request, lastOutput, lastError, trapped, out, code, held, pool>>

-----------------------------------------------------------------------------
(* prove_bundles. A worker takes a bundle; once a proof has failed, bundles *)
(* not yet taken may be passed over; a proof goes to its bundle's place.   *)
Running == {i \in 1..K : task[i] = "running"}
Failed == {i \in 1..K : task[i] = "failed"}

Take(i) ==
    /\ pc = "prove" /\ task[i] = "waiting"
    /\ Cardinality(Running) < Workers
    /\ task' = [task EXCEPT ![i] = "running"]
    /\ UNCHANGED <<request, pc, instance, out, code, held, proofs>>

ProvenInFinishOrder(i) ==
    /\ task[i] = "running" /\ Satisfied(held[i])
    /\ task' = [task EXCEPT ![i] = "proved"]
    /\ LET next == CHOOSE j \in 1..K :
                     proofs[j] = Nobody /\ \A l \in 1..(j - 1) : proofs[l] # Nobody
       IN proofs' = [proofs EXCEPT ![next] = held[i]]
    /\ UNCHANGED <<request, pc, instance, out, code, held>>
Proven(i) ==
    /\ task[i] = "running" /\ Satisfied(held[i])
    /\ task' = [task EXCEPT ![i] = "proved"]
    /\ proofs' = [proofs EXCEPT ![i] = held[i]]
    /\ UNCHANGED <<request, pc, instance, out, code, held>>

Rejected(i) ==
    /\ task[i] = "running" /\ ~Satisfied(held[i])
    /\ task' = [task EXCEPT ![i] = "failed"]
    /\ UNCHANGED <<request, pc, instance, out, code, held, proofs>>

PassOver(i) ==
    /\ task[i] = "waiting" /\ Failed # {}
    /\ task' = [task EXCEPT ![i] = "passed over"]
    /\ UNCHANGED <<request, pc, instance, out, code, held, proofs>>

(* The call returns; what it held is gone, the instance is not.            *)
AnswerWith(resp) ==
    /\ answer' = resp /\ asked' = Nobody /\ pc' = "idle"
    /\ out' = <<>> /\ code' = "none" /\ held' = <<>>
    /\ task' = NoTask /\ proofs' = NoProof
    /\ UNCHANGED <<path, calls, heap, lastOutput, lastError>>

Collect ==
    /\ pc = "prove"
    /\ \A i \in 1..K : task[i] \notin {"waiting", "running"}
    /\ AnswerWith(IF Failed = {} THEN ResponseOf(proofs) ELSE ErrorOf(asked))
    /\ UNCHANGED trapped

Respond == pc = "respond" /\ AnswerWith(held) /\ UNCHANGED trapped

(* A panic of the guest, out of memory for one, reaches the host as an     *)
(* error, which it returns at once.                                        *)
Trap ==
    /\ path = "wasm" /\ pc \in {"alloc", "enter", "emit"}
    /\ AnswerWith(ErrorOf(asked))
    /\ trapped' = trapped \cup {calls}

Work ==
    \/ \E kind \in {"request", "config"} : Alloc(kind) \/ Free(kind)
    \/ Enter \/ Emit \/ Return \/ ReadBack \/ Collect \/ Respond
    \/ \E i \in 1..K : Take(i) \/ Proven(i) \/ Rejected(i) \/ PassOver(i)

Next ==
    \/ \E r \in Requests, p \in {"native", "wasm"} : Submit(r, p)
    \/ Work
    \/ Trap

Spec == Init /\ [][Next]_vars /\ WF_vars(Work)

-----------------------------------------------------------------------------
Bundles == {Bundle(r, i) : r \in {q \in Requests : Synthesizes(q)}, i \in 1..K}
Errors == {ErrorOf(r) : r \in Requests}
Abs == INSTANCE ProveService

(* The variables keep their types, and the pool never runs more proofs     *)
(* than it has threads.                                                    *)
TypeOK ==
    /\ asked \in Requests \cup {Nobody}
    /\ answer = Nobody \/ answer \in Errors \/ Abs!IsResponse(answer)
    /\ path \in {"native", "wasm"}
    /\ pc \in {"idle", "alloc", "enter", "emit", "read", "free", "prove", "respond"}
    /\ (asked = Nobody) = (pc = "idle")
    /\ calls \in 0..MaxCalls
    /\ heap \subseteq (1..calls) \X {"request", "config"}
    /\ Len(out) <= K /\ \A i \in 1..Len(out) : out[i] \in Bundles
    /\ Len(lastOutput) \in {0, K}
    /\ lastError \in Errors \cup {Nobody}
    /\ code \in {"none", "ok", "err"}
    /\ IF code = "err" /\ pc \in {"free", "respond"}
       THEN held \in Errors
       ELSE Len(held) \in {0, K} /\ \A i \in 1..Len(held) : held[i] \in Bundles
    /\ \A i \in 1..K : proofs[i] = Nobody \/ proofs[i] \in Bundles
    /\ task \in [1..K -> {"waiting", "running", "proved", "failed", "passed over"}]
    /\ Cardinality(Running) <= Workers
    /\ trapped \subseteq 1..calls

(* The pipeline does what its callers are promised (ProveService): each    *)
(* request gets exactly one answer, about itself, and proofs come in the   *)
(* request's order with public inputs they verify against. Every request   *)
(* is answered in the end.                                                 *)
ImplementsProveService == Abs!Spec

(* Unless the guest trapped, a request is answered with proofs exactly     *)
(* when its caller holds what it takes: no stage refuses what the circuit  *)
(* would accept, and nothing unsatisfied is answered with proofs.          *)
AnsweredAsDeserved ==
    [][asked # Nobody /\ asked' = Nobody /\ trapped' = trapped
         => (Abs!IsResponse(answer') <=> Provable(asked))]_vars

(* Between calls the instance holds no buffer of the host's, except those  *)
(* of calls that trapped: wg_alloc and wg_dealloc pair up on every path.   *)
NoBufferLeaks == pc = "idle" => \A b \in heap : b[1] \in trapped

(* Groth16 work is spent only on bundles whose inputs are each other's: if *)
(* one fails there, it is for its token alone, that is its signature, a    *)
(* signing input that was cut off, or a claim that spans more than its     *)
(* capacity. No stage before the prover looks at these three.              *)
ProofWorkIsEarned == \A i \in Running : Bindings(held[i])

(* validate.rs says that length is covered by the adapter and the stage    *)
(* builders and that only the signature is left to the prover. Violated:   *)
(* sha_pad_signing_input cuts a long signing input off and nobody refuses  *)
(* it, nor a claim that fits by its value only.                            *)
OnlySignatureLeftToProver == \A i \in Failed : ~held[i].cred.signed
=============================================================================
