------------------------- MODULE ProvePipelineProofs -------------------------
(***************************************************************************)
(* Proofs about the prove pipeline, for every set of requests, every size  *)
(* of batch and of pool, and any number of calls of one instance; and, for *)
(* every set of configurations, identities, lists and batches, that the    *)
(* recipes for the audience list of a batch agree, and whom a bundle       *)
(* serves.                                                                 *)
(***************************************************************************)
EXTENDS ProvePipeline, AudienceList, FiniteSetTheorems, SequenceTheorems, TLAPS

PCs == {"idle", "alloc", "enter", "emit", "read", "free", "prove", "respond"}
TaskStates == {"waiting", "running", "proved", "failed", "passed over"}

(* The bundles of the request under way, all of them and in order. *)
Whole(b) ==
    /\ Synthesizes(asked)
    /\ b \in Seq(Bundles) /\ Len(b) = K
    /\ \A i \in 1..K : asked.creds[i].digits /\ b[i] = Bundle(asked, i)

Calls ==
    /\ pc \in PCs /\ path \in {"native", "wasm"} /\ code \in {"none", "ok", "err"}
    /\ calls \in 0..MaxCalls /\ trapped \subseteq 1..calls
    /\ pc # "idle" => calls \in 1..MaxCalls
    /\ pc = "idle" => asked = Nobody
    /\ pc # "idle" => asked \in Requests
    /\ answer = Nobody \/ answer \in Errors \/ Abs!IsResponse(answer)

(* A buffer that is not the leftover of a trap belongs to the call under   *)
(* way, which is on the wasm path and has not yet freed it.                *)
Buffers ==
    /\ heap \subseteq (1..calls) \X {"request", "config"}
    /\ \A b \in heap : b[1] \in trapped \/ b[1] = calls
    /\ (\E b \in heap : b[1] \notin trapped)
         => path = "wasm" /\ pc \in {"alloc", "enter", "emit", "read", "free"}
    /\ pc \in {"alloc", "read", "free"} => path = "wasm"
    /\ pc # "idle" => calls \notin trapped

(* The stream holds a prefix of the request's bundles. *)
Stream ==
    /\ out \in Seq(Bundles)
    /\ pc # "emit" => out = <<>>
    /\ pc = "emit" =>
         /\ Synthesizes(asked) /\ Len(out) <= K
         /\ \A i \in 1..Len(out) : asked.creds[i].digits /\ out[i] = Bundle(asked, i)

(* What the host has read, or is about to, is about the request under way. *)
Results ==
    /\ lastOutput \in Seq(Bundles) /\ Len(lastOutput) \in {0, K}
    /\ lastError \in Errors \cup {Nobody}
    /\ pc \in {"read", "free"} => code \in {"ok", "err"}
    /\ pc = "prove" => code = "ok"
    /\ pc = "respond" => code = "err"
    /\ pc \in {"idle", "alloc", "enter", "emit"} => code = "none"
    /\ pc \in {"idle", "alloc", "enter", "emit", "read"} => held = <<>>
    /\ pc = "read" /\ code = "ok" => Whole(lastOutput)
    /\ pc = "read" /\ code = "err" => lastError = ErrorOf(asked)
    /\ pc \in {"free", "prove"} /\ code = "ok" => Whole(held)
    /\ pc \in {"free", "respond"} /\ code = "err" => held = ErrorOf(asked)
    /\ code = "err" => ~Provable(asked)

(* A proof is in its bundle's place, and nothing was passed over without a *)
(* failure.                                                                *)
Tasks ==
    /\ task \in [1..K -> TaskStates]
    /\ proofs \in [1..K -> Bundles \cup {Nobody}]
    /\ pc # "prove" => task = NoTask /\ proofs = NoProof
    /\ Cardinality(Running) <= Workers
    /\ \A i \in 1..K :
         /\ task[i] = "proved" => proofs[i] = held[i] /\ Satisfied(held[i])
         /\ task[i] = "failed" => ~Satisfied(held[i])
         /\ task[i] = "passed over" => Failed # {}

IInv == Calls /\ Buffers /\ Stream /\ Results /\ Tasks

-----------------------------------------------------------------------------
(* Lemmas about requests and bundles.                                      *)

(* What the stages check is what the circuit binds.                        *)
LEMMA BundleBinds ==
  ASSUME NEW r \in Requests, Synthesizes(r), NEW i \in 1..K, r.creds[i].digits
  PROVE  Bindings(Bundle(r, i))
<1> DEFINE b == Bundle(r, i)
<1>1. K \in Nat /\ AudLimit \in Nat /\ K <= AudLimit
  BY RequestAssumption DEF Synthesizes
<1>2. /\ b.cred = r.creds[i] /\ b.selection = Selection(r) /\ b.slot = Selection(r)[i]
      /\ b.anchor = r.anchor /\ b.random = r.random /\ b.aud_list = AudList(r)
  BY DEF Bundle
<1>3. /\ b.public.hanchor = r.anchor /\ b.public.h_a = <<Selection(r), r.random>>
      /\ b.public.root = r.root /\ b.public.h_sign_user_op = r.op
      /\ b.public.jwt_exp = r.creds[i].exp /\ b.public.h_aud_list = AudList(r)
      /\ b.public.partial_rhs = <<Selection(r), Selection(r)[i], r.creds[i].id, r.random>>
      /\ b.public.lhs = <<Selection(r), r.anchor, r.random>>
  BY DEF Bundle
<1>4. Leaf(r.creds[i]) \in r.root /\ r.creds[i].nonce = <<r.op, r.random>> /\ r.random # 0
  BY DEF Synthesizes, Validates, Bound
<1>5. \E j \in 1..AudLimit : AudList(r)[j] = r.creds[i].id.aud
  <2>1. i \in 1..AudLimit /\ i <= K
    BY <1>1
  <2>. QED  BY <2>1 DEF AudList
<1> HIDE DEF b
<1>6. Bindings(b)
  BY <1>2, <1>3, <1>4, <1>5 DEF Bindings
<1>. QED  BY <1>6 DEF b

(* A caller who holds what it takes gets past every stage, and one whose   *)
(* bundles all satisfy the circuit holds what it takes.                    *)
LEMMA ProvableMeans ==
  ASSUME NEW r \in Requests
  PROVE  Provable(r) <=> /\ Synthesizes(r)
                         /\ \A i \in 1..K : r.creds[i].digits /\ Satisfied(Bundle(r, i))
<1>1. Synthesizes(r) =
        (/\ Len(r.creds) = K /\ K <= AudLimit
         /\ \E s \in [1..K -> Slots] :
               /\ \A i, j \in 1..K : i < j => s[i] < s[j]
               /\ \A i \in 1..K : r.anchor[s[i]] = r.creds[i].id
         /\ r.random # 0
         /\ \A i \in 1..K :
               LET c == r.creds[i] IN
               /\ c.decodes
               /\ c.nonce = <<r.op, r.random>> /\ <<c.id.iss, c.key>> \in r.root)
  BY DEF Synthesizes, Decodes, Selections, Validates, Leaf, Bound
<1>2. ASSUME Synthesizes(r), NEW i \in 1..K, r.creds[i].digits
      PROVE  Satisfied(Bundle(r, i)) <=>
               r.creds[i].signed /\ r.creds[i].fits /\ r.creds[i].spans
  <2>1. Bundle(r, i).cred = r.creds[i]
    BY DEF Bundle
  <2>2. /\ r.creds[i].signed \in BOOLEAN /\ r.creds[i].fits \in BOOLEAN
        /\ r.creds[i].spans \in BOOLEAN
    <3>1. r.creds \in Seq(Credential) /\ Len(r.creds) = K
      BY <1>2, <1>1, RequestAssumption DEF Request
    <3>2. r.creds[i] \in Credential
      BY <3>1
    <3>. QED  BY <3>2 DEF Credential
  <2>. QED  BY <1>2, <2>1, <2>2, BundleBinds DEF Satisfied
<1>. QED  BY <1>1, <1>2 DEF Provable

-----------------------------------------------------------------------------
(* Every step preserves the invariant.                                     *)

LEMMA InitHolds == Init => IInv
<1> SUFFICES ASSUME Init PROVE IInv
  OBVIOUS
<1>1. Cardinality(Running) = 0
  <2>1. Running = {}
    BY DEF Init, Running, NoTask
  <2>. QED  BY <2>1, FS_EmptySet
<1>2. Tasks
  BY <1>1, PipelineAssumption DEF Init, Tasks, NoTask, NoProof, TaskStates
<1>3. Calls /\ Buffers /\ Stream
  BY PipelineAssumption DEF Init, Calls, Buffers, Stream, PCs
<1>4. Results
  BY DEF Init, Results
<1>. QED  BY <1>2, <1>3, <1>4 DEF IInv

LEMMA RunningIsFinite == RequestAssumption => IsFiniteSet(Running)
<1> SUFFICES ASSUME RequestAssumption PROVE IsFiniteSet(Running)
  OBVIOUS
<1>1. IsFiniteSet(1..K)
  BY FS_Interval DEF RequestAssumption
<1>. QED  BY <1>1, FS_Subset DEF Running

LEMMA RunningShrinks ==
  ASSUME IInv, Running' \subseteq Running
  PROVE  Cardinality(Running') <= Workers
<1>1. IsFiniteSet(Running)
  BY RunningIsFinite, RequestAssumption
<1>2. Cardinality(Running') <= Cardinality(Running) /\ IsFiniteSet(Running')
  BY <1>1, FS_Subset
<1>3. Cardinality(Running) \in Nat /\ Cardinality(Running') \in Nat
  BY <1>1, <1>2, FS_CardinalityType
<1>4. Cardinality(Running) <= Workers
  BY DEF IInv, Tasks
<1>. QED  BY <1>2, <1>3, <1>4, PipelineAssumption

LEMMA SubmitStep ==
  ASSUME IInv, NEW r \in Requests, NEW p \in {"native", "wasm"}, Submit(r, p)
  PROVE  IInv'
<1> USE DEF IInv
<1>1. Calls'
  BY PipelineAssumption DEF Calls, Submit, PCs, instance
<1>2. Buffers'
  BY PipelineAssumption DEF Calls, Buffers, Submit, instance
<1>3. Stream'
  BY DEF Stream, Submit
<1>4. Tasks'
  <2>1. Cardinality(Running') <= Workers
    BY DEF Tasks, Submit, pool, Running
  <2>. QED  BY <2>1 DEF Tasks, Submit, pool, Failed, NoTask, NoProof
<1>5. Results'
  BY DEF Results, Submit, instance, Calls
<1>. QED  BY <1>1, <1>2, <1>3, <1>4, <1>5

LEMMA AllocStep ==
  ASSUME IInv, NEW kind \in {"request", "config"}, Alloc(kind)
  PROVE  IInv'
<1> USE DEF IInv
<1>1. Calls'
  BY DEF Calls, Alloc, PCs, request
<1>2. Buffers'
  BY DEF Calls, Buffers, Alloc, request
<1>3. Stream' /\ Tasks'
  BY DEF Stream, Tasks, Alloc, request, pool, Running, Failed
<1>4. Results'
  BY DEF Results, Alloc, request
<1>. QED  BY <1>1, <1>2, <1>3, <1>4

LEMMA FailStep ==
  ASSUME IInv, pc \in {"enter", "emit"}, ~Provable(asked), Fail
  PROVE  IInv'
<1> USE DEF IInv
<1>1. Calls'
  BY DEF Calls, Fail, PCs, request
<1>2. Buffers'
  BY DEF Calls, Buffers, Fail, request
<1>3. Stream' /\ Tasks'
  <2>1. <<>> \in Seq(Bundles)
    OBVIOUS
  <2>2. Stream'
    BY <2>1 DEF Stream, Fail
  <2>3. Cardinality(Running') <= Workers
    BY DEF Tasks, Fail, pool, Running
  <2>4. Tasks'
    BY <2>3 DEF Tasks, Fail, pool, NoTask, NoProof
  <2>. QED  BY <2>2, <2>4
<1>4. Results'
  <2>1. ErrorOf(asked) \in Errors
    BY DEF Calls, Errors
  <2>. QED  BY <2>1 DEF Results, Fail, request
<1>. QED  BY <1>1, <1>2, <1>3, <1>4

LEMMA EnterStep ==
  ASSUME IInv, Enter
  PROVE  IInv'
<1>1. CASE ~Synthesizes(asked) /\ Fail
  <2>1. pc = "enter" /\ asked \in Requests
    BY DEF Enter, IInv, Calls
  <2>2. ~Provable(asked)
    BY <1>1, <2>1, ProvableMeans
  <2>. QED  BY <1>1, <2>1, <2>2, FailStep
<1>2. CASE ~(~Synthesizes(asked) /\ Fail)
  <2> USE DEF IInv
  <2>1. /\ Synthesizes(asked) /\ pc = "enter" /\ pc' = "emit"
        /\ UNCHANGED <<request, instance, out, code, held, pool>>
    BY <1>2 DEF Enter
  <2>2. Calls' /\ Buffers'
    BY <2>1 DEF Calls, Buffers, PCs, request, instance
  <2>3. Stream' /\ Tasks'
    <3>1. Stream'
      BY <2>1, RequestAssumption DEF Stream, request
    <3>2. Cardinality(Running') <= Workers
      BY <2>1 DEF Tasks, pool, Running
    <3>. QED  BY <2>1, <3>1, <3>2 DEF Tasks, pool, Failed, NoTask, NoProof
  <2>4. Results'
    BY <2>1 DEF Results, request, instance
  <2>. QED  BY <2>2, <2>3, <2>4
<1>. QED  BY <1>1, <1>2

LEMMA EmitStep ==
  ASSUME IInv, Emit
  PROVE  IInv'
<1> DEFINE i == Len(out) + 1
<1>0. /\ pc = "emit" /\ i \in 1..K /\ asked \in Requests /\ Synthesizes(asked)
      /\ out \in Seq(Bundles)
  BY RequestAssumption DEF Emit, IInv, Calls, Stream
<1>1. CASE ~asked.creds[i].digits /\ Fail
  <2>1. ~Provable(asked)
    BY <1>0, <1>1, ProvableMeans
  <2>. QED  BY <1>0, <1>1, <2>1, FailStep
<1>2. CASE ~(~asked.creds[i].digits /\ Fail)
  <2> USE DEF IInv
  <2>1. /\ asked.creds[i].digits /\ out' = Append(out, Bundle(asked, i))
        /\ UNCHANGED <<request, pc, instance, code, held, pool>>
    BY <1>2 DEF Emit
  <2>2. Calls' /\ Buffers'
    BY <2>1 DEF Calls, Buffers, PCs, request, instance
  <2>3. Tasks'
    BY <2>1 DEF Tasks, request, pool, Running, Failed
  <2>4. Results'
    BY <1>0, <2>1 DEF Results, request, instance
  <2>5. Stream'
    <3>1. Bundle(asked, i) \in Bundles
      BY <1>0 DEF Bundles
    <3>2. /\ out' \in Seq(Bundles) /\ Len(out') = i
          /\ \A j \in 1..i : out'[j] = IF j = i THEN Bundle(asked, i) ELSE out[j]
      BY <1>0, <2>1, <3>1
    <3>3. asked' = asked /\ pc' = "emit"
      BY <1>0, <2>1 DEF request
    <3>4. \A j \in 1..Len(out) : asked.creds[j].digits /\ out[j] = Bundle(asked, j)
      BY <1>0 DEF Stream
    <3>5. \A j \in 1..i : asked.creds[j].digits /\ out'[j] = Bundle(asked, j)
      BY <1>0, <2>1, <3>2, <3>4
    <3> HIDE DEF i
    <3>. QED  BY <1>0, <3>2, <3>3, <3>5 DEF Stream
  <2>. QED  BY <2>2, <2>3, <2>4, <2>5
<1>. QED  BY <1>1, <1>2

LEMMA ReturnStep ==
  ASSUME IInv, Return
  PROVE  IInv'
<1> USE DEF IInv
<1>1. Whole(out) /\ pc = "emit" /\ held = <<>>
  BY DEF Return, Stream, Results, Whole
<1>2. Calls' /\ Buffers'
  BY DEF Calls, Buffers, PCs, Return, request
<1>3. Stream' /\ Tasks'
  <2>1. <<>> \in Seq(Bundles)
    OBVIOUS
  <2>2. Stream'
    BY <2>1 DEF Stream, Return
  <2>3. Cardinality(Running') <= Workers
    BY DEF Tasks, Return, pool, Running
  <2>4. Tasks'
    BY <1>1, <2>3 DEF Tasks, Return, pool, NoTask
  <2>. QED  BY <2>2, <2>4
<1>4. Results'
  BY <1>1 DEF Results, Return, request, Whole
<1>. QED  BY <1>2, <1>3, <1>4

LEMMA ReadBackStep ==
  ASSUME IInv, ReadBack
  PROVE  IInv'
<1> USE DEF IInv
<1>1. Calls' /\ Buffers'
  BY DEF Calls, Buffers, PCs, ReadBack, request, instance
<1>2. Stream' /\ Tasks'
  BY DEF Stream, Tasks, ReadBack, request, pool, Running, Failed, NoTask
<1>3. Results'
  BY DEF Results, ReadBack, request, instance, Whole
<1>. QED  BY <1>1, <1>2, <1>3

LEMMA FreeStep ==
  ASSUME IInv, NEW kind \in {"request", "config"}, Free(kind)
  PROVE  IInv'
<1> USE DEF IInv
<1>1. Calls'
  BY DEF Calls, Free, PCs, request
<1>2. Buffers'
  BY DEF Calls, Buffers, Free, request
<1>3. Stream' /\ Tasks'
  BY DEF Stream, Tasks, Free, request, pool, Running, Failed, NoTask
<1>4. Results'
  BY DEF Results, Free, request, Whole
<1>. QED  BY <1>1, <1>2, <1>3, <1>4

LEMMA TakeStep ==
  ASSUME IInv, NEW i \in 1..K, Take(i)
  PROVE  IInv'
<1> USE DEF IInv
<1>1. Calls' /\ Buffers' /\ Stream'
  BY DEF Calls, Buffers, Stream, PCs, Take, request, instance
<1>2. Results'
  BY DEF Results, Take, request, instance, Whole
<1>3. Cardinality(Running') <= Workers
  <2>1. i \notin Running /\ Running' = Running \cup {i}
    BY DEF Take, Running, Tasks
  <2>2. IsFiniteSet(Running)
    BY RunningIsFinite, RequestAssumption
  <2>3. Cardinality(Running') = Cardinality(Running) + 1 /\ Cardinality(Running) \in Nat
    BY <2>1, <2>2, FS_AddElement, FS_CardinalityType
  <2>. QED  BY <2>3, PipelineAssumption DEF Take
<1>4. Tasks'
  BY <1>3 DEF Tasks, Take, TaskStates, Failed
<1>. QED  BY <1>1, <1>2, <1>4

LEMMA ProvenStep ==
  ASSUME IInv, NEW i \in 1..K, Proven(i)
  PROVE  IInv'
<1> USE DEF IInv
<1>1. Calls' /\ Buffers' /\ Stream'
  BY DEF Calls, Buffers, Stream, PCs, Proven, request, instance
<1>2. Results'
  BY DEF Results, Proven, request, instance, Whole
<1>3. pc = "prove" /\ held[i] \in Bundles
  <2>1. pc = "prove"
    BY DEF Proven, Tasks, NoTask
  <2>. QED  BY <2>1 DEF Results, Whole
<1>4. Cardinality(Running') <= Workers
  BY RunningShrinks DEF Proven, Running, Tasks
<1>5. Tasks'
  BY <1>3, <1>4 DEF Tasks, Proven, TaskStates, Failed
<1>. QED  BY <1>1, <1>2, <1>5

LEMMA RejectedStep ==
  ASSUME IInv, NEW i \in 1..K, Rejected(i)
  PROVE  IInv'
<1> USE DEF IInv
<1>1. Calls' /\ Buffers' /\ Stream'
  BY DEF Calls, Buffers, Stream, PCs, Rejected, request, instance
<1>2. Results'
  BY DEF Results, Rejected, request, instance, Whole
<1>3. pc = "prove"
  BY DEF Rejected, Tasks, NoTask
<1>4. Cardinality(Running') <= Workers
  BY RunningShrinks DEF Rejected, Running, Tasks
<1>5. Tasks'
  BY <1>3, <1>4 DEF Tasks, Rejected, TaskStates, Failed
<1>. QED  BY <1>1, <1>2, <1>5

LEMMA PassOverStep ==
  ASSUME IInv, NEW i \in 1..K, PassOver(i)
  PROVE  IInv'
<1> USE DEF IInv
<1>1. Calls' /\ Buffers' /\ Stream'
  BY DEF Calls, Buffers, Stream, PCs, PassOver, request, instance
<1>2. Results'
  BY DEF Results, PassOver, request, instance, Whole
<1>3. pc = "prove"
  BY DEF PassOver, Tasks, NoTask, Failed
<1>4. Cardinality(Running') <= Workers
  BY RunningShrinks DEF PassOver, Running, Tasks
<1>5. Failed' = Failed
  BY DEF PassOver, Failed, Tasks
<1>6. Tasks'
  BY <1>3, <1>4, <1>5 DEF Tasks, PassOver, TaskStates, Failed
<1>. QED  BY <1>1, <1>2, <1>6

(* A call that ends leaves nothing of itself but its answer and, if it     *)
(* trapped, its buffers.                                                   *)
LEMMA AnswerStep ==
  ASSUME IInv, NEW resp, AnswerWith(resp), asked # Nobody,
         resp \in Errors \/ Abs!IsResponse(resp),
         \/ trapped' = trapped /\ pc \in {"prove", "respond"}
         \/ trapped' = trapped \cup {calls}
  PROVE  IInv'
<1> USE DEF IInv
<1>1. pc # "idle"
  BY DEF Calls
<1>2. Calls'
  <2>1. answer' \in Errors \/ Abs!IsResponse(answer')
    BY DEF AnswerWith
  <2>2. trapped \subseteq 1..calls /\ calls \in 1..MaxCalls /\ calls \in 1..calls
    BY <1>1 DEF Calls
  <2>3. trapped' \subseteq 1..calls
    BY <2>2
  <2>. QED  BY <2>1, <2>2, <2>3 DEF Calls, AnswerWith, PCs, Abs!IsResponse
<1>3. Buffers'
  BY <1>1 DEF Calls, Buffers, AnswerWith
<1>4. Stream' /\ Results'
  <2>1. <<>> \in Seq(Bundles)
    OBVIOUS
  <2>. QED  BY <2>1 DEF Stream, Results, AnswerWith
<1>5. Tasks'
  <2>1. Running' = {}
    BY DEF AnswerWith, NoTask, Running
  <2>2. Cardinality(Running') <= Workers
    BY <2>1, FS_EmptySet, PipelineAssumption
  <2>. QED  BY <2>2 DEF Tasks, AnswerWith, NoTask, NoProof, TaskStates, Failed
<1>. QED  BY <1>2, <1>3, <1>4, <1>5

(* What each way of answering answers.                                     *)
LEMMA CollectAnswers ==
  ASSUME IInv, Collect
  PROVE  /\ asked \in Requests /\ pc = "prove"
         /\ Provable(asked) => /\ AnswerWith(ResponseOf(proofs))
                               /\ \A i \in 1..K : /\ proofs[i] = Bundle(asked, i)
                                                  /\ Satisfied(proofs[i])
         /\ ~Provable(asked) => AnswerWith(ErrorOf(asked))
<1>1. /\ asked \in Requests /\ pc = "prove" /\ Synthesizes(asked)
      /\ \A i \in 1..K : asked.creds[i].digits /\ held[i] = Bundle(asked, i)
  BY DEF Collect, IInv, Calls, Results, Whole
<1>2. CASE Failed = {}
  <2>1. \A i \in 1..K : task[i] = "proved"
    BY <1>2 DEF Collect, IInv, Tasks, TaskStates, Failed
  <2>2. \A i \in 1..K : proofs[i] = Bundle(asked, i) /\ Satisfied(proofs[i])
    BY <1>1, <2>1 DEF IInv, Tasks
  <2>3. Provable(asked)
    BY <1>1, <2>2, ProvableMeans
  <2>. QED  BY <1>1, <1>2, <2>2, <2>3 DEF Collect
<1>3. CASE Failed # {}
  <2>1. PICK i \in 1..K : task[i] = "failed"
    BY <1>3 DEF Failed
  <2>2. ~Satisfied(Bundle(asked, i))
    BY <1>1, <2>1 DEF IInv, Tasks
  <2>3. ~Provable(asked)
    BY <1>1, <2>2, ProvableMeans
  <2>. QED  BY <1>1, <1>3, <2>3 DEF Collect
<1>. QED  BY <1>2, <1>3

LEMMA RespondAnswers ==
  ASSUME IInv, Respond
  PROVE  /\ asked \in Requests /\ pc = "respond"
         /\ ~Provable(asked) /\ AnswerWith(ErrorOf(asked))
  BY DEF Respond, IInv, Calls, Results

LEMMA TrapAnswers ==
  ASSUME IInv, Trap
  PROVE  /\ asked \in Requests /\ calls \notin trapped
         /\ trapped' = trapped \cup {calls} /\ AnswerWith(ErrorOf(asked))
  BY DEF Trap, IInv, Calls, Buffers

LEMMA NextStep ==
  ASSUME IInv, [Next]_vars
  PROVE  IInv'
<1>1. ASSUME NEW r \in Requests, NEW p \in {"native", "wasm"}, Submit(r, p)
      PROVE  IInv'
  BY <1>1, SubmitStep
<1>2. ASSUME NEW kind \in {"request", "config"}, Alloc(kind) \/ Free(kind)
      PROVE  IInv'
  BY <1>2, AllocStep, FreeStep
<1>3. ASSUME Enter \/ Emit \/ Return \/ ReadBack
      PROVE  IInv'
  BY <1>3, EnterStep, EmitStep, ReturnStep, ReadBackStep
<1>4. ASSUME NEW i \in 1..K, Take(i) \/ Proven(i) \/ Rejected(i) \/ PassOver(i)
      PROVE  IInv'
  BY <1>4, TakeStep, ProvenStep, RejectedStep, PassOverStep
<1>5. ASSUME Collect \/ Respond \/ Trap
      PROVE  IInv'
  <2>1. /\ Abs!IsResponse(ResponseOf(proofs))
        /\ asked \in Requests => ErrorOf(asked) \in Errors /\ asked # Nobody
    BY PipelineAssumption DEF Abs!IsResponse, ResponseOf, Errors
  <2>2. CASE Collect
    <3>1. trapped' = trapped
      BY <2>2 DEF Collect
    <3>. QED  BY <2>1, <2>2, <3>1, CollectAnswers, AnswerStep
  <2>3. CASE Respond
    <3>1. trapped' = trapped
      BY <2>3 DEF Respond
    <3>. QED  BY <2>1, <2>3, <3>1, RespondAnswers, AnswerStep
  <2>4. CASE Trap
    BY <2>1, <2>4, TrapAnswers, AnswerStep
  <2>. QED  BY <1>5, <2>2, <2>3, <2>4
<1>6. CASE UNCHANGED vars
  <2>1. Cardinality(Running') <= Workers
    BY <1>6 DEF IInv, Tasks, vars, pool, Running
  <2>2. Tasks'
    BY <1>6, <2>1 DEF IInv, Tasks, vars, pool, Failed, NoTask, NoProof
  <2>3. Calls' /\ Buffers' /\ Stream'
    BY <1>6 DEF IInv, Calls, Buffers, Stream, vars, request, instance
  <2>4. Results'
    BY <1>6 DEF IInv, Results, Whole, vars, request, instance
  <2>. QED  BY <2>2, <2>3, <2>4 DEF IInv
<1>. QED  BY <1>1, <1>2, <1>3, <1>4, <1>5, <1>6 DEF Next, Work

(* The strengthened invariant holds of every behaviour of the pipeline.    *)
THEOREM Invariant == Spec => []IInv
BY InitHolds, NextStep, PTL DEF Spec

-----------------------------------------------------------------------------
(* TypeOK holds for any requests, batch, pool and number of calls: no      *)
(* variable leaves its type and at most Workers proofs run at once.        *)
THEOREM TypeCorrect == Spec => []TypeOK
<1>1. ASSUME IInv PROVE TypeOK
  <2> USE <1>1 DEF IInv
  <2>1. (asked = Nobody) = (pc = "idle")
    BY PipelineAssumption DEF Calls
  <2>2. Len(out) <= K /\ \A i \in 1..Len(out) : out[i] \in Bundles
    BY RequestAssumption DEF Stream
  <2>3. IF code = "err" /\ pc \in {"free", "respond"}
        THEN held \in Errors
        ELSE Len(held) \in {0, K} /\ \A i \in 1..Len(held) : held[i] \in Bundles
    <3>1. CASE code = "err" /\ pc \in {"free", "respond"}
      BY <3>1 DEF Results, Calls, Errors
    <3>2. CASE pc \in {"free", "prove"} /\ code = "ok"
      BY <3>2 DEF Results, Whole
    <3>3. CASE held = <<>> /\ pc \notin {"free", "respond"}
      BY <3>3
    <3>4. \/ code = "err" /\ pc \in {"free", "respond"}
          \/ pc \in {"free", "prove"} /\ code = "ok"
          \/ held = <<>> /\ pc \notin {"free", "respond"}
      BY DEF Results, Calls, PCs
    <3>. QED  BY <3>1, <3>2, <3>3, <3>4
  <2>4. \A i \in 1..K : proofs[i] = Nobody \/ proofs[i] \in Bundles
    BY DEF Tasks
  <2>. QED  BY <2>1, <2>2, <2>3, <2>4
            DEF TypeOK, Calls, PCs, Buffers, Results, Tasks, TaskStates
<1>. QED  BY <1>1, Invariant, PTL

(* NoBufferLeaks for any number of calls on one instance: between calls    *)
(* the witness generator holds only the buffers of calls that trapped.     *)
THEOREM BuffersFreed == Spec => []NoBufferLeaks
<1>1. IInv => NoBufferLeaks
  BY DEF IInv, Buffers, NoBufferLeaks
<1>. QED  BY <1>1, Invariant, PTL

(* ProofWorkIsEarned for any requests: in every bundle the pool works on   *)
(* the inputs are each other's, so the circuit can refuse it only for its  *)
(* signature, its length or the span of a claim.                           *)
THEOREM WorkEarned == Spec => []ProofWorkIsEarned
<1>1. ASSUME IInv PROVE ProofWorkIsEarned
  <2> SUFFICES ASSUME NEW i \in 1..K, task[i] = "running"
               PROVE  Bindings(held[i])
    BY DEF ProofWorkIsEarned, Running
  <2>1. pc = "prove"
    BY <1>1 DEF IInv, Tasks, NoTask
  <2>2. /\ asked \in Requests /\ Synthesizes(asked)
        /\ asked.creds[i].digits /\ held[i] = Bundle(asked, i)
    BY <1>1, <2>1 DEF IInv, Calls, Results, Whole
  <2>. QED  BY <2>2, BundleBinds
<1>. QED  BY <1>1, Invariant, PTL

-----------------------------------------------------------------------------
(* What a caller sees of a step: a call begins, ends, or is under way.     *)
LEMMA SeenOrNot ==
  ASSUME IInv, [Next]_vars
  PROVE  \/ \E r \in Requests : asked = Nobody /\ asked' = r /\ answer' = Nobody
         \/ asked \in Requests /\ (Collect \/ Respond \/ Trap)
         \/ UNCHANGED <<asked, answer>>
<1>1. ASSUME NEW r \in Requests, NEW p \in {"native", "wasm"}, Submit(r, p)
      PROVE  asked = Nobody /\ asked' = r /\ answer' = Nobody
  BY <1>1 DEF Submit, IInv, Calls
<1>2. ASSUME NEW kind \in {"request", "config"}, Alloc(kind) \/ Free(kind)
      PROVE  UNCHANGED <<asked, answer>>
  BY <1>2 DEF Alloc, Free, request
<1>3. ASSUME Enter \/ Emit \/ Return \/ ReadBack
      PROVE  UNCHANGED <<asked, answer>>
  BY <1>3 DEF Enter, Emit, Return, ReadBack, Fail, request
<1>4. ASSUME NEW i \in 1..K, Take(i) \/ Proven(i) \/ Rejected(i) \/ PassOver(i)
      PROVE  UNCHANGED <<asked, answer>>
  BY <1>4 DEF Take, Proven, Rejected, PassOver, request
<1>5. CASE Collect \/ Respond \/ Trap
  BY <1>5, CollectAnswers, RespondAnswers, TrapAnswers
<1>6. CASE UNCHANGED vars
  BY <1>6 DEF vars, request
<1>. QED  BY <1>1, <1>2, <1>3, <1>4, <1>5, <1>6 DEF Next, Work

LEMMA Endings ==
  ASSUME IInv, asked \in Requests, Collect \/ Respond \/ Trap
  PROVE  /\ asked # Nobody /\ asked' = Nobody
         /\ \/ /\ Provable(asked) /\ answer' = ResponseOf(proofs)
               /\ \A i \in 1..K : proofs[i] = Bundle(asked, i) /\ Satisfied(proofs[i])
            \/ ~Provable(asked) /\ answer' = ErrorOf(asked)
            \/ trapped' # trapped /\ answer' = ErrorOf(asked)
<1>1. asked # Nobody
  BY PipelineAssumption
<1>2. CASE Collect
  BY <1>1, <1>2, CollectAnswers DEF AnswerWith
<1>3. CASE Respond
  BY <1>1, <1>3, RespondAnswers DEF AnswerWith
<1>4. CASE Trap
  <2>1. trapped' # trapped
    BY <1>4, TrapAnswers
  <2>. QED  BY <1>1, <1>4, <2>1, TrapAnswers DEF AnswerWith
<1>. QED  BY <1>2, <1>3, <1>4

(* AnsweredAsDeserved for any requests: a call that does not trap answers  *)
(* with proofs exactly those who hold what the circuit requires.           *)
THEOREM Deserved == Spec => AnsweredAsDeserved
<1>1. ASSUME IInv, [Next]_vars, asked # Nobody, asked' = Nobody, trapped' = trapped
      PROVE  Abs!IsResponse(answer') <=> Provable(asked)
  <2>1. Abs!IsResponse(ResponseOf(proofs)) /\ ~Abs!IsResponse(ErrorOf(asked))
    BY DEF Abs!IsResponse, ResponseOf, ErrorOf
  <2>2. \/ Provable(asked) /\ answer' = ResponseOf(proofs)
        \/ ~Provable(asked) /\ answer' = ErrorOf(asked)
    <3>1. asked \in Requests /\ (Collect \/ Respond \/ Trap)
      BY <1>1, SeenOrNot
    <3>. QED  BY <1>1, <3>1, Endings
  <2>3. CASE Provable(asked) /\ answer' = ResponseOf(proofs)
    BY <2>1, <2>3
  <2>4. CASE ~Provable(asked) /\ answer' = ErrorOf(asked)
    BY <2>1, <2>4
  <2>. QED  BY <2>2, <2>3, <2>4
<1>. QED  BY <1>1, Invariant, PTL DEF Spec, AnsweredAsDeserved

(* The safety part of ImplementsProveService, for any requests: every step *)
(* of the pipeline is a step its callers are promised or one they do not   *)
(* see. What an answer says of the i-th credential is in its i-th place,   *)
(* and the public inputs shared by the batch are those of every proof.     *)
THEOREM Refines == Spec => Abs!Init /\ [][Abs!Next]_Abs!vars
<1>1. Init => Abs!Init
  BY DEF Init, Abs!Init
<1>2. ASSUME IInv, [Next]_vars, asked \in Requests, Provable(asked),
             \A i \in 1..K : proofs[i] = Bundle(asked, i) /\ Satisfied(proofs[i])
      PROVE  Abs!AnswersTo(asked, ResponseOf(proofs))
  <2>1. 1 \in 1..K
    BY RequestAssumption
  <2>2. ResponseOf(proofs).proofs = proofs /\ Abs!IsResponse(ResponseOf(proofs))
    BY DEF ResponseOf, Abs!IsResponse
  <2>3. ASSUME NEW i \in 1..K
        PROVE  /\ proofs[i].cred = asked.creds[i]
               /\ proofs[i].public.h_sign_user_op = asked.op
               /\ proofs[i].public = PublicInputsFor(ResponseOf(proofs), i)
    <3>1. proofs[i] = Bundle(asked, i) /\ proofs[1] = Bundle(asked, 1)
      BY <1>2, <2>1
    <3>. QED  BY <3>1 DEF Bundle, PublicInputsFor, ResponseOf
  <2>4. ASSUME NEW i \in 1..K
        PROVE  /\ Abs!Satisfied(proofs[i]) = Satisfied(proofs[i])
               /\ Abs!PublicInputsFor(ResponseOf(proofs), i) =
                    PublicInputsFor(ResponseOf(proofs), i)
    BY DEF Abs!Satisfied, Satisfied, Abs!Bindings, Bindings, Abs!Leaf, Leaf,
           Abs!PublicInputsFor, PublicInputsFor
  <2>. QED  BY <1>2, <2>2, <2>3, <2>4 DEF Abs!AnswersTo
<1>3. ASSUME IInv, [Next]_vars
      PROVE  [Abs!Next]_Abs!vars
  <2>1. CASE \E r \in Requests : asked = Nobody /\ asked' = r /\ answer' = Nobody
    BY <2>1 DEF Abs!Next, Abs!Ask
  <2>2. CASE asked \in Requests /\ (Collect \/ Respond \/ Trap)
    <3>1. answer' = ErrorOf(asked) \/ Abs!AnswersTo(asked, answer')
      BY <1>2, <1>3, <2>2, Endings
    <3>2. asked # Nobody /\ asked' = Nobody
      BY <1>3, <2>2, Endings
    <3>. QED  BY <3>1, <3>2 DEF Abs!Next, Abs!Answer, Abs!ErrorOf, ErrorOf
  <2>3. CASE UNCHANGED <<asked, answer>>
    BY <2>3 DEF Abs!vars
  <2>. QED  BY <1>3, <2>1, <2>2, <2>3, SeenOrNot
<1>. QED  BY <1>1, <1>3, Invariant, PTL DEF Spec

-----------------------------------------------------------------------------
(* Texts and paddings.                                                     *)

\* A quoted text is two bytes longer and ends with the quote.
LEMMA QuotedText ==
    ASSUME NEW t \in Texts
    PROVE  /\ Quoted(t) \in Texts
           /\ Len(Quoted(t)) = Len(t) + 2
           /\ \A i \in 1..Len(t) : Quoted(t)[i + 1] = t[i]
           /\ Quoted(t)[Len(t) + 2] = Quote
  <1>. DEFINE open == <<Quote>> \o t
  <1>1. <<Quote>> \in Texts /\ Len(<<Quote>>) = 1 /\ <<Quote>>[1] = Quote
    BY DEF Texts, Quote
  <1>2. open \in Texts /\ Len(open) = Len(t) + 1 /\ \A i \in 1..Len(t) : open[i + 1] = t[i]
    <2>1. Len(t) \in Nat
      BY DEF Texts
    <2>2. open \in Texts /\ Len(open) = Len(t) + 1
      BY <1>1, <2>1, ConcatProperties DEF Texts
    <2>3. ASSUME NEW i \in 1..Len(t) PROVE open[i + 1] = t[i]
      <3>1. i + 1 \in 1..(Len(<<Quote>>) + Len(t)) /\ i + 1 > Len(<<Quote>>)
        BY <1>1, <2>1
      <3>2. open[i + 1] = t[(i + 1) - Len(<<Quote>>)]
        BY <1>1, <3>1, ConcatProperties DEF Texts
      <3>. QED
        BY <1>1, <3>2
    <2>. QED
      BY <2>2, <2>3
  <1>. HIDE DEF open
  <1>3. Quoted(t) = open \o <<Quote>>
    BY DEF Quoted, open
  <1>4. Len(open) \in Nat /\ Len(t) \in Nat
    BY <1>2 DEF Texts
  <1>5. open \o <<Quote>> \in Texts /\ Len(open \o <<Quote>>) = Len(t) + 2
    BY <1>1, <1>2, <1>4, ConcatProperties DEF Texts
  <1>6. \A i \in 1..Len(t) : (open \o <<Quote>>)[i + 1] = open[i + 1]
    BY <1>1, <1>2, <1>4, ConcatProperties DEF Texts
  <1>7. (open \o <<Quote>>)[Len(t) + 2] = <<Quote>>[1]
    <2>1. (Len(t) + 2) - Len(open) = 1 /\ Len(t) + 2 \in 1..(Len(open) + Len(<<Quote>>)) /\ Len(t) + 2 > Len(open)
      BY <1>1, <1>2, <1>4
    <2>. QED
      BY <1>1, <1>2, <2>1, ConcatProperties DEF Texts
  <1>. QED
    BY <1>1, <1>2, <1>3, <1>5, <1>6, <1>7

\* Two texts that fit are the same if they are padded to the same bytes: the longer one
\* has its closing quote where the shorter one has a zero.
LEMMA PaddingUnambiguous ==
    ASSUME NEW t \in Texts, NEW u \in Texts, NEW width \in Nat,
           Fits(Quoted(t), width), Fits(Quoted(u), width),
           PaddedTo(Quoted(t), width) = PaddedTo(Quoted(u), width)
    PROVE  t = u
  <1>1. /\ Len(t) \in Nat /\ Len(u) \in Nat /\ Len(t) + 2 <= width /\ Len(u) + 2 <= width
        /\ Len(Quoted(t)) = Len(t) + 2 /\ Len(Quoted(u)) = Len(u) + 2
    BY QuotedText DEF Fits, Texts
  <1>2. \A i \in 1..width :
            (IF i <= Len(t) + 2 THEN Quoted(t)[i] ELSE 0) = (IF i <= Len(u) + 2 THEN Quoted(u)[i] ELSE 0)
    <2>. TAKE i \in 1..width
    <2>1. PaddedTo(Quoted(t), width)[i] = IF i <= Len(t) + 2 THEN Quoted(t)[i] ELSE 0
      BY <1>1 DEF PaddedTo
    <2>2. PaddedTo(Quoted(u), width)[i] = IF i <= Len(u) + 2 THEN Quoted(u)[i] ELSE 0
      BY <1>1 DEF PaddedTo
    <2>. QED
      BY <2>1, <2>2
  <1>3. ~(Len(t) < Len(u))
    <2>1. Len(u) + 2 \in 1..width
      BY <1>1
    <2>2. Len(t) < Len(u) => Quoted(u)[Len(u) + 2] = 0
      BY <1>1, <1>2, <2>1
    <2>. QED
      BY <2>2, QuotedText DEF Quote
  <1>4. ~(Len(u) < Len(t))
    <2>1. Len(t) + 2 \in 1..width
      BY <1>1
    <2>2. Len(u) < Len(t) => Quoted(t)[Len(t) + 2] = 0
      BY <1>1, <1>2, <2>1
    <2>. QED
      BY <2>2, QuotedText DEF Quote
  <1>5. Len(t) = Len(u)
    BY <1>1, <1>3, <1>4
  <1>6. ASSUME NEW i \in 1..Len(t) PROVE t[i] = u[i]
    <2>1. i + 1 \in 1..width /\ i + 1 <= Len(t) + 2 /\ i + 1 <= Len(u) + 2
      BY <1>1, <1>5
    <2>2. Quoted(t)[i + 1] = Quoted(u)[i + 1]
      BY <1>2, <2>1
    <2>. QED
      BY <1>5, <2>2, QuotedText
  <1>. QED
    BY <1>5, <1>6, SeqEqual DEF Texts

-----------------------------------------------------------------------------
(* Widths.                                                                 *)

\* A padded text is a text and has the width it was padded to.
LEMMA PaddedLength ==
    ASSUME NEW t \in Texts, NEW width \in Nat
    PROVE  PaddedTo(t, width) \in Texts /\ Len(PaddedTo(t, width)) = width
  <1>1. ASSUME NEW i \in 1..width, i <= Len(t) PROVE t[i] \in 0..255
    <2>1. Len(t) \in Nat /\ t \in [1..Len(t) -> 0..255]
      BY LenProperties DEF Texts
    <2>2. i \in 1..Len(t)
      BY <1>1, <2>1
    <2>. QED
      BY <2>1, <2>2
  <1>2. PaddedTo(t, width) \in [1..width -> 0..255]
    BY <1>1 DEF PaddedTo
  <1>. QED
    BY <1>2 DEF Texts

\* Multiples of the limb width add up to one.
LEMMA MultiplesAdd ==
    ASSUME NEW w \in Nat \ {0}, NEW a \in Nat, NEW b \in Nat, a % w = 0, b % w = 0
    PROVE  (a + b) % w = 0
  <1>1. a = w * (a \div w) /\ b = w * (b \div w) /\ a \div w \in Int /\ b \div w \in Int
    OBVIOUS
  <1>2. PICK p \in Int, q \in Int : a = w * p /\ b = w * q
    BY <1>1
  <1>3. a + b = w * (p + q) /\ p + q \in Int
    BY <1>2
  <1>4. ASSUME NEW r \in Int PROVE (w * r) % w = 0
    OBVIOUS
  <1>. QED
    BY <1>3, <1>4

\* Texts of whole limbs, one after the other, are one of whole limbs.
LEMMA WholeConcat ==
    ASSUME NEW s \in Texts, NEW t \in Texts, WholeLimbs(s), WholeLimbs(t)
    PROVE  s \o t \in Texts /\ WholeLimbs(s \o t)
  <1>1. Len(s) \in Nat /\ Len(t) \in Nat
    BY LenProperties DEF Texts
  <1>2. s \o t \in Texts /\ Len(s \o t) = Len(s) + Len(t)
    BY ConcatProperties DEF Texts
  <1>. QED
    BY <1>1, <1>2, PackAssumption, MultiplesAdd DEF WholeLimbs

-----------------------------------------------------------------------------
(* The invariant: what each stage may rely on.                             *)

Registered == {"registered", "submitted", "derived", "shared", "checked", "proved", "refused", "overlong"}

StageOf(batch) ==
    [i \in 1..audConfig.limit |->
        IF i <= Len(batch) THEN Absorb(Limbs(ClaimBytes(batch[i].aud))) ELSE ForbiddenHash]

AudInv ==
    /\ audAt \in AudStages \ {"idle"} /\ audConfig \in HostConfigs
    /\ audListed \in Lists(Audiences, ListSizes \cup {0})
    /\ audBatch \in Lists(Identities, BatchSizes \cup {0})
    /\ audAt \in Registered \cup {"published"} => ValidConfig(audConfig)
    /\ audAt \in Registered => HostAccepts(audListed)
    /\ audAt \in {"submitted", "derived", "shared", "checked", "proved"} => Len(audBatch) = audConfig.k
    /\ audAt \in {"derived", "shared", "checked", "proved"} =>
         \A i \in DOMAIN audBatch : ClaimsFit(audBatch[i])
    /\ audAt \in {"shared", "checked", "proved"} =>
         Len(audBatch) <= audConfig.limit /\ audStage = StageOf(audBatch)
    /\ audAt \in {"checked", "proved"} => HostAccepts(BatchAudiences)
    /\ NoDrift
    /\ WellSizedBatchesServed

\* A list of a set's elements is a sequence over it.
LEMMA ListIsSeq ==
    ASSUME NEW S, NEW sizes, sizes \subseteq Nat, NEW list \in Lists(S, sizes)
    PROVE  /\ list \in Seq(S) /\ Len(list) \in Nat /\ DOMAIN list = 1..Len(list)
           /\ \A i \in 1..Len(list) : list[i] \in S
  BY DEF Lists

\* What an accepted configuration's numbers are.
LEMMA ConfigTypes ==
    ASSUME NEW c \in HostConfigs
    PROVE  /\ c.k \in Nat /\ c.limit \in Nat /\ c.forbidden \in Texts
           /\ c.max["aud"] \in Nat /\ c.max["iss"] \in Nat /\ c.max["sub"] \in Nat
           /\ ValidConfig(c) =>
                c.max["aud"] % PackWidth = 0 /\ c.max["iss"] % PackWidth = 0 /\ c.max["sub"] % PackWidth = 0
  BY ConfigsAssumption DEF ValidConfig, Claims

\* Under an accepted configuration a claim is padded to whole limbs, and the claims one
\* after the other are an identity's bytes.
LEMMA PartsWhole ==
    ASSUME audConfig \in HostConfigs, ValidConfig(audConfig), NEW c \in Identities
    PROVE  \A name \in Claims :
             /\ PaddedTo(Quoted(c[name]), audConfig.max[name]) \in Texts
             /\ Len(PaddedTo(Quoted(c[name]), audConfig.max[name])) = audConfig.max[name]
             /\ WholeLimbs(PaddedTo(Quoted(c[name]), audConfig.max[name]))
  <1>. TAKE name \in Claims
  <1>1. audConfig.max[name] \in Nat /\ audConfig.max[name] % PackWidth = 0
    BY ConfigsAssumption DEF ValidConfig
  <1>2. Quoted(c[name]) \in Texts
    BY TextsAssumption, QuotedText
  <1>. QED
    BY <1>1, <1>2, PaddedLength DEF WholeLimbs

\* Under an accepted configuration no identity is packed with a rest.
LEMMA JoinedWhole ==
    ASSUME audConfig \in HostConfigs, ValidConfig(audConfig), NEW c \in Identities
    PROVE  WholeLimbs(Joined(c))
  <1>. DEFINE a == PaddedTo(Quoted(c.aud), MaxAud)
              i == PaddedTo(Quoted(c.iss), audConfig.max["iss"])
              s == PaddedTo(Quoted(c.sub), audConfig.max["sub"])
  <1>2. /\ a \in Texts /\ WholeLimbs(a) /\ i \in Texts /\ WholeLimbs(i)
        /\ s \in Texts /\ WholeLimbs(s)
    BY PartsWhole DEF Claims, MaxAud
  <1>3. Joined(c) = (a \o i) \o s
    BY DEF Joined
  <1>. HIDE DEF a, i, s
  <1>4. a \o i \in Texts /\ WholeLimbs(a \o i)
    BY <1>2, WholeConcat
  <1>. QED
    BY <1>2, <1>3, <1>4, WholeConcat

\* The audiences of a batch, as the cross-check reads them.
LEMMA BatchList ==
    ASSUME AudInv
    PROVE  /\ BatchAudiences \in Lists(Audiences, BatchSizes \cup {0})
           /\ Len(audBatch) \in Nat /\ DOMAIN audBatch = 1..Len(audBatch)
           /\ Len(BatchAudiences) = Len(audBatch)
           /\ \A i \in 1..Len(audBatch) : audBatch[i] \in Identities /\ BatchAudiences[i] = audBatch[i].aud
  <1>1. BatchSizes \cup {0} \subseteq Nat
    BY SizesAssumption
  <1>2. PICK n \in BatchSizes \cup {0} : audBatch \in [1..n -> Identities]
    BY DEF AudInv, Lists
  <1>3. n \in Nat /\ DOMAIN audBatch = 1..n /\ Len(audBatch) = n
    BY <1>1, <1>2
  <1>4. BatchAudiences \in [1..n -> Audiences]
    BY <1>2, <1>3 DEF BatchAudiences, Audiences
  <1>5. Len(BatchAudiences) = n
    BY <1>3, <1>4
  <1>. QED
    BY <1>2, <1>3, <1>4, <1>5 DEF Lists, BatchAudiences

\* The prover's list and the host helper's are the same.
LEMMA SameRecipe ==
    ASSUME AudInv
    PROVE  Absorb(StageOf(audBatch)) = HostListHash(BatchAudiences)
  <1>1. \A i \in 1..audConfig.limit :
            (IF i <= Len(audBatch) THEN Absorb(Limbs(ClaimBytes(audBatch[i].aud))) ELSE ForbiddenHash)
              = HostHash(Filled(BatchAudiences)[i])
    <2>. TAKE i \in 1..audConfig.limit
    <2>1. CASE i <= Len(audBatch)
      <3>1. i \in 1..Len(audBatch)
        BY <2>1, BatchList, ConfigTypes DEF AudInv
      <3>2. Filled(BatchAudiences)[i] = audBatch[i].aud
        BY <2>1, <3>1, BatchList DEF Filled
      <3>. QED
        BY <2>1, <3>2 DEF HostHash, ClaimBytes
    <2>2. CASE ~(i <= Len(audBatch))
      <3>1. Filled(BatchAudiences)[i] = audConfig.forbidden
        BY <2>2, BatchList DEF Filled
      <3>. QED
        BY <2>2, <3>1 DEF HostHash, ForbiddenHash, ForbiddenBytes
    <2>. QED
      BY <2>1, <2>2
  <1>. QED
    BY <1>1 DEF StageOf, HostListHash

-----------------------------------------------------------------------------
(* The invariant is kept.                                                  *)

\* A claim that a stage refuses is too long for its place.
LEMMA TooLong ==
    ASSUME NEW c \in Identities, ~ClaimsFit(c), audConfig \in HostConfigs
    PROVE  \E name \in Claims : Len(c[name]) + 2 > audConfig.max[name]
  <1>1. PICK name \in Claims : ~Fits(Quoted(c[name]), audConfig.max[name])
    BY DEF ClaimsFit
  <1>2. c[name] \in Texts /\ audConfig.max[name] \in Nat
    BY TextsAssumption, ConfigsAssumption
  <1>3. Len(c[name]) \in Nat /\ Len(Quoted(c[name])) = Len(c[name]) + 2
    BY <1>2, QuotedText, LenProperties DEF Texts
  <1>. QED
    BY <1>1, <1>2, <1>3 DEF Fits

\* Every start has the invariant.
LEMMA InitAudInv == AudInit => AudInv
  <1>. SUFFICES ASSUME AudInit PROVE AudInv
    OBVIOUS
  <1>1. \A S, sizes : <<>> \in Lists(S, sizes \cup {0})
    <2>. TAKE S, sizes
    <2>1. <<>> \in [1..0 -> S]
      OBVIOUS
    <2>. QED
      BY <2>1 DEF Lists
  <1>. QED
    BY <1>1 DEF AudInit, AudInv, AudStages, Registered, NoDrift, WellSizedBatchesServed, Overlong, Spans

\* generate_setup keeps it.
LEMMA SetupKeeps == ASSUME AudInv, GenerateSetup PROVE AudInv'
  BY DEF AudInv, GenerateSetup, AudStages, Registered, NoDrift, WellSizedBatchesServed

\* Registration keeps it: only a list that the host helper accepts is registered.
LEMMA RegisterKeeps == ASSUME AudInv, Register PROVE AudInv'
  <1>1. PICK list \in Lists(Audiences, ListSizes) :
          /\ audListed' = list
          /\ audAt' = IF HostAccepts(list) THEN "registered" ELSE "unregistered"
    BY DEF Register
  <1>2. audAt = "published" /\ UNCHANGED <<audConfig, audBatch, audStage>>
    BY DEF Register
  <1>3. list \in Lists(Audiences, ListSizes \cup {0})
    BY DEF Lists
  <1>4. HostAccepts(list)' <=> HostAccepts(list)
    BY <1>2 DEF HostAccepts, Filled, MaxAud
  <1>. QED
    BY <1>1, <1>2, <1>3 DEF AudInv, AudStages, Registered, NoDrift, WellSizedBatchesServed,
       HostAccepts, Filled, MaxAud

\* A request keeps it: a batch that is not of size k is refused.
LEMMA SubmitKeeps == ASSUME AudInv, SubmitBatch PROVE AudInv'
  <1>1. PICK batch \in Lists(Identities, BatchSizes) : audBatch' = batch
    BY DEF SubmitBatch
  <1>2. audAt = "registered" /\ audConfig' = audConfig /\ audListed' = audListed /\ audStage' = audStage
    BY DEF SubmitBatch
  <1>3. audBatch' \in Lists(Identities, BatchSizes \cup {0})
    BY <1>1 DEF Lists
  <1>4. HostAccepts(audListed)'
    BY <1>2 DEF AudInv, Registered, HostAccepts, Filled, MaxAud
  <1>5. ValidConfig(audConfig) /\ audListed \in Lists(Audiences, ListSizes \cup {0}) /\ audConfig \in HostConfigs
    BY <1>2 DEF AudInv, Registered
  <1>6. CASE ValidConfig(audConfig) /\ Len(audBatch') = audConfig.k
    <2>1. audAt' = "submitted"
      BY <1>6 DEF SubmitBatch
    <2>. QED
      BY <1>2, <1>3, <1>4, <1>5, <1>6, <2>1
      DEF AudInv, AudStages, Registered, NoDrift, WellSizedBatchesServed, Overlong, Spans
  <1>7. CASE ~(ValidConfig(audConfig) /\ Len(audBatch') = audConfig.k)
    <2>1. audAt' = "refused"
      BY <1>7 DEF SubmitBatch
    <2>2. WellSizedBatchesServed'
      BY <1>2, <1>5, <1>7, <2>1 DEF WellSizedBatchesServed
    <2>. QED
      BY <1>2, <1>3, <1>4, <1>5, <2>1, <2>2 DEF AudInv, AudStages, Registered, NoDrift
  <1>. QED
    BY <1>6, <1>7

\* A stage that only moves on.
LEMMA ToKeeps ==
    ASSUME AudInv, NEW at \in Registered, To(at), audAt \in Registered,
           at \in {"submitted", "derived", "shared", "checked", "proved"} => Len(audBatch) = audConfig.k,
           at \in {"derived", "shared", "checked", "proved"} =>
             \A i \in DOMAIN audBatch : ClaimsFit(audBatch[i]),
           at \in {"shared", "checked", "proved"} =>
             Len(audBatch) <= audConfig.limit /\ audStage = StageOf(audBatch),
           at \in {"checked", "proved"} => HostAccepts(BatchAudiences),
           at \in {"refused", "overlong"} => WellSizedBatchesServed'
    PROVE  AudInv'
  <1>1. audAt' = at /\ UNCHANGED <<audConfig, audListed, audBatch, audStage>>
    BY DEF To
  <1>2. /\ HostAccepts(audListed)' <=> HostAccepts(audListed)
        /\ HostAccepts(BatchAudiences)' <=> HostAccepts(BatchAudiences)
    BY <1>1 DEF HostAccepts, Filled, MaxAud, BatchAudiences
  <1>3. (\A i \in DOMAIN audBatch : ClaimsFit(audBatch[i]))' <=> \A i \in DOMAIN audBatch : ClaimsFit(audBatch[i])
    BY <1>1 DEF ClaimsFit
  <1>4. StageOf(audBatch)' = StageOf(audBatch)
    BY <1>1 DEF StageOf, ClaimBytes, ForbiddenHash, ForbiddenBytes, MaxAud
  <1>5. WellSizedBatchesServed'
    BY <1>1 DEF WellSizedBatchesServed, Registered
  <1>6. NoDrift' /\ audAt' \in AudStages \ {"idle"}
    BY <1>1 DEF NoDrift, Registered, AudStages
  <1>. QED
    BY <1>1, <1>2, <1>3, <1>4, <1>5, <1>6 DEF AudInv

\* DeriveIdentities keeps it: no identity is packed with a rest.
LEMMA DeriveKeeps == ASSUME AudInv, DeriveIdentities PROVE AudInv'
  <1>1. ValidConfig(audConfig) /\ audConfig \in HostConfigs /\ Len(audBatch) = audConfig.k
        /\ audAt = "submitted"
    BY DEF AudInv, DeriveIdentities, Registered
  <1>2. \A i \in DOMAIN audBatch : audBatch[i] \in Identities
    BY BatchList
  <1>3. CASE \E i \in DOMAIN audBatch : ~ClaimsFit(audBatch[i])
    <2>1. To("refused")
      BY <1>3 DEF DeriveIdentities
    <2>2. \E i \in DOMAIN audBatch, name \in Claims : Len(audBatch[i][name]) + 2 > audConfig.max[name]
      BY <1>1, <1>2, <1>3, TooLong
    <2>3. WellSizedBatchesServed'
      BY <2>1, <2>2 DEF To, WellSizedBatchesServed
    <2>. QED
      BY <1>1, <2>1, <2>3, ToKeeps DEF Registered
  <1>4. CASE ~\E i \in DOMAIN audBatch : ~ClaimsFit(audBatch[i])
    <2>1. \A i \in DOMAIN audBatch : WholeLimbs(Joined(audBatch[i]))
      BY <1>1, <1>2, JoinedWhole
    <2>2. To("derived")
      BY <1>4, <2>1 DEF DeriveIdentities
    <2>. QED
      BY <1>1, <1>4, <2>2, ToKeeps DEF Registered
  <1>. QED
    BY <1>3, <1>4

\* ShareAudiences keeps it: the placeholder is packed to whole limbs.
LEMMA ShareKeeps == ASSUME AudInv, ShareAudiences PROVE AudInv'
  <1>1. ValidConfig(audConfig) /\ audConfig \in HostConfigs /\ Len(audBatch) = audConfig.k
        /\ audAt = "derived" /\ \A i \in DOMAIN audBatch : ClaimsFit(audBatch[i])
    BY DEF AudInv, ShareAudiences, Registered
  <1>2. CASE Len(audBatch) > audConfig.limit /\ To("refused")
    <2>1. WellSizedBatchesServed'
      BY <1>1, <1>2 DEF To, WellSizedBatchesServed
    <2>. QED
      BY <1>1, <1>2, <2>1, ToKeeps DEF Registered
  <1>3. CASE /\ Len(audBatch) <= audConfig.limit
             /\ audStage' = [i \in 1..audConfig.limit |->
                               IF i <= Len(audBatch) THEN Absorb(Limbs(ClaimBytes(audBatch[i].aud)))
                               ELSE ForbiddenHash]
             /\ audAt' = IF WholeLimbs(ForbiddenBytes) THEN "shared" ELSE "mispacked"
             /\ UNCHANGED <<audConfig, audListed, audBatch>>
    <2>1. WholeLimbs(ForbiddenBytes)
      <3>1. MaxAud \in Nat /\ MaxAud % PackWidth = 0 /\ audConfig.forbidden \in Texts
        BY <1>1, ConfigTypes DEF MaxAud
      <3>. QED
        BY <3>1, QuotedText, PaddedLength DEF WholeLimbs, ForbiddenBytes
    <2>2. audAt' = "shared"
      BY <1>3, <2>1
    <2>3. /\ HostAccepts(audListed)' <=> HostAccepts(audListed)
          /\ (\A i \in DOMAIN audBatch : ClaimsFit(audBatch[i]))'
      BY <1>1, <1>3 DEF HostAccepts, Filled, MaxAud, ClaimsFit
    <2>4. audStage' = StageOf(audBatch)'
      BY <1>3 DEF StageOf, ClaimBytes, ForbiddenHash, ForbiddenBytes, MaxAud
    <2>. QED
      BY <1>1, <1>3, <2>2, <2>3, <2>4
      DEF AudInv, AudStages, Registered, NoDrift, WellSizedBatchesServed, Overlong, Spans
  <1>. QED
    BY <1>2, <1>3 DEF ShareAudiences

\* The cross-check keeps it: what it refuses is the placeholder, and only in a list that is not full.
LEMMA CheckKeeps == ASSUME AudInv, CrossCheck PROVE AudInv'
  <1>1. ValidConfig(audConfig) /\ audConfig \in HostConfigs /\ Len(audBatch) = audConfig.k
        /\ audAt = "shared" /\ (\A i \in DOMAIN audBatch : ClaimsFit(audBatch[i]))
        /\ Len(audBatch) <= audConfig.limit /\ audStage = StageOf(audBatch)
    BY DEF AudInv, CrossCheck, Registered
  <1>2. CASE HostAccepts(BatchAudiences)
    <2>1. To("checked")
      BY <1>1, <1>2, SameRecipe DEF CrossCheck
    <2>. QED
      BY <1>1, <1>2, <2>1, ToKeeps DEF Registered
  <1>3. CASE ~HostAccepts(BatchAudiences)
    <2>1. To("refused")
      BY <1>3 DEF CrossCheck
    <2>2. PICK i \in 1..audConfig.limit : ~Fits(Quoted(Filled(BatchAudiences)[i]), MaxAud)
      BY <1>1, <1>3, BatchList DEF HostAccepts
    <2>3. audConfig.limit \in Nat /\ audConfig.k \in Nat /\ audConfig.forbidden \in Texts /\ MaxAud \in Nat
      BY <1>1, ConfigTypes DEF MaxAud
    <2>4. ~(i <= Len(audBatch))
      <3>1. SUFFICES ASSUME i <= Len(audBatch) PROVE FALSE
        OBVIOUS
      <3>2. i \in 1..Len(audBatch)
        BY <2>3, <3>1, BatchList
      <3>3. Filled(BatchAudiences)[i] = audBatch[i].aud
        BY <3>1, <3>2, BatchList DEF Filled
      <3>4. Fits(Quoted(audBatch[i].aud), MaxAud)
        BY <1>1, <3>2, BatchList DEF ClaimsFit, Claims, MaxAud
      <3>. QED
        BY <2>2, <3>3, <3>4
    <2>5. Filled(BatchAudiences)[i] = audConfig.forbidden
      BY <2>4, BatchList DEF Filled
    <2>6. Len(audConfig.forbidden) + 2 > MaxAud
      BY <2>2, <2>3, <2>5, QuotedText, LenProperties DEF Fits, Texts
    <2>7. audConfig.k < audConfig.limit
      BY <1>1, <2>3, <2>4, BatchList
    <2>8. WellSizedBatchesServed'
      BY <2>1, <2>6, <2>7 DEF To, WellSizedBatchesServed, MaxAud
    <2>. QED
      BY <1>1, <2>1, <2>8, ToKeeps DEF Registered
  <1>. QED
    BY <1>2, <1>3

\* The circuit keeps it: a credential's slot of the list is its own hash, and what it
\* refuses is a claim that is longer than its slice.
LEMMA ConstrainKeeps == ASSUME AudInv, ConstrainAudience PROVE AudInv'
  <1>1. audConfig \in HostConfigs /\ Len(audBatch) = audConfig.k
        /\ audAt = "checked" /\ (\A i \in DOMAIN audBatch : ClaimsFit(audBatch[i]))
        /\ Len(audBatch) <= audConfig.limit /\ audStage = StageOf(audBatch) /\ HostAccepts(BatchAudiences)
    BY DEF AudInv, ConstrainAudience, Registered
  <1>2. ASSUME NEW i \in DOMAIN audBatch
        PROVE  \E j \in DOMAIN audStage : audStage[j] = CircuitAudience(audBatch[i])
    <2>1. i \in 1..audConfig.limit /\ i <= Len(audBatch)
      BY <1>1, BatchList, ConfigTypes
    <2>2. i \in DOMAIN audStage /\ audStage[i] = CircuitAudience(audBatch[i])
      BY <1>1, <2>1 DEF StageOf, CircuitAudience
    <2>. QED
      BY <2>2
  <1>3. CASE Overlong
    <2>1. To("overlong")
      BY <1>3 DEF ConstrainAudience
    <2>2. WellSizedBatchesServed'
      BY <1>3, <2>1 DEF To, WellSizedBatchesServed, Overlong, Spans
    <2>. QED
      BY <1>1, <2>1, <2>2, ToKeeps DEF Registered
  <1>4. CASE ~Overlong
    <2>1. To("proved")
      BY <1>2, <1>4 DEF ConstrainAudience
    <2>. QED
      BY <1>1, <2>1, ToKeeps DEF Registered
  <1>. QED
    BY <1>3, <1>4

\* The invariant is inductive.
LEMMA AudInductive == AudSpec => []AudInv
  <1>1. AudInv /\ [AudNext]_audVars => AudInv'
    <2>. SUFFICES ASSUME AudInv, [AudNext]_audVars PROVE AudInv'
      OBVIOUS
    <2>1. CASE AudNext
      BY <2>1, SetupKeeps, RegisterKeeps, SubmitKeeps, DeriveKeeps, ShareKeeps, CheckKeeps, ConstrainKeeps
      DEF AudNext
    <2>2. CASE UNCHANGED audVars
      BY <2>2 DEF audVars, AudInv, HostAccepts, Filled, MaxAud, BatchAudiences, ClaimsFit, StageOf,
         ClaimBytes, ForbiddenHash, ForbiddenBytes, NoDrift, WellSizedBatchesServed, Overlong, Spans
    <2>. QED
      BY <2>1, <2>2
  <1>. QED
    BY <1>1, InitAudInv, PTL DEF AudSpec

-----------------------------------------------------------------------------
(* The theorems.                                                           *)

\* Whom a published bundle does not serve: only batches of the wrong size, claims that are
\* too long for the host or, as a whole, for the extractor, and the two cases that
\* CircuitConfig::validate leaves open.
THEOREM Served == AudSpec => []WellSizedBatchesServed
  <1>1. AudInv => WellSizedBatchesServed
    BY DEF AudInv
  <1>. QED
    BY <1>1, AudInductive, PTL

\* generate_audience_hashes, the prover, the cross-check and the circuit never disagree.
THEOREM RecipesAgree == AudSpec => []NoDrift
  <1>1. AudInv => NoDrift
    BY DEF AudInv
  <1>. QED
    BY <1>1, AudInductive, PTL

\* Limbs of equal length are digits to a base: what they spell is one text.
LimbsInjective ==
    \A b, c \in Texts : Len(b) = Len(c) /\ Limbs(b) = Limbs(c) => b = c

\* A slot of a list that is filled up holds a text.
LEMMA FilledText ==
    ASSUME audConfig \in HostConfigs, NEW sizes, sizes \subseteq Nat,
           NEW list \in Lists(Audiences, sizes), NEW i \in 1..audConfig.limit
    PROVE  Filled(list)[i] \in Texts
  <1>1. audConfig.limit \in Nat /\ audConfig.forbidden \in Texts
    BY ConfigTypes
  <1>2. Audiences \subseteq Texts
    BY TextsAssumption DEF Audiences, Claims
  <1>3. Len(list) \in Nat /\ \A j \in 1..Len(list) : list[j] \in Audiences
    BY ListIsSeq
  <1>4. CASE i <= Len(list)
    <2>1. list[i] \in Texts
      BY <1>1, <1>2, <1>3, <1>4
    <2>. QED
      BY <1>4, <2>1 DEF Filled
  <1>5. CASE ~(i <= Len(list))
    BY <1>1, <1>5 DEF Filled
  <1>. QED
    BY <1>4, <1>5

\* Audiences that fit and hash to the same are the same.
LEMMA SameHashSameText ==
    ASSUME LimbsInjective, MaxAud \in Nat, NEW t \in Texts, NEW u \in Texts,
           Fits(Quoted(t), MaxAud), Fits(Quoted(u), MaxAud), HostHash(t) = HostHash(u)
    PROVE  t = u
  <1>. DEFINE pt == PaddedTo(Quoted(t), MaxAud)
              pu == PaddedTo(Quoted(u), MaxAud)
  <1>1. Limbs(pt) = Limbs(pu)
    BY DEF HostHash, Absorb
  <1>2. pt \in Texts /\ pu \in Texts /\ Len(pt) = Len(pu)
    BY QuotedText, PaddedLength
  <1>3. pt = pu
    <2>. HIDE DEF pt, pu
    <2>. QED
      BY <1>1, <1>2 DEF LimbsInjective
  <1>. QED
    BY <1>3, PaddingUnambiguous

\* The bytes of a limb.
Chunk(bytes, j) ==
    SelectSeq([i \in 1..PackWidth |->
                 IF (j - 1) * PackWidth + i <= Len(bytes) THEN bytes[(j - 1) * PackWidth + i] ELSE -1],
              LAMBDA byte : byte >= 0)

\* A text of whole limbs has as many limbs as its width is a multiple of theirs.
LEMMA LimbCount ==
    ASSUME NEW w \in Nat \ {0}, NEW p \in Nat
    PROVE  (w * p + w - 1) \div w = p
  <1>. DEFINE x == w * p + w - 1
              q == x \div w
  <1>1. w * p \in Nat /\ x \in Nat /\ q \in Nat /\ w * q <= x /\ x < w * q + w
    OBVIOUS
  <1>2. w * (q + 1) = w * q + w /\ w * (p + 1) = w * p + w
    BY <1>1
  <1>3. ASSUME NEW c \in Nat, NEW d \in Nat, w * c < w * (d + 1) PROVE c <= d
    <2>1. SUFFICES ASSUME c >= d + 1 PROVE FALSE
      BY <1>3
    <2>2. PICK e \in Nat : c = d + 1 + e
      BY <2>1
    <2>3. w * c = w * (d + 1) + w * e /\ w * e \in Nat /\ w * (d + 1) \in Nat
      BY <2>2
    <2>. QED
      BY <1>3, <2>3
  <1>4. w * q < w * (p + 1)
    BY <1>1, <1>2
  <1>5. w * p < w * (q + 1)
    <2>1. w * p <= x
      BY <1>1
    <2>. HIDE DEF x, q
    <2>. QED
      BY <1>1, <1>2, <2>1
  <1>. HIDE DEF q
  <1>6. q <= p /\ p <= q
    BY <1>1, <1>3, <1>4, <1>5
  <1>7. q = p
    BY <1>1, <1>6
  <1>. QED
    BY <1>7 DEF q

\* What leaves no rest is a multiple.
LEMMA MultipleOf ==
    ASSUME NEW w \in Nat \ {0}, NEW a \in Nat, a % w = 0
    PROVE  \E p \in Nat : a = w * p
  <1>1. a = w * (a \div w) /\ a \div w \in Nat
    OBVIOUS
  <1>. QED
    BY <1>1

\* Products distribute and cancel.
LEMMA Distribute ==
    ASSUME NEW w \in Nat \ {0}, NEW p \in Nat, NEW q \in Nat, NEW r \in Nat,
           w * r = w * p + w * q
    PROVE  r = p + q
  <1>1. w * r = w * (p + q)
    OBVIOUS
  <1>. QED
    BY <1>1

\* The limbs of a text of whole limbs, chunk by chunk.
LEMMA WholeLimbsAre ==
    ASSUME NEW s \in Texts, WholeLimbs(s)
    PROVE  \E p \in Nat : Len(s) = PackWidth * p /\ Limbs(s) = [j \in 1..p |-> LimbOf(Chunk(s, j))]
  <1>1. Len(s) \in Nat /\ Len(s) % PackWidth = 0 /\ PackWidth \in Nat \ {0}
    BY LenProperties, PackAssumption DEF Texts, WholeLimbs
  <1>2. PICK p \in Nat : Len(s) = PackWidth * p
    BY <1>1, MultipleOf
  <1>3. (Len(s) + PackWidth - 1) \div PackWidth = p
    BY <1>1, <1>2, LimbCount
  <1>4. Limbs(s) = [j \in 1..p |-> LimbOf(Chunk(s, j))]
    BY <1>3 DEF Limbs, Chunk
  <1>. QED
    BY <1>2, <1>4

\* Claims packed apart are claims packed together.
LEMMA LimbsConcat ==
    ASSUME NEW s \in Texts, NEW t \in Texts, WholeLimbs(s), WholeLimbs(t)
    PROVE  Limbs(s \o t) = Limbs(s) \o Limbs(t)
  <1>1. PICK p \in Nat : Len(s) = PackWidth * p /\ Limbs(s) = [j \in 1..p |-> LimbOf(Chunk(s, j))]
    BY WholeLimbsAre
  <1>2. PICK q \in Nat : Len(t) = PackWidth * q /\ Limbs(t) = [j \in 1..q |-> LimbOf(Chunk(t, j))]
    BY WholeLimbsAre
  <1>3. s \o t \in Texts /\ WholeLimbs(s \o t)
    BY WholeConcat
  <1>4. PICK r \in Nat : /\ Len(s \o t) = PackWidth * r
                         /\ Limbs(s \o t) = [j \in 1..r |-> LimbOf(Chunk(s \o t, j))]
    BY <1>3, WholeLimbsAre
  <1>5. Len(s) \in Nat /\ Len(t) \in Nat /\ Len(s \o t) = Len(s) + Len(t) /\ PackWidth \in Nat \ {0}
    BY ConcatProperties, LenProperties, PackAssumption DEF Texts
  <1>6. r = p + q
    <2>1. PackWidth * r = PackWidth * p + PackWidth * q
      BY <1>1, <1>2, <1>4, <1>5
    <2>. QED
      BY <1>5, <2>1, Distribute
  <1>7. ASSUME NEW j \in 1..p PROVE Chunk(s \o t, j) = Chunk(s, j)
    <2>1. ASSUME NEW i \in 1..PackWidth
          PROVE  /\ (j - 1) * PackWidth + i \in 1..Len(s)
                 /\ (s \o t)[(j - 1) * PackWidth + i] = s[(j - 1) * PackWidth + i]
      <3>1. (j - 1) * PackWidth \in Nat /\ (j - 1) * PackWidth + PackWidth = j * PackWidth
        BY <1>5
      <3>2. PICK e \in Nat : p = j + e
        BY <1>7
      <3>3. Len(s) = j * PackWidth + e * PackWidth /\ e * PackWidth \in Nat
        BY <1>1, <1>5, <3>2
      <3>4. (j - 1) * PackWidth + i \in 1..Len(s)
        BY <1>5, <2>1, <3>1, <3>3
      <3>. QED
        BY <1>5, <3>4, ConcatProperties DEF Texts
    <2>2. ASSUME NEW i \in 1..PackWidth
          PROVE  (j - 1) * PackWidth + i <= Len(s) /\ (j - 1) * PackWidth + i <= Len(s \o t)
      BY <1>5, <2>1, <2>2
    <2>3. [i \in 1..PackWidth |->
              IF (j - 1) * PackWidth + i <= Len(s \o t) THEN (s \o t)[(j - 1) * PackWidth + i] ELSE -1]
        = [i \in 1..PackWidth |->
              IF (j - 1) * PackWidth + i <= Len(s) THEN s[(j - 1) * PackWidth + i] ELSE -1]
      BY <2>1, <2>2
    <2>. QED
      BY <2>3 DEF Chunk
  <1>8. ASSUME NEW j \in 1..q PROVE Chunk(s \o t, p + j) = Chunk(t, j)
    <2>1. ASSUME NEW i \in 1..PackWidth
          PROVE  /\ (p + j - 1) * PackWidth + i <= Len(s \o t)
                 /\ (j - 1) * PackWidth + i <= Len(t)
                 /\ (s \o t)[(p + j - 1) * PackWidth + i] = t[(j - 1) * PackWidth + i]
      <3>1. (j - 1) * PackWidth \in Nat /\ (j - 1) * PackWidth + PackWidth = j * PackWidth
        BY <1>5
      <3>2. PICK e \in Nat : q = j + e
        BY <1>8
      <3>3. Len(t) = j * PackWidth + e * PackWidth /\ e * PackWidth \in Nat
        BY <1>2, <1>5, <3>2
      <3>4. (j - 1) * PackWidth + i \in 1..Len(t)
        BY <1>5, <2>1, <3>1, <3>3
      <3>5. (p + j - 1) * PackWidth + i = Len(s) + ((j - 1) * PackWidth + i)
        BY <1>1, <1>5
      <3>6. Len(s) + ((j - 1) * PackWidth + i) \in 1..(Len(s) + Len(t))
            /\ Len(s) + ((j - 1) * PackWidth + i) > Len(s)
            /\ (Len(s) + ((j - 1) * PackWidth + i)) - Len(s) = (j - 1) * PackWidth + i
        BY <1>5, <3>4
      <3>7. (s \o t)[Len(s) + ((j - 1) * PackWidth + i)] = t[(j - 1) * PackWidth + i]
        BY <3>6, ConcatProperties DEF Texts
      <3>. QED
        BY <1>5, <3>4, <3>5, <3>6, <3>7
    <2>2. (p + j) - 1 = p + j - 1
      OBVIOUS
    <2>3. [i \in 1..PackWidth |->
              IF (p + j - 1) * PackWidth + i <= Len(s \o t) THEN (s \o t)[(p + j - 1) * PackWidth + i] ELSE -1]
        = [i \in 1..PackWidth |->
              IF (j - 1) * PackWidth + i <= Len(t) THEN t[(j - 1) * PackWidth + i] ELSE -1]
      BY <2>1
    <2>. QED
      BY <2>2, <2>3 DEF Chunk
  <1>. DEFINE ls == Limbs(s)
              lt == Limbs(t)
              lst == Limbs(s \o t)
              S == {ls[j] : j \in 1..p} \cup {lt[j] : j \in 1..q} \cup {lst[j] : j \in 1..r}
  <1>9. ls \in Seq(S) /\ lt \in Seq(S) /\ lst \in Seq(S) /\ Len(ls) = p /\ Len(lt) = q /\ Len(lst) = r
    <2>1. ls \in [1..p -> S] /\ lt \in [1..q -> S] /\ lst \in [1..r -> S]
      BY <1>1, <1>2, <1>4
    <2>. HIDE DEF ls, lt, lst, S
    <2>. QED
      BY <2>1
  <1>10. /\ \A j \in 1..p : lst[j] = ls[j]
         /\ \A j \in 1..q : lst[p + j] = lt[j]
    <2>1. ASSUME NEW j \in 1..p PROVE lst[j] = ls[j]
      BY <1>1, <1>4, <1>6, <1>7
    <2>2. ASSUME NEW j \in 1..q PROVE lst[p + j] = lt[j]
      <3>1. p + j \in 1..r
        BY <1>6
      <3>. QED
        BY <1>2, <1>4, <1>8, <3>1
    <2>. QED
      BY <2>1, <2>2
  <1>. HIDE DEF ls, lt, lst, S
  <1>11. ls \o lt \in Seq(S) /\ Len(ls \o lt) = r
    BY <1>6, <1>9, ConcatProperties
  <1>12. ASSUME NEW j \in 1..r PROVE lst[j] = (ls \o lt)[j]
    <2>1. CASE j <= p
      BY <1>6, <1>9, <1>10, <2>1, ConcatProperties
    <2>2. CASE ~(j <= p)
      <3>1. j - p \in 1..q /\ p + (j - p) = j
        BY <1>6, <2>2
      <3>2. (ls \o lt)[j] = lt[j - p]
        BY <1>6, <1>9, <2>2, ConcatProperties
      <3>. QED
        BY <1>10, <3>1, <3>2
    <2>. QED
      BY <2>1, <2>2
  <1>13. lst = ls \o lt
    BY <1>9, <1>11, <1>12, SeqEqual
  <1>. QED
    BY <1>13 DEF ls, lt, lst

\* Texts of the same widths, one after the other, can be told apart.
LEMMA ConcatInjective ==
    ASSUME NEW s \in Texts, NEW t \in Texts, NEW u \in Texts, NEW v \in Texts,
           Len(s) = Len(u), s \o t = u \o v
    PROVE  s = u /\ t = v
  <1>1. Len(s) \in Nat /\ Len(t) \in Nat /\ Len(v) \in Nat
    BY LenProperties DEF Texts
  <1>2. Len(s \o t) = Len(s) + Len(t) /\ Len(u \o v) = Len(u) + Len(v)
    BY ConcatProperties DEF Texts
  <1>3. Len(t) = Len(v)
    BY <1>1, <1>2
  <1>4. ASSUME NEW i \in 1..Len(s) PROVE s[i] = u[i]
    <2>1. (s \o t)[i] = s[i] /\ (u \o v)[i] = u[i]
      BY <1>1, <1>3, ConcatProperties DEF Texts
    <2>. QED
      BY <2>1
  <1>5. ASSUME NEW i \in 1..Len(t) PROVE t[i] = v[i]
    <2>1. Len(s) + i \in 1..(Len(s) + Len(t)) /\ Len(s) + i > Len(s) /\ (Len(s) + i) - Len(s) = i
      BY <1>1
    <2>2. (s \o t)[Len(s) + i] = t[i] /\ (u \o v)[Len(s) + i] = v[i]
      BY <1>1, <1>3, <2>1, ConcatProperties DEF Texts
    <2>. QED
      BY <2>2
  <1>. QED
    BY <1>3, <1>4, <1>5, SeqEqual DEF Texts

\* The circuit's identity of a credential is the host's.
LEMMA SameIdentity ==
    ASSUME audConfig \in HostConfigs, ValidConfig(audConfig), NEW c \in Identities
    PROVE  CircuitIdentity(c) = HostIdentity(c)
  <1>. DEFINE a == PaddedTo(Quoted(c.aud), MaxAud)
              i == PaddedTo(Quoted(c.iss), audConfig.max["iss"])
              s == PaddedTo(Quoted(c.sub), audConfig.max["sub"])
  <1>1. /\ a \in Texts /\ WholeLimbs(a) /\ i \in Texts /\ WholeLimbs(i)
        /\ s \in Texts /\ WholeLimbs(s)
    BY PartsWhole DEF Claims, MaxAud
  <1>2. CircuitIdentity(c) = Absorb((Limbs(a) \o Limbs(i)) \o Limbs(s))
    BY DEF CircuitIdentity, ClaimBytes
  <1>3. HostIdentity(c) = Absorb(Limbs((a \o i) \o s))
    BY DEF HostIdentity, Joined
  <1>. HIDE DEF a, i, s
  <1>4. a \o i \in Texts /\ WholeLimbs(a \o i)
    BY <1>1, WholeConcat
  <1>5. Limbs((a \o i) \o s) = Limbs(a \o i) \o Limbs(s)
    BY <1>1, <1>4, LimbsConcat
  <1>6. Limbs(a \o i) = Limbs(a) \o Limbs(i)
    BY <1>1, LimbsConcat
  <1>. QED
    BY <1>2, <1>3, <1>5, <1>6

\* Two texts, one after the other.
LEMMA TwoTogether ==
    ASSUME NEW s \in Texts, NEW t \in Texts
    PROVE  s \o t \in Texts /\ Len(s \o t) = Len(s) + Len(t)
  BY ConcatProperties DEF Texts

\* Three texts, one after the other.
LEMMA ThreeTogether ==
    ASSUME NEW s \in Texts, NEW t \in Texts, NEW r \in Texts
    PROVE  (s \o t) \o r \in Texts /\ Len((s \o t) \o r) = (Len(s) + Len(t)) + Len(r)
  <1>1. s \o t \in Texts /\ Len(s \o t) = Len(s) + Len(t)
    BY TwoTogether
  <1>2. (s \o t) \o r \in Texts /\ Len((s \o t) \o r) = Len(s \o t) + Len(r)
    BY <1>1, TwoTogether, Zenon
  <1>. QED
    BY <1>1, <1>2, Zenon

\* Identities that fit and hash to the same are the same.
LEMMA SameHashSameIdentity ==
    ASSUME LimbsInjective, audConfig \in HostConfigs, ValidConfig(audConfig),
           NEW c \in Identities, NEW d \in Identities, ClaimsFit(c), ClaimsFit(d),
           HostIdentity(c) = HostIdentity(d)
    PROVE  c = d
  <1>. DEFINE Part(e, name) == PaddedTo(Quoted(e[name]), audConfig.max[name])
  <1>1. ASSUME NEW e \in Identities
        PROVE  /\ Joined(e) = (Part(e, "aud") \o Part(e, "iss")) \o Part(e, "sub")
               /\ \A name \in Claims : Part(e, name) \in Texts /\ Len(Part(e, name)) = audConfig.max[name]
    BY PartsWhole DEF Joined, MaxAud
  <1>2. ASSUME NEW name \in Claims, Part(c, name) = Part(d, name) PROVE c[name] = d[name]
    <2>1. /\ Fits(Quoted(c[name]), audConfig.max[name]) /\ Fits(Quoted(d[name]), audConfig.max[name])
          /\ c[name] \in Texts /\ d[name] \in Texts /\ audConfig.max[name] \in Nat
      BY TextsAssumption, ConfigsAssumption DEF ClaimsFit
    <2>. QED
      BY <1>2, <2>1, PaddingUnambiguous
  <1>3. ASSUME NEW e \in Identities
        PROVE  /\ Joined(e) \in Texts
               /\ Len(Joined(e)) = (audConfig.max["aud"] + audConfig.max["iss"]) + audConfig.max["sub"]
    <2>1. /\ Part(e, "aud") \in Texts /\ Part(e, "iss") \in Texts /\ Part(e, "sub") \in Texts
          /\ Len(Part(e, "aud")) = audConfig.max["aud"] /\ Len(Part(e, "iss")) = audConfig.max["iss"]
          /\ Len(Part(e, "sub")) = audConfig.max["sub"]
      BY <1>1 DEF Claims
    <2>2. Joined(e) = (Part(e, "aud") \o Part(e, "iss")) \o Part(e, "sub")
      BY <1>1
    <2>. DEFINE a == Part(e, "aud")
                i == Part(e, "iss")
                s == Part(e, "sub")
    <2>3. /\ a \in Texts /\ i \in Texts /\ s \in Texts /\ Joined(e) = (a \o i) \o s
          /\ Len(a) = audConfig.max["aud"] /\ Len(i) = audConfig.max["iss"] /\ Len(s) = audConfig.max["sub"]
      BY <2>1, <2>2
    <2>. HIDE DEF a, i, s, Part
    <2>4. (a \o i) \o s \in Texts /\ Len((a \o i) \o s) = (Len(a) + Len(i)) + Len(s)
      BY <2>3, ThreeTogether
    <2>. QED
      BY <2>3, <2>4
  <1>4. Limbs(Joined(c)) = Limbs(Joined(d))
    BY DEF HostIdentity, Absorb
  <1>5. Joined(c) = Joined(d)
    <2>1. Joined(c) \in Texts /\ Joined(d) \in Texts /\ Len(Joined(c)) = Len(Joined(d))
      BY <1>3
    <2>. QED
      BY <1>4, <2>1 DEF LimbsInjective
  <1>6. /\ Part(c, "aud") \in Texts /\ Part(c, "iss") \in Texts /\ Part(c, "sub") \in Texts
        /\ Part(d, "aud") \in Texts /\ Part(d, "iss") \in Texts /\ Part(d, "sub") \in Texts
        /\ Len(Part(c, "aud")) = Len(Part(d, "aud")) /\ Len(Part(c, "iss")) = Len(Part(d, "iss"))
    BY <1>1 DEF Claims
  <1>7. (Part(c, "aud") \o Part(c, "iss")) \o Part(c, "sub")
          = (Part(d, "aud") \o Part(d, "iss")) \o Part(d, "sub")
    BY <1>1, <1>5
  <1>8. Part(c, "aud") = Part(d, "aud") /\ Part(c, "iss") = Part(d, "iss") /\ Part(c, "sub") = Part(d, "sub")
    <2>. DEFINE ca == Part(c, "aud")
                ci == Part(c, "iss")
                cs == Part(c, "sub")
                da == Part(d, "aud")
                di == Part(d, "iss")
                ds == Part(d, "sub")
    <2>1. /\ ca \in Texts /\ ci \in Texts /\ cs \in Texts /\ da \in Texts /\ di \in Texts /\ ds \in Texts
          /\ Len(ca) = Len(da) /\ Len(ci) = Len(di)
      BY <1>6
    <2>2. (ca \o ci) \o cs = (da \o di) \o ds
      BY <1>7
    <2>. HIDE DEF ca, ci, cs, da, di, ds, Part
    <2>3. ca \o ci \in Texts /\ da \o di \in Texts /\ Len(ca \o ci) = Len(da \o di)
      BY <2>1, TwoTogether
    <2>. DEFINE cai == ca \o ci
                dai == da \o di
    <2>4. cai \in Texts /\ dai \in Texts /\ Len(cai) = Len(dai) /\ cai \o cs = dai \o ds
      BY <2>2, <2>3
    <2>. HIDE DEF cai, dai
    <2>5. cai = dai /\ cs = ds
      BY <2>1, <2>4, ConcatInjective
    <2>6. ca \o ci = da \o di
      BY <2>5 DEF cai, dai
    <2>7. ca = da /\ ci = di
      BY <2>1, <2>6, ConcatInjective
    <2>. QED
      BY <2>5, <2>7 DEF ca, ci, cs, da, di, ds
  <1>9. c.aud = d.aud /\ c.iss = d.iss /\ c.sub = d.sub
    BY <1>2, <1>8 DEF Claims
  <1>10. c = [aud |-> c.aud, iss |-> c.iss, sub |-> c.sub] /\ d = [aud |-> d.aud, iss |-> d.iss, sub |-> d.sub]
    BY TextsAssumption
  <1>. QED
    BY <1>9, <1>10

\* A proved batch closes with the registered list exactly if the two lists are the same
\* texts after filling up, in the same order.
THEOREM ListsUnambiguous == ASSUME LimbsInjective PROVE AudSpec => []ListsMeanTexts
  <1>1. ASSUME AudInv PROVE ListsMeanTexts
    <2>. SUFFICES ASSUME audAt = "proved"
                  PROVE  Absorb(audStage) = HostListHash(audListed) <=> Filled(audListed) = Filled(BatchAudiences)
      BY DEF ListsMeanTexts
    <2>1. audStage = StageOf(audBatch) /\ HostAccepts(audListed) /\ HostAccepts(BatchAudiences)
          /\ audConfig \in HostConfigs
      BY <1>1 DEF AudInv, Registered
    <2>2. Absorb(audStage) = HostListHash(BatchAudiences)
      BY <1>1, <2>1, SameRecipe
    <2>3. Filled(audListed) = Filled(BatchAudiences) => Absorb(audStage) = HostListHash(audListed)
      BY <2>2 DEF HostListHash
    <2>4. ASSUME HostListHash(BatchAudiences) = HostListHash(audListed)
          PROVE  Filled(audListed) = Filled(BatchAudiences)
      <3>1. audConfig.limit \in Nat /\ MaxAud \in Nat
        BY <2>1, ConfigTypes DEF MaxAud
      <3>2. ASSUME NEW i \in 1..audConfig.limit
            PROVE  /\ Filled(audListed)[i] \in Texts
                   /\ Filled(BatchAudiences)[i] \in Texts
        <4>1. audListed \in Lists(Audiences, ListSizes \cup {0})
          BY <1>1 DEF AudInv
        <4>2. BatchAudiences \in Lists(Audiences, BatchSizes \cup {0})
          BY <1>1, BatchList
        <4>3. ListSizes \cup {0} \subseteq Nat /\ BatchSizes \cup {0} \subseteq Nat
          BY SizesAssumption
        <4>4. Filled(audListed)[i] \in Texts
          BY <2>1, <4>1, <4>3, FilledText, Zenon
        <4>5. Filled(BatchAudiences)[i] \in Texts
          BY <2>1, <4>2, <4>3, FilledText, Zenon
        <4>. QED
          BY <4>4, <4>5
      <3>3. ASSUME NEW i \in 1..audConfig.limit
            PROVE  Filled(audListed)[i] = Filled(BatchAudiences)[i]
        <4>1. HostHash(Filled(audListed)[i]) = HostHash(Filled(BatchAudiences)[i])
          BY <2>4 DEF HostListHash, Absorb
        <4>2. /\ Fits(Quoted(Filled(audListed)[i]), MaxAud)
              /\ Fits(Quoted(Filled(BatchAudiences)[i]), MaxAud)
          BY <2>1 DEF HostAccepts
        <4>. QED
          BY <3>1, <3>2, <4>1, <4>2, SameHashSameText
      <3>. QED
        BY <3>3 DEF Filled
    <2>. QED
      BY <2>2, <2>3, <2>4
  <1>. QED
    BY <1>1, AudInductive, PTL

\* The circuit's identity of a proved credential is the host's, and nobody else's.
THEOREM IdentitiesUnambiguous == ASSUME LimbsInjective PROVE AudSpec => []IdentitiesMeanTexts
  <1>1. ASSUME AudInv PROVE IdentitiesMeanTexts
    <2>. SUFFICES ASSUME audAt = "proved", NEW c \in Identities, NEW i \in DOMAIN audBatch, ClaimsFit(c)
                  PROVE  HostIdentity(c) = CircuitIdentity(audBatch[i]) <=> c = audBatch[i]
      BY DEF IdentitiesMeanTexts
    <2>1. /\ audConfig \in HostConfigs /\ ValidConfig(audConfig)
          /\ audBatch[i] \in Identities /\ ClaimsFit(audBatch[i])
      BY <1>1, BatchList DEF AudInv, Registered
    <2>2. CircuitIdentity(audBatch[i]) = HostIdentity(audBatch[i])
      BY <2>1, SameIdentity
    <2>. QED
      BY <2>1, <2>2, SameHashSameIdentity
  <1>. QED
    BY <1>1, AudInductive, PTL

\* The host helpers, the prover and the circuit mean the same by a list and by an
\* identity.
THEOREM ListsAgree == ASSUME LimbsInjective PROVE AudSpec => []AudienceListsAgree
  BY RecipesAgree, ListsUnambiguous, IdentitiesUnambiguous, PTL DEF AudienceListsAgree
=============================================================================
