--------------------------- MODULE ArtifactLoader ---------------------------
(***************************************************************************)
(* ArtifactSet::load_signed and load_unsigned (service/src/artifact/set.rs)*)
(* under a caller that reads manifest.json and, for a signed load, the     *)
(* published verifying key first.                                          *)
(*                                                                         *)
(* Each artifact is opened anew for every pass over it: pk, vk and pvk     *)
(* once to hash and once to parse, circuit.ar1cs a third time for its      *)
(* trailer.  Only config.json is read once.                                *)
(***************************************************************************)
EXTENDS BundleFiles

CONSTANT Loaders   \* callers that load the bundle

VARIABLES
  op,        \* per loader: what it does next
  lfile,     \* per loader: the artifact it is at
  man,       \* per loader: the manifest it was given
  verifier,  \* per loader: the verifying key it was given, None for an unsigned load
  parsed,    \* per loader: what it parsed of each artifact, None before
  wgen       \* per loader: the witness generator it picked up

loaderVars == <<op, lfile, man, verifier, parsed, wgen>>

Ops == {"idle", "key", "verify", "hash", "parse", "trailer", "wasm", "ok", "err"}

Loading(l) == op[l] \notin {"idle", "ok", "err"}

LoaderTypeOK ==
  /\ op \in [Loaders -> Ops]
  /\ lfile \in [Loaders -> Artifacts]
  /\ man \in [Loaders -> Manifests \union {None}]
  /\ verifier \in [Loaders -> Keys \union {None}]
  /\ parsed \in [Loaders -> [Artifacts -> Content \union {None}]]
  /\ wgen \in [Loaders -> {None, "partial", "whole"}]
  /\ \A l \in Loaders : op[l] \notin {"idle", "err"} => man[l] # None

Nothing == [f \in Artifacts |-> None]

LoaderInit ==
  /\ op = [l \in Loaders |-> "idle"]
  /\ lfile = [l \in Loaders |-> "ar1cs"]
  /\ man = [l \in Loaders |-> None]
  /\ verifier = [l \in Loaders |-> None]
  /\ parsed = [l \in Loaders |-> Nothing]
  /\ wgen = [l \in Loaders |-> None]

Proceed(l, o) == op' = [op EXCEPT ![l] = o]

-----------------------------------------------------------------------------
\* External: the caller reads manifest.json, and may load again later.
BeginLoad(l) ==
  /\ ~Loading(l)
  /\ manifest # None
  /\ man' = [man EXCEPT ![l] = manifest]
  /\ lfile' = [lfile EXCEPT ![l] = "ar1cs"]
  /\ verifier' = [verifier EXCEPT ![l] = None]
  /\ parsed' = [parsed EXCEPT ![l] = Nothing]
  /\ wgen' = [wgen EXCEPT ![l] = None]
  /\ \E signed \in BOOLEAN : Proceed(l, IF signed THEN "key" ELSE "hash")
  /\ UNCHANGED dirVars

\* External: the caller of load_signed reads the published key.
ReadKey(l) ==
  /\ op[l] = "key"
  /\ verifier' = [verifier EXCEPT ![l] = vkey]
  /\ Proceed(l, IF vkey = None THEN "err" ELSE "verify")
  /\ UNCHANGED <<dirVars, lfile, man, parsed, wgen>>

\* verify_manifest: SignatureMissing, or a signature under another key.
Verify(l) ==
  /\ op[l] = "verify"
  /\ Proceed(l, IF man[l].sig = verifier[l] THEN "hash" ELSE "err")
  /\ UNCHANGED <<dirVars, lfile, man, verifier, parsed, wgen>>

\* The order of load_artifacts_with_timing.
LoadedAfter ==
  [ar1cs |-> "pk", pk |-> "vk", vk |-> "pvk", pvk |-> "config", config |-> "sol"]

Advance(l) ==
  IF lfile[l] = "sol"
  THEN Proceed(l, "wasm") /\ UNCHANGED lfile
  ELSE Proceed(l, "hash") /\ lfile' = [lfile EXCEPT ![l] = LoadedAfter[lfile[l]]]

Matches(l, slot) == files[FileOf(slot)] = man[l].entry[slot]

\* Wrong: a second open without the first one's comparison.
HashUnchecked(l) ==
  /\ op[l] = "hash"
  /\ lfile[l] \in {"ar1cs", "pk", "vk", "pvk"}
  /\ Proceed(l, "parse")
  /\ UNCHANGED <<dirVars, lfile, man, verifier, parsed, wgen>>

\* sha256_file: the first open.
Hash(l) ==
  /\ op[l] = "hash"
  /\ lfile[l] \in {"ar1cs", "pk", "vk", "pvk"}
  /\ Matches(l, lfile[l])
  /\ Proceed(l, "parse")
  /\ UNCHANGED <<dirVars, lfile, man, verifier, parsed, wgen>>

\* The second open: what is parsed is what the file holds by then.
Parse(l) ==
  /\ op[l] = "parse"
  /\ files[lfile[l]] # None
  /\ parsed' = [parsed EXCEPT ![l][lfile[l]] = files[lfile[l]]]
  /\ IF lfile[l] = "ar1cs" THEN Proceed(l, "trailer") /\ UNCHANGED lfile ELSE Advance(l)
  /\ UNCHANGED <<dirVars, man, verifier, wgen>>

\* Wrong: trusting the parser's own check of the trailer.
TrailerUnchecked(l) ==
  /\ op[l] = "trailer"
  /\ Advance(l)
  /\ UNCHANGED <<dirVars, man, verifier, parsed, wgen>>

\* read_ar1cs_trailer: a third open, against manifest.ar1cs_blake3.
Trailer(l) ==
  /\ op[l] = "trailer"
  /\ Matches(l, "blake3")
  /\ Advance(l)
  /\ UNCHANGED <<dirVars, man, verifier, parsed, wgen>>

\* load_circuit_config hashes and parses the same bytes.
LoadConfig(l) ==
  /\ op[l] = "hash"
  /\ lfile[l] = "config"
  /\ Matches(l, "config")
  /\ parsed' = [parsed EXCEPT ![l]["config"] = files["config"]]
  /\ Advance(l)
  /\ UNCHANGED <<dirVars, man, verifier, wgen>>

\* verify_sha256: Groth16Verifier.sol is hashed and never parsed.
CheckSol(l) ==
  /\ op[l] = "hash"
  /\ lfile[l] = "sol"
  /\ Matches(l, "sol")
  /\ Advance(l)
  /\ UNCHANGED <<dirVars, man, verifier, parsed, wgen>>

\* A missing file or a hash that differs from the manifest's: HashMismatch, and what was
\* loaded so far is dropped.
Mismatch(l) ==
  /\ \/ op[l] = "hash" /\ ~Matches(l, lfile[l])
     \/ op[l] = "trailer" /\ ~Matches(l, "blake3")
  /\ Proceed(l, "err")
  /\ parsed' = [parsed EXCEPT ![l] = Nothing]
  /\ UNCHANGED <<dirVars, lfile, man, verifier, wgen>>

\* The optional witness generator is picked up as it is, unverified.
PickUpWasm(l) ==
  /\ op[l] = "wasm"
  /\ wgen' = [wgen EXCEPT ![l] = wasm]
  /\ Proceed(l, "ok")
  /\ UNCHANGED <<dirVars, lfile, man, verifier, parsed>>

LoaderStep(l) ==
  \/ ReadKey(l) \/ Verify(l) \/ Hash(l) \/ Parse(l) \/ Trailer(l) \/ LoadConfig(l)
  \/ CheckSol(l) \/ Mismatch(l) \/ PickUpWasm(l)
=============================================================================
