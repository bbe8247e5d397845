--------------------------- MODULE GenerateSetup ----------------------------
(***************************************************************************)
(* The generate_setup command (cli/src/bin/generate_setup.rs) with the     *)
(* trusted setup it calls (service/src/groth16/setup, service/src/crs.rs). *)
(*                                                                         *)
(* A run checks its command line, draws randomness, publishes the six      *)
(* artifacts one by one, reads every one of them back from the directory   *)
(* to hash it, copies the witness generator, signs, and publishes the      *)
(* manifest last.  There is no lock on the directory and no clean-up: a    *)
(* run that stops leaves what it has published.  Publishing one file is    *)
(* one step, which module AtomicWrite justifies; std::fs::copy of the      *)
(* witness generator is not atomic.                                        *)
(***************************************************************************)
EXTENDS BundleFiles, FiniteSets, Naturals

CONSTANTS
  Clis,        \* the command lines a run may be given
  MaxActive    \* how many runs may be under way at once; 1: the operator takes turns

ASSUME MaxActiveAssumption == MaxActive \in Nat

CliOptions ==
  [ptau : BOOLEAN,                            \* --ptau or --phase2-attestations
   seed : Seeds \union {None},                \* --rng-seed
   allowTestOnly : BOOLEAN,
   key : Keys \union {None, "malformed"},     \* --signing-key
   vkOut : BOOLEAN,                           \* --verifying-key-out
   epochOk : BOOLEAN,                         \* SOURCE_DATE_EPOCH is usable
   config : Configs \union {None},            \* None: --config cannot be loaded
   wasm : {None, "present", "missing"}]       \* the source of --witness-gen-wasm

ASSUME ClisAssumption == Clis \subseteq CliOptions /\ None \notin CliOptions

VARIABLES
  phase,   \* per run: where it is
  at,      \* per run: the file it publishes or hashes next
  cli,     \* per run: its command line
  key,     \* per run: the randomness setup() drew, None before
  draft    \* per run: the manifest entries it has computed

writerVars == <<phase, at, cli, key, draft>>

Phases == {"idle", "setup", "publish", "hash", "attach", "copy", "sign", "emit",
           "done", "rejected", "stopped"}
Resting == {"idle", "done", "rejected", "stopped"}

Active == {w \in Runs : phase[w] \notin Resting}

\* What main() rejects before setup().
Rejected(c) ==
  \/ c.ptau
  \/ c.seed # None /\ ~c.allowTestOnly
  \/ c.key = "malformed"
  \/ c.key = None /\ c.vkOut
  \/ ~c.epochOk
  \/ c.config = None

WriterTypeOK ==
  /\ phase \in [Runs -> Phases]
  /\ at \in [Runs -> Slots]
  /\ cli \in [Runs -> Clis \union {None}]
  /\ key \in [Runs -> Randomness \union {None}]
  /\ draft \in [Runs -> [Slots -> Content \union {None}]]
  /\ \A w \in Active : cli[w] # None /\ ~Rejected(cli[w])
  /\ \A w \in Active : phase[w] # "setup" => key[w] # None
  /\ \A w \in Runs : phase[w] = "publish" => at[w] # "blake3"

NoEntries == [s \in Slots |-> None]

WriterInit ==
  /\ phase = [w \in Runs |-> "idle"]
  /\ at = [w \in Runs |-> "pk"]
  /\ cli = [w \in Runs |-> None]
  /\ key = [w \in Runs |-> None]
  /\ draft = [w \in Runs |-> NoEntries]

Goto(w, p) == phase' = [phase EXCEPT ![w] = p]

\* The process ends; only the directory outlives it.
End(w, p) ==
  /\ Goto(w, p)
  /\ at' = [at EXCEPT ![w] = "pk"]
  /\ draft' = [draft EXCEPT ![w] = NoEntries]

-----------------------------------------------------------------------------
Start(w) ==
  /\ phase[w] = "idle"
  /\ Cardinality(Active) < MaxActive
  /\ \E c \in Clis :
       /\ cli' = [cli EXCEPT ![w] = c]
       /\ Goto(w, IF Rejected(c) THEN "rejected" ELSE "setup")
  /\ UNCHANGED <<dirVars, at, key, draft>>

\* pick_rng and Groth16::setup: OsRng draws afresh, a seed gives the same keys again.
Draw(w) == IF cli[w].seed = None THEN w ELSE cli[w].seed

\* Wrong: publishing the verifying key along with the check of the signing key.
SetupPublishingKey(w) ==
  /\ phase[w] = "setup"
  /\ vkey' = IF cli[w].vkOut THEN cli[w].key ELSE vkey
  /\ key' = [key EXCEPT ![w] = Draw(w)]
  /\ Goto(w, "publish")
  /\ at' = [at EXCEPT ![w] = "pk"]
  /\ UNCHANGED <<files, manifest, wasm, cli, draft>>

Setup(w) ==
  /\ phase[w] = "setup"
  /\ key' = [key EXCEPT ![w] = Draw(w)]
  /\ Goto(w, "publish")
  /\ at' = [at EXCEPT ![w] = "pk"]
  /\ UNCHANGED <<dirVars, cli, draft>>

\* persist_setup_output writes in this order.
PublishedAfter ==
  [pk |-> "vk", vk |-> "pvk", pvk |-> "ar1cs", ar1cs |-> "sol", sol |-> "config"]

\* Wrong: keeping an artifact that is already there.
PublishMissing(w) ==
  /\ phase[w] = "publish"
  /\ files' = IF files[at[w]] # None THEN files
              ELSE [files EXCEPT ![at[w]] = Output(cli[w].config, key[w])[at[w]]]
  /\ \/ /\ at[w] # "config"
        /\ at' = [at EXCEPT ![w] = PublishedAfter[at[w]]]
        /\ UNCHANGED phase
     \/ /\ at[w] = "config"
        /\ at' = [at EXCEPT ![w] = "blake3"]
        /\ Goto(w, "hash")
  /\ UNCHANGED <<manifest, vkey, wasm, cli, key, draft>>

Publish(w) ==
  /\ phase[w] = "publish"
  /\ files' = [files EXCEPT ![at[w]] = Output(cli[w].config, key[w])[at[w]]]
  /\ \/ /\ at[w] # "config"
        /\ at' = [at EXCEPT ![w] = PublishedAfter[at[w]]]
        /\ UNCHANGED phase
     \/ /\ at[w] = "config"
        /\ at' = [at EXCEPT ![w] = "blake3"]
        /\ Goto(w, "hash")
  /\ UNCHANGED <<manifest, vkey, wasm, cli, key, draft>>

\* read_arcs_blake3_hex, then make_entry per artifact.
HashedAfter ==
  [blake3 |-> "ar1cs", ar1cs |-> "pk", pk |-> "vk", vk |-> "pvk", pvk |-> "sol",
   sol |-> "config"]

\* Each entry hashes whatever the directory holds at that moment.
HashEntry(w) ==
  /\ phase[w] = "hash"
  /\ files[FileOf(at[w])] # None
  /\ draft' = [draft EXCEPT ![w][at[w]] = files[FileOf(at[w])]]
  /\ \/ /\ at[w] # "config"
        /\ at' = [at EXCEPT ![w] = HashedAfter[at[w]]]
        /\ UNCHANGED phase
     \/ /\ at[w] = "config"
        /\ Goto(w, "attach")
        /\ UNCHANGED at
  /\ UNCHANGED <<dirVars, cli, key>>

\* std::fs::copy opens the source first, then truncates the destination.
AttachWasm(w) ==
  /\ phase[w] = "attach"
  /\ \/ cli[w].wasm = None      /\ Goto(w, "sign")    /\ UNCHANGED <<wasm, at, draft>>
     \/ cli[w].wasm = "missing" /\ End(w, "rejected") /\ UNCHANGED wasm
     \/ cli[w].wasm = "present" /\ Goto(w, "copy") /\ wasm' = "partial" /\ UNCHANGED <<at, draft>>
  /\ UNCHANGED <<files, manifest, vkey, cli, key>>

FinishCopy(w) ==
  /\ phase[w] = "copy"
  /\ wasm' = "whole"
  /\ Goto(w, "sign")
  /\ UNCHANGED <<files, manifest, vkey, at, cli, key, draft>>

\* Wrong: keeping a verifying key that is already published.
SignKeepingKey(w) ==
  /\ phase[w] = "sign"
  /\ vkey' = IF cli[w].vkOut /\ vkey = None THEN cli[w].key ELSE vkey
  /\ Goto(w, "emit")
  /\ UNCHANGED <<files, manifest, wasm, at, cli, key, draft>>

\* sign_manifest; the verifying key is published before the manifest it verifies.
Sign(w) ==
  /\ phase[w] = "sign"
  /\ vkey' = IF cli[w].vkOut THEN cli[w].key ELSE vkey
  /\ Goto(w, "emit")
  /\ UNCHANGED <<files, manifest, wasm, at, cli, key, draft>>

\* Wrong: the default provenance whatever the seed.
ManifestOfOsRng(w) ==
  [tag |-> cli[w].config,
   entry |-> draft[w],
   provenance |-> "os-rng",
   sig |-> cli[w].key]

ManifestOf(w) ==
  [tag |-> cli[w].config,
   entry |-> draft[w],
   provenance |-> IF cli[w].seed = None THEN "os-rng" ELSE cli[w].seed,
   sig |-> cli[w].key]

\* --output is a String, so its path is UTF-8 and main's check of that never fails.
Emit(w) ==
  /\ phase[w] = "emit"
  /\ manifest' = ManifestOf(w)
  /\ End(w, "done")
  /\ UNCHANGED <<files, vkey, wasm, cli, key>>

\* An I/O or setup error, or a crash: nothing is rolled back.
Stop(w) ==
  /\ w \in Active
  /\ End(w, "stopped")
  /\ UNCHANGED <<dirVars, cli, key>>

RunStep(w) ==
  \/ Start(w) \/ Setup(w) \/ Publish(w) \/ HashEntry(w) \/ AttachWasm(w)
  \/ FinishCopy(w) \/ Sign(w) \/ Emit(w) \/ Stop(w)
=============================================================================
