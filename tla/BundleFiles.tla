---------------------------- MODULE BundleFiles -----------------------------
(***************************************************************************)
(* The bundle directory shared by generate_setup, which writes it, and the *)
(* artifact loader, which reads it: six artifacts, the manifest that names *)
(* them by hash, the optional witness generator and the published ed25519  *)
(* verifying key.                                                          *)
(*                                                                         *)
(* A file's content is what tells two generations of it apart: the circuit *)
(* configuration it was built from and, for the files that hold key        *)
(* material, the randomness of the trusted setup.  A hash is its content:  *)
(* sha256 and blake3 are taken to be injective.                            *)
(***************************************************************************)
CONSTANTS
  Runs,      \* invocations of generate_setup; a run names its own OsRng draw
  Configs,   \* circuit configurations
  Seeds,     \* values of --rng-seed
  Keys,      \* ed25519 key pairs
  None       \* no file, no option, no value

ASSUME NoneAssumption == None \notin Runs \union Configs \union Seeds \union Keys
ASSUME DrawsAssumption == Runs \intersect Seeds = {}

\* pk.bin, vk.bin, pvk.bin and Groth16Verifier.sol depend on the setup randomness;
\* circuit.ar1cs and config.json on the configuration alone.
Keyed == {"pk", "vk", "pvk", "sol"}
Artifacts == Keyed \union {"ar1cs", "config"}

Randomness == Runs \union Seeds
Content == [cfg : Configs, key : Randomness \union {None}]

\* What setup() writes for a configuration and a draw of randomness.
Output(c, k) == [f \in Artifacts |-> [cfg |-> c, key |-> IF f \in Keyed THEN k ELSE None]]

\* A manifest holds a sha256 per artifact and the blake3 of the ar1cs body.
Slots == Artifacts \union {"blake3"}
FileOf(slot) == IF slot = "blake3" THEN "ar1cs" ELSE slot

Manifests ==
  [tag : Configs,                          \* circuit_tag and shape, from the parameters
   entry : [Slots -> Content],
   provenance : Seeds \union {"os-rng"},
   sig : Keys \union {None}]               \* the key that signed it

ASSUME NothingAssumption == None \notin Content \union Manifests

VARIABLES
  files,      \* per artifact: its content on disk, or None
  manifest,   \* manifest.json, or None
  vkey,       \* the file named by --verifying-key-out, or None
  wasm        \* witness_gen.wasm: None, "partial" or "whole"

dirVars == <<files, manifest, vkey, wasm>>

DirTypeOK ==
  /\ files \in [Artifacts -> Content \union {None}]
  /\ manifest \in Manifests \union {None}
  /\ vkey \in Keys \union {None}
  /\ wasm \in {None, "partial", "whole"}

DirInit ==
  /\ files = [f \in Artifacts |-> None]
  /\ manifest = None
  /\ vkey = None
  /\ wasm = None
=============================================================================
