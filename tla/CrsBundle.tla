----------------------------- MODULE CrsBundle ------------------------------
(***************************************************************************)
(* Invocations of generate_setup and callers of the artifact loader over   *)
(* one bundle directory, with no lock between them.                        *)
(***************************************************************************)
EXTENDS GenerateSetup, ArtifactLoader

\* History: what happened to the directory, from a load's point of view.
VARIABLES
  owner,   \* the run that last changed the directory, None before
  swaps,   \* per loader and artifact: how often its content changed during the load
  calm     \* per loader: the load began on a completed bundle and nothing changed since

history == <<owner, swaps, calm>>
vars == <<dirVars, writerVars, loaderVars, history>>

SwapCap == 2   \* swaps are counted up to here

TypeOK ==
  /\ DirTypeOK
  /\ WriterTypeOK
  /\ LoaderTypeOK
  /\ owner \in Runs \union {None}
  /\ swaps \in [Loaders -> [Artifacts -> 0 .. SwapCap]]
  /\ calm \in [Loaders -> BOOLEAN]

Init ==
  /\ DirInit /\ WriterInit /\ LoaderInit
  /\ owner = None
  /\ swaps = [l \in Loaders |-> [f \in Artifacts |-> 0]]
  /\ calm = [l \in Loaders |-> FALSE]

-----------------------------------------------------------------------------
Swapped(l, f) == Loading(l) /\ files'[f] # files[f] /\ swaps[l][f] < SwapCap

Run(w) ==
  /\ RunStep(w)
  /\ owner' = IF dirVars' = dirVars THEN owner ELSE w
  /\ swaps' = [l \in Loaders |-> [f \in Artifacts |->
                 IF Swapped(l, f) THEN swaps[l][f] + 1 ELSE swaps[l][f]]]
  /\ calm' = [l \in Loaders |-> calm[l] /\ dirVars' = dirVars]
  /\ UNCHANGED loaderVars

\* The last run to change the directory went through to the end, and published its
\* verifying key if the load is a signed one.
Completed(signed) ==
  /\ owner # None
  /\ phase[owner] = "done"
  /\ signed => cli[owner].vkOut

Begin(l) ==
  /\ BeginLoad(l)
  /\ swaps' = [swaps EXCEPT ![l] = [f \in Artifacts |-> 0]]
  /\ calm' = [calm EXCEPT ![l] = Completed(op'[l] = "key")]
  /\ UNCHANGED <<writerVars, owner>>

Load(l) ==
  /\ LoaderStep(l)
  /\ UNCHANGED <<writerVars, history>>

Next ==
  \/ \E w \in Runs : Run(w)
  \/ \E l \in Loaders : Begin(l) \/ Load(l)

Spec == Init /\ [][Next]_vars

-----------------------------------------------------------------------------
(***************************************************************************)
(* Properties                                                              *)
(***************************************************************************)
Parsed == Artifacts \ {"sol"}

\* The same generation behind both hashes of circuit.ar1cs.
HashesAgree(m) == m.entry["blake3"] = m.entry["ar1cs"]

\* Whoever writes meanwhile, a load that returns Ok with an artifact other than the one
\* its manifest names has seen that file replaced between two of its opens: once for
\* pk, vk and pvk, twice for circuit.ar1cs, whose trailer is checked after the parse,
\* and never for config.json, which is read once (set.rs, load_canonical, load_arcs).
SwapsExplainMismatch ==
  \A l \in Loaders : op[l] = "ok" =>
    \A f \in Parsed : parsed[l][f] # man[l].entry[f] =>
      /\ f # "config"
      /\ swaps[l][f] >= IF f = "ar1cs" /\ HashesAgree(man[l]) THEN 2 ELSE 1

\* A load during which no artifact changes returns the complete output of one setup, for
\* the circuit its manifest names and with its randomness disclosed; bundles a run left
\* half replaced are refused.  For runs that take turns.
OneGeneration ==
  \A l \in Loaders :
    op[l] = "ok" /\ (\A f \in Artifacts : swaps[l][f] = 0) =>
      \E k \in Randomness :
        /\ \A f \in Parsed : parsed[l][f] = Output(man[l].tag, k)[f]
        /\ man[l].provenance = IF k \in Seeds THEN k ELSE "os-rng"

\* Once a run has gone through to the end its bundle loads, whatever earlier runs left
\* behind; a signed load needs that run's published key.  For runs that take turns.
CompletedBundleLoads == \A l \in Loaders : calm[l] => op[l] # "err"

\* The verifying key is published before the manifest it verifies (generate_setup.rs,
\* main), so for a while it is the next bundle's.  By then nothing is left of the bundle
\* before it: whenever the manifest names what the directory holds, and its run drew from
\* the OS and published its key, that key is there, so an intact bundle is not refused for
\* its signature.  For runs that take turns; a run that draws the same seed again may
\* sign the same files with another key.
Intact ==
  manifest # None /\ \A s \in Slots : files[FileOf(s)] = manifest.entry[s]

IntactBundleHasItsKey ==
  Intact =>
    \A w \in Runs : manifest.entry["pk"].key = w /\ cli[w].vkOut => vkey = manifest.sig

\* A manifest that names key material drawn from a --rng-seed says so (setup/mod.rs,
\* SetupRng::ChaCha20: "Any bundle produced with this variant will have
\* SetupProvenance::Seed in its manifest").
SeedDisclosed ==
  manifest # None =>
    \A f \in Keyed : manifest.entry[f].key \in Seeds =>
      manifest.provenance = manifest.entry[f].key

\* What a load parses are the bytes whose hash it checked (set.rs, load_canonical:
\* "sha256 has already bound these bytes to the caller's manifest").
HashBindsParse ==
  \A l \in Loaders : op[l] = "ok" =>
    \A f \in Parsed : parsed[l][f] = man[l].entry[f]
=============================================================================
