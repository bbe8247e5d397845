------------------------------- MODULE Sidecar -------------------------------
(***************************************************************************)
(* The sidecar of the witness generator (service/src/sidecar.rs):          *)
(* generate_witness_gen_sidecar hashes a wasm, collects the shapes of the  *)
(* bundles it is given and publishes witness_gen.json; a consumer that has *)
(* loaded a bundle pairs it with the wasm beside it if the sidecar allows  *)
(* it. The tool reads a directory that generate_setup may be writing to.   *)
(***************************************************************************)
EXTENDS CrsBundle

CONSTANT
  Handmade     \* a sidecar is there before the tool runs, one of these, if any

VARIABLES
  tool,     \* the tool: where it is and what it has collected
  sidecar,  \* witness_gen.json: None, or a document
  pair      \* per consumer: what became of its bundle and the wasm

sidecarVars == <<tool, sidecar, pair>>
allVars == <<vars, sidecarVars>>

\* A hash is the file's content; what is not 64 lower-case hex digits is malformed.
Malformed == [cfg |-> None, key |-> None]
Documents == [sha : {"partial", "whole", "malformed"}, shapes : SUBSET (Content \union {Malformed})]
ASSUME HandmadeAssumption == Handmade \subseteq Documents /\ None \notin Documents

Idle == [at |-> "idle", sha |-> "malformed", shapes |-> {}]

SidecarTypeOK ==
  /\ tool \in [at : {"idle", "bundle", "done", "died"}, sha : {"partial", "whole", "malformed"},
               shapes : SUBSET Content]
  /\ sidecar \in Documents \union {None}
  /\ pair \in [Loaders -> {"none", "paired", "refused"}]

SidecarInit ==
  /\ Init
  /\ tool = Idle
  /\ sidecar \in IF Handmade = {} THEN {None} ELSE Handmade
  /\ pair = [l \in Loaders |-> "none"]

-----------------------------------------------------------------------------
(* The tool.                                                               *)

Die == tool' = [Idle EXCEPT !.at = "died"] /\ UNCHANGED sidecar

\* sha256_hex of --witness-gen-wasm: the release's own file, or a bundle's copy.
\* Without a --bundle there is nothing to do.
HashWasm ==
  /\ tool.at = "idle"
  /\ \/ Die
     \/ \E bytes \in {"whole", wasm} \ {None} :
          /\ tool' = [at |-> "bundle", sha |-> bytes, shapes |-> {}]
          /\ UNCHANGED sidecar
  /\ UNCHANGED <<vars, pair>>

\* validate
WellFormed(doc) ==
  /\ doc.sha # "malformed"
  /\ doc.shapes # {}
  /\ Malformed \notin doc.shapes

Collected == [sha |-> tool.sha, shapes |-> tool.shapes]

\* The shapes of the bundles (one here; another adds its own), and then
\* write_json_or_exit, through a temporary file and a rename (AtomicWrite); the tool
\* reads nothing in between.
WriteSidecar ==
  /\ tool.at = "bundle"
  /\ \/ manifest = None /\ Die
     \/ /\ manifest # None
        /\ tool' = [tool EXCEPT !.shapes = @ \union {manifest.entry["blake3"]}, !.at = "done"]
        /\ WellFormed(Collected')
        /\ sidecar' = Collected'
  /\ UNCHANGED <<vars, pair>>

-----------------------------------------------------------------------------
(* The consumer, external to this repository, with what it calls in it.    *)

\* Wrong: the file is there, so it is the one the sidecar is about.
VerifyWasmExists(bytes, doc) == bytes # None
VerifyWasmSha(bytes, doc) == bytes = doc.sha

IsCompatible(shape, doc) == shape \in doc.shapes
\* Wrong: a sidecar that lists no shape is for every one.
CompatibleUnlessListed(shape, doc) == doc.shapes = {} \/ IsCompatible(shape, doc)
RequireCompatible(shape, doc) == WellFormed(doc) /\ IsCompatible(shape, doc)

Pair(l) ==
  /\ op[l] = "ok" /\ pair[l] = "none"
  /\ pair' = [pair EXCEPT ![l] =
       IF /\ sidecar # None
          /\ VerifyWasmSha(wgen[l], sidecar)
          /\ RequireCompatible(man[l].entry["blake3"], sidecar)
       THEN "paired" ELSE "refused"]
  /\ UNCHANGED <<vars, tool, sidecar>>

-----------------------------------------------------------------------------
\* A new load has nothing to do with the last one's wasm.
LoadAgain(l) ==
  /\ Begin(l)
  /\ pair' = [pair EXCEPT ![l] = "none"]
  /\ UNCHANGED <<tool, sidecar>>

SidecarNext ==
  \/ \E w \in Runs : Run(w) /\ UNCHANGED sidecarVars
  \/ \E l \in Loaders : LoadAgain(l) \/ Pair(l) \/ (Load(l) /\ UNCHANGED sidecarVars)
  \/ HashWasm \/ WriteSidecar

SidecarSpec == SidecarInit /\ [][SidecarNext]_allVars

-----------------------------------------------------------------------------
\* A handmade sidecar does not vouch for a truncated witness generator.
HandmadeIsWhole == \A doc \in Handmade : doc.sha # "partial"

BundleTypeOK == TypeOK /\ SidecarTypeOK

\* A consumer never pairs a bundle with a witness generator that a copy had not
\* finished, crashed in the middle of, or has begun again: unless the tool itself
\* was run on a bundle's copy in that state and vouches for it.
TruncatedNeverPairs ==
  \A l \in Loaders :
    pair[l] = "paired" /\ wgen[l] # "whole" => tool.sha = "partial" /\ sidecar = Collected

\* Only a circuit whose bundle the tool was shown, or a handmade sidecar names, is
\* paired: an empty list is for none. The circuit is the one that was parsed, whoever
\* writes to the bundle, unless circuit.ar1cs was replaced during the load.
Described == tool.shapes \union UNION {doc.shapes : doc \in Handmade}
PairsOnlyDescribedShapes ==
  \A l \in Loaders : pair[l] = "paired" =>
    /\ man[l].entry["blake3"] \in Described
    /\ parsed[l]["ar1cs"] \in Described \/ swaps[l]["ar1cs"] >= 1
=============================================================================
