---------------------------- MODULE BundleProofs ----------------------------
(***************************************************************************)
(* For every set of runs, command lines, configurations and loaders: the   *)
(* types of CrsBundle, what a load guarantees when nothing locks the       *)
(* directory and what it guarantees when runs take turns; then, of its     *)
(* composition with the sidecar, what a consumer may pair.                 *)
(***************************************************************************)
EXTENDS Sidecar, FiniteSetTheorems, TLAPS

-----------------------------------------------------------------------------
(***************************************************************************)
(* Type correctness.  A manifest is complete because a run that is past    *)
(* hashing has filled every slot of its draft.                             *)
(***************************************************************************)
\* The slots hashed before the one at hand.
HashedBefore ==
  [blake3 |-> {}, ar1cs |-> {"blake3"}, pk |-> {"blake3", "ar1cs"},
   vk |-> {"blake3", "ar1cs", "pk"}, pvk |-> {"blake3", "ar1cs", "pk", "vk"},
   sol |-> {"blake3", "ar1cs", "pk", "vk", "pvk"},
   config |-> {"blake3", "ar1cs", "pk", "vk", "pvk", "sol"}]

Drafted(w) ==
  /\ phase[w] = "hash" => \A s \in HashedBefore[at[w]] : draft[w][s] # None
  /\ phase[w] \in {"attach", "copy", "sign", "emit"} => \A s \in Slots : draft[w][s] # None

TInv == TypeOK /\ \A w \in Runs : Drafted(w)

WriterInv == DirTypeOK /\ WriterTypeOK /\ \A w \in Runs : Drafted(w)

LEMMA OutputType ==
  ASSUME NEW c \in Configs, NEW k \in Randomness, NEW f \in Artifacts
  PROVE  Output(c, k)[f] \in Content
  BY DEF Output, Content, Artifacts, Keyed

LEMMA ActiveCli ==
  ASSUME WriterTypeOK, NEW w \in Active
  PROVE  /\ w \in Runs
         /\ cli[w] \in CliOptions
         /\ cli[w].config \in Configs
         /\ cli[w].key \in Keys \union {None}
         /\ cli[w].seed \in Seeds \union {None}
         /\ cli[w].vkOut => cli[w].key \in Keys
         /\ cli[w].wasm \in {None, "present", "missing"}
         /\ cli[w].vkOut \in BOOLEAN
         /\ phase[w] # "setup" => key[w] \in Randomness
  BY ClisAssumption DEF WriterTypeOK, Active, Rejected, CliOptions

LEMMA StartType ==
  ASSUME WriterInv, NEW w \in Runs, Start(w)
  PROVE  WriterInv'
  BY ClisAssumption DEF WriterInv, DirTypeOK, WriterTypeOK, Start, Goto, Drafted, dirVars,
     Active, Resting, Phases, Rejected

LEMMA SetupType ==
  ASSUME WriterInv, NEW w \in Runs, Setup(w)
  PROVE  WriterInv'
<1>1. w \in Active
  BY DEF Setup, Active, Resting
<1>2. Draw(w) \in Randomness /\ Draw(w) # None
  BY <1>1, ActiveCli, NoneAssumption DEF Draw, Randomness, WriterInv
<1>. QED
  BY <1>1, <1>2
  DEF WriterInv, DirTypeOK, WriterTypeOK, Setup, Goto, Drafted, dirVars, Active, Resting,
      Phases, Slots, Artifacts, Keyed, Rejected

LEMMA PublishType ==
  ASSUME WriterInv, NEW w \in Runs, Publish(w)
  PROVE  WriterInv'
<1>1. w \in Active
  BY DEF Publish, Active, Resting
<1>2. at[w] \in Artifacts
  BY DEF WriterInv, WriterTypeOK, Publish, Slots
<1>3. Output(cli[w].config, key[w])[at[w]] \in Content
  BY <1>1, <1>2, ActiveCli, OutputType DEF Publish, WriterInv
<1>4. DirTypeOK'
  <2>1. files' = [files EXCEPT ![at[w]] = Output(cli[w].config, key[w])[at[w]]]
    BY DEF Publish
  <2>2. files' \in [Artifacts -> Content \union {None}]
    BY <1>2, <1>3, <2>1 DEF WriterInv, DirTypeOK
  <2>. QED
    BY <2>2 DEF WriterInv, DirTypeOK, Publish
<1>5. at[w] # "config" => PublishedAfter[at[w]] \in Artifacts \ {"pk"}
  BY <1>2 DEF PublishedAfter, Artifacts, Keyed
<1>6. Active' = Active
  <2>1. \A v \in Runs : phase'[v] = phase[v] \/ (v = w /\ phase'[v] = "hash")
    BY DEF Publish, Goto, WriterInv, WriterTypeOK
  <2>2. phase[w] = "publish"
    BY DEF Publish
  <2>. QED
    BY <2>1, <2>2 DEF Active, Resting
<1>7. /\ phase' \in [Runs -> Phases] /\ at' \in [Runs -> Slots]
      /\ \A v \in Runs : v # w => phase'[v] = phase[v] /\ at'[v] = at[v]
      /\ \/ phase'[w] = "publish" /\ at'[w] \in Artifacts
         \/ phase'[w] = "hash" /\ at'[w] = "blake3"
      /\ UNCHANGED <<cli, key, draft>>
  <2>1. CASE at[w] # "config"
    BY <2>1, <1>5 DEF WriterInv, WriterTypeOK, Publish, Slots
  <2>2. CASE at[w] = "config"
    BY <2>2 DEF WriterInv, WriterTypeOK, Publish, Goto, Slots, Phases
  <2>. QED
    BY <2>1, <2>2
<1>8. WriterTypeOK'
  <2>1. \A v \in Active' : cli'[v] # None /\ ~Rejected(cli'[v])
    BY <1>6, <1>7 DEF WriterInv, WriterTypeOK
  <2>3. \A v \in Active' : phase'[v] # "setup" => key'[v] # None
    BY <1>6, <1>7 DEF WriterInv, WriterTypeOK, Active, Publish
  <2>2. \A v \in Runs : phase'[v] = "publish" => at'[v] # "blake3"
    BY <1>7 DEF WriterInv, WriterTypeOK, Artifacts, Keyed
  <2>. QED
    BY <2>1, <2>2, <2>3, <1>7 DEF WriterInv, WriterTypeOK
<1>9. ASSUME NEW v \in Runs
      PROVE  Drafted(v)'
  <2>1. CASE v # w
    BY <2>1, <1>7 DEF WriterInv, Drafted
  <2>2. CASE v = w
    BY <2>2, <1>7 DEF Drafted, HashedBefore
  <2>. QED
    BY <2>1, <2>2
<1>. QED
  BY <1>4, <1>8, <1>9 DEF WriterInv

LEMMA HashEntryType ==
  ASSUME WriterInv, NEW w \in Runs, HashEntry(w)
  PROVE  WriterInv'
<1>1. at[w] \in Slots /\ FileOf(at[w]) \in Artifacts
  BY DEF WriterInv, WriterTypeOK, Slots, FileOf, Artifacts, Keyed
<1>2. files[FileOf(at[w])] \in Content /\ files[FileOf(at[w])] # None
  BY <1>1 DEF WriterInv, DirTypeOK, HashEntry
<1>3. at[w] # "config" => /\ HashedAfter[at[w]] \in Slots
                          /\ HashedBefore[HashedAfter[at[w]]] = HashedBefore[at[w]] \union {at[w]}
  BY <1>1 DEF HashedAfter, HashedBefore, Slots, Artifacts, Keyed
<1>4. at[w] = "config" => Slots = HashedBefore[at[w]] \union {at[w]}
  BY DEF HashedBefore, Slots, Artifacts, Keyed
<1>5. Active' = Active
  <2>1. \A v \in Runs : phase'[v] = phase[v] \/ (v = w /\ phase'[v] = "attach")
    BY DEF HashEntry, Goto, WriterInv, WriterTypeOK
  <2>2. phase[w] = "hash"
    BY DEF HashEntry
  <2>. QED
    BY <2>1, <2>2 DEF Active, Resting
<1>6. /\ phase' \in [Runs -> Phases] /\ at' \in [Runs -> Slots]
      /\ \A v \in Runs : v # w => phase'[v] = phase[v] /\ at'[v] = at[v] /\ draft'[v] = draft[v]
      /\ draft' \in [Runs -> [Slots -> Content \union {None}]]
      /\ draft'[w] = [draft[w] EXCEPT ![at[w]] = files[FileOf(at[w])]]
      /\ UNCHANGED <<cli, key>>
  <2>1. CASE at[w] # "config"
    BY <2>1, <1>1, <1>2, <1>3 DEF WriterInv, WriterTypeOK, HashEntry
  <2>2. CASE at[w] = "config"
    BY <2>2, <1>1, <1>2 DEF WriterInv, WriterTypeOK, HashEntry, Goto, Phases
  <2>. QED
    BY <2>1, <2>2
<1>7. \/ /\ at[w] # "config"
         /\ phase'[w] = "hash"
         /\ at'[w] = HashedAfter[at[w]]
      \/ /\ at[w] = "config"
         /\ phase'[w] = "attach"
  BY DEF WriterInv, WriterTypeOK, HashEntry, Goto
<1>9. WriterTypeOK'
  <2>1. \A v \in Active' : cli'[v] # None /\ ~Rejected(cli'[v])
    BY <1>5, <1>6 DEF WriterInv, WriterTypeOK, Active
  <2>2. \A v \in Active' : phase'[v] # "setup" => key'[v] # None
    BY <1>5, <1>6 DEF WriterInv, WriterTypeOK, Active, HashEntry
  <2>3. \A v \in Runs : phase'[v] = "publish" => at'[v] # "blake3"
    BY <1>6, <1>7 DEF WriterInv, WriterTypeOK
  <2>. QED
    BY <2>1, <2>2, <2>3, <1>6 DEF WriterInv, WriterTypeOK
<1>10. ASSUME NEW v \in Runs
       PROVE  Drafted(v)'
  <2>1. CASE v # w
    BY <2>1, <1>6 DEF WriterInv, Drafted
  <2>2. CASE v = w
    <3>1. /\ \A s \in HashedBefore[at[w]] : draft'[w][s] # None
          /\ draft'[w][at[w]] # None
      BY <1>1, <1>2, <1>6 DEF WriterInv, WriterTypeOK, HashEntry, Drafted
    <3>. QED
      BY <3>1, <2>2, <1>3, <1>4, <1>7 DEF Drafted
  <2>. QED
    BY <2>1, <2>2
<1>8. DirTypeOK'
  BY DEF WriterInv, DirTypeOK, HashEntry, dirVars
<1>. QED
  BY <1>8, <1>9, <1>10 DEF WriterInv

\* The steps after hashing move the run on or end it.
LEMMA FinishEffect ==
  ASSUME NEW w \in Runs, AttachWasm(w) \/ FinishCopy(w) \/ Sign(w) \/ Emit(w) \/ Stop(w)
  PROVE  /\ UNCHANGED <<files, cli, key>>
         /\ \/ /\ \E p \in {"copy", "sign", "emit"} : phase' = [phase EXCEPT ![w] = p]
               /\ phase[w] \in {"attach", "copy", "sign"}
               /\ UNCHANGED <<at, draft>>
            \/ /\ \E p \in {"done", "rejected", "stopped"} : phase' = [phase EXCEPT ![w] = p]
               /\ at' = [at EXCEPT ![w] = "pk"]
               /\ draft' = [draft EXCEPT ![w] = NoEntries]
<1>1. CASE AttachWasm(w)
  BY <1>1 DEF AttachWasm, Goto, End
<1>2. CASE FinishCopy(w) \/ Sign(w)
  BY <1>2 DEF FinishCopy, Sign, Goto
<1>3. CASE Emit(w)
  BY <1>3 DEF Emit, Goto, End
<1>4. CASE Stop(w)
  BY <1>4 DEF Stop, Goto, End, dirVars
<1>. QED
  BY <1>1, <1>2, <1>3, <1>4

LEMMA FinishType ==
  ASSUME WriterInv, NEW w \in Runs,
         AttachWasm(w) \/ FinishCopy(w) \/ Sign(w) \/ Emit(w) \/ Stop(w)
  PROVE  WriterInv'
<1>1. w \in Active
  BY DEF AttachWasm, FinishCopy, Sign, Emit, Stop, Active, Resting
<1>2. NoEntries \in [Slots -> Content \union {None}]
  BY DEF NoEntries
<1>3. phase[w] = "emit" => ManifestOf(w) \in Manifests
  <2>1. SUFFICES ASSUME phase[w] = "emit"
                 PROVE  ManifestOf(w) \in Manifests
    OBVIOUS
  <2>2. draft[w] \in [Slots -> Content]
    BY <2>1 DEF WriterInv, WriterTypeOK, Drafted
  <2>. QED
    BY <1>1, <2>2, ActiveCli DEF ManifestOf, Manifests, WriterInv
<1>4. DirTypeOK'
  BY <1>1, <1>3, ActiveCli
  DEF WriterInv, DirTypeOK, AttachWasm, FinishCopy, Sign, Emit, Stop, dirVars
<1>9. /\ UNCHANGED <<files, cli, key>>
      /\ \/ /\ \E p \in {"copy", "sign", "emit"} : phase' = [phase EXCEPT ![w] = p]
            /\ phase[w] \in {"attach", "copy", "sign"}
            /\ UNCHANGED <<at, draft>>
         \/ /\ \E p \in {"done", "rejected", "stopped"} : phase' = [phase EXCEPT ![w] = p]
            /\ at' = [at EXCEPT ![w] = "pk"]
            /\ draft' = [draft EXCEPT ![w] = NoEntries]
  BY FinishEffect
<1>10. phase \in [Runs -> Phases]
  BY DEF WriterInv, WriterTypeOK
<1>5. /\ phase' \in [Runs -> Phases]
      /\ \A v \in Runs : v # w => phase'[v] = phase[v]
      /\ phase'[w] \in {"copy", "sign", "emit"} \union Resting
      /\ phase'[w] \in {"copy", "sign", "emit"} =>
           draft'[w] = draft[w] /\ phase[w] \in {"attach", "copy", "sign"}
      /\ UNCHANGED <<cli, key>>
  BY <1>9, <1>10 DEF Phases, Resting
<1>6. /\ at' \in [Runs -> Slots]
      /\ \A v \in Runs : v # w => at'[v] = at[v] /\ draft'[v] = draft[v]
      /\ draft' \in [Runs -> [Slots -> Content \union {None}]]
  <2>1. CASE UNCHANGED <<at, draft>>
    BY <2>1 DEF WriterInv, WriterTypeOK
  <2>2. CASE at' = [at EXCEPT ![w] = "pk"] /\ draft' = [draft EXCEPT ![w] = NoEntries]
    BY <2>2, <1>2 DEF WriterInv, WriterTypeOK, Slots, Artifacts, Keyed
  <2>. QED
    BY <2>1, <2>2, <1>9
<1>7. WriterTypeOK'
  <2>1. Active' \subseteq Active
    BY <1>1, <1>5 DEF Active
  <2>2. \A v \in Active' : cli'[v] # None /\ ~Rejected(cli'[v])
    BY <1>5, <2>1 DEF WriterInv, WriterTypeOK
  <2>3. \A v \in Active' : phase'[v] # "setup" => key'[v] # None
    <3>1. phase[w] # "setup" \/ phase'[w] \in Resting
      BY <1>5
    <3>. QED
      BY <1>5, <2>1, <3>1 DEF WriterInv, WriterTypeOK, Active
  <2>4. \A v \in Runs : phase'[v] = "publish" => at'[v] # "blake3"
    BY <1>5, <1>6 DEF WriterInv, WriterTypeOK, Resting
  <2>. QED
    BY <1>5, <1>6, <2>2, <2>3, <2>4 DEF WriterInv, WriterTypeOK
<1>8. ASSUME NEW v \in Runs
      PROVE  Drafted(v)'
  BY <1>5, <1>6 DEF WriterInv, Drafted, Resting
<1>. QED
  BY <1>4, <1>7, <1>8 DEF WriterInv

LEMMA RunStepType ==
  ASSUME WriterInv, NEW w \in Runs, RunStep(w)
  PROVE  WriterInv'
  BY StartType, SetupType, PublishType, HashEntryType, FinishType DEF RunStep

\* A load keeps the types of its own variables.
LEMMA AdvanceType ==
  ASSUME LoaderTypeOK, NEW l \in Loaders, Advance(l), man[l] # None
  PROVE  /\ op' \in [Loaders -> Ops] /\ lfile' \in [Loaders -> Artifacts]
         /\ \A m \in Loaders : m # l => op'[m] = op[m]
  BY DEF LoaderTypeOK, Advance, Proceed, Ops, LoadedAfter, Artifacts, Keyed

LEMMA BeginLoadType ==
  ASSUME DirTypeOK, LoaderTypeOK, NEW l \in Loaders, BeginLoad(l)
  PROVE  LoaderTypeOK'
<1>1. Nothing \in [Artifacts -> Content \union {None}]
  BY DEF Nothing
<1>2. op' \in [Loaders -> Ops]
  BY DEF BeginLoad, LoaderTypeOK, Proceed, Ops
<1>. QED
  BY <1>1, <1>2 DEF BeginLoad, LoaderTypeOK, DirTypeOK, Proceed, Artifacts, Keyed

LEMMA LoaderStepType ==
  ASSUME DirTypeOK, LoaderTypeOK, NEW l \in Loaders, LoaderStep(l)
  PROVE  LoaderTypeOK' /\ UNCHANGED dirVars
<1>. USE DEF LoaderTypeOK, DirTypeOK, Ops, Proceed
<1>0. op[l] \notin {"idle", "ok", "err"} /\ man[l] # None
  BY DEF LoaderStep, ReadKey, Verify, Hash, Parse, Trailer, LoadConfig, CheckSol, Mismatch,
         PickUpWasm
<1>1. CASE ReadKey(l)
  <2>1. verifier' \in [Loaders -> Keys \union {None}]
    BY <1>1 DEF ReadKey
  <2>. QED
    BY <1>0, <1>1, <2>1 DEF ReadKey, dirVars
<1>7. CASE Verify(l)
  BY <1>0, <1>7 DEF Verify, dirVars
<1>2. CASE Hash(l)
  BY <1>2 DEF Hash, dirVars
<1>8. CASE PickUpWasm(l)
  BY <1>8 DEF PickUpWasm, dirVars
<1>3. CASE Parse(l)
  <2>1. files[lfile[l]] \in Content
    BY <1>3 DEF Parse
  <2>2. parsed' \in [Loaders -> [Artifacts -> Content \union {None}]]
    BY <1>3, <2>1 DEF Parse
  <2>3. /\ op' \in [Loaders -> Ops] /\ lfile' \in [Loaders -> Artifacts]
        /\ \A m \in Loaders : m # l => op'[m] = op[m]
    BY <1>3, <1>0, AdvanceType DEF Parse
  <2>. QED
    BY <1>3, <1>0, <2>2, <2>3 DEF Parse, dirVars
<1>4. CASE LoadConfig(l)
  <2>1. "config" \in Artifacts
    BY DEF Artifacts
  <2>2. parsed' \in [Loaders -> [Artifacts -> Content \union {None}]]
    BY <1>4, <2>1 DEF LoadConfig
  <2>3. /\ op' \in [Loaders -> Ops] /\ lfile' \in [Loaders -> Artifacts]
        /\ \A m \in Loaders : m # l => op'[m] = op[m]
    BY <1>4, <1>0, AdvanceType DEF LoadConfig
  <2>. QED
    BY <1>4, <1>0, <2>2, <2>3 DEF LoadConfig, dirVars
<1>5. CASE Trailer(l) \/ CheckSol(l)
  <2>1. /\ op' \in [Loaders -> Ops] /\ lfile' \in [Loaders -> Artifacts]
        /\ \A m \in Loaders : m # l => op'[m] = op[m]
    BY <1>5, <1>0, AdvanceType DEF Trailer, CheckSol
  <2>. QED
    BY <1>5, <1>0, <2>1 DEF Trailer, CheckSol, dirVars
<1>6. CASE Mismatch(l)
  BY <1>6 DEF Mismatch, Nothing, dirVars
<1>. QED
  BY <1>1, <1>2, <1>3, <1>4, <1>5, <1>6, <1>7, <1>8 DEF LoaderStep

HistoryTypeOK ==
  /\ owner \in Runs \union {None}
  /\ swaps \in [Loaders -> [Artifacts -> 0 .. SwapCap]]
  /\ calm \in [Loaders -> BOOLEAN]

LEMMA RunHistoryType ==
  ASSUME HistoryTypeOK, NEW w \in Runs, Run(w)
  PROVE  HistoryTypeOK'
<1>1. \A l \in Loaders, f \in Artifacts :
        (IF Swapped(l, f) THEN swaps[l][f] + 1 ELSE swaps[l][f]) \in 0 .. SwapCap
  BY DEF HistoryTypeOK, Swapped, SwapCap
<1>2. swaps' \in [Loaders -> [Artifacts -> 0 .. SwapCap]]
  BY <1>1 DEF Run
<1>3. calm' \in [Loaders -> BOOLEAN]
  BY DEF Run, HistoryTypeOK
<1>. QED
  BY <1>2, <1>3 DEF Run, HistoryTypeOK

LEMMA InitTInv == Init => TInv
  BY DEF Init, DirInit, WriterInit, LoaderInit, TInv, TypeOK, DirTypeOK, WriterTypeOK,
         LoaderTypeOK, Drafted, Active, Resting, Phases, Ops, NoEntries, Nothing, Slots,
         Artifacts, Keyed, SwapCap

LEMMA NextTInv == TInv /\ [Next]_vars => TInv'
<1>. SUFFICES ASSUME TInv, [Next]_vars
              PROVE  TInv'
  OBVIOUS
<1>. USE DEF TInv, TypeOK, WriterInv, HistoryTypeOK
<1>1. ASSUME NEW w \in Runs, Run(w)
      PROVE  TInv'
  <2>1. WriterInv'
    BY <1>1, RunStepType DEF Run
  <2>2. LoaderTypeOK'
    BY <1>1 DEF Run, loaderVars, LoaderTypeOK
  <2>3. HistoryTypeOK'
    BY <1>1, RunHistoryType
  <2>. QED
    BY <2>1, <2>2, <2>3
<1>2. ASSUME NEW l \in Loaders, Begin(l)
      PROVE  TInv'
  <2>1. LoaderTypeOK'
    BY <1>2, BeginLoadType DEF Begin
  <2>2. WriterInv'
    BY <1>2 DEF Begin, BeginLoad, writerVars, dirVars, DirTypeOK, WriterTypeOK, Drafted, Active
  <2>3. Completed(op'[l] = "key") \in BOOLEAN
    BY DEF Completed
  <2>4. HistoryTypeOK'
    BY <1>2, <2>3 DEF Begin, SwapCap
  <2>. QED
    BY <2>1, <2>2, <2>4
<1>3. ASSUME NEW l \in Loaders, Load(l)
      PROVE  TInv'
  <2>1. LoaderTypeOK' /\ UNCHANGED dirVars
    BY <1>3, LoaderStepType DEF Load
  <2>2. WriterInv' /\ HistoryTypeOK'
    BY <1>3, <2>1 DEF Load, writerVars, dirVars, history, DirTypeOK, WriterTypeOK, Drafted,
                      Active
  <2>. QED
    BY <2>1, <2>2
<1>4. CASE UNCHANGED vars
  BY <1>4 DEF vars, dirVars, writerVars, loaderVars, history, DirTypeOK, WriterTypeOK,
              LoaderTypeOK, Drafted, Active
<1>. QED
  BY <1>1, <1>2, <1>3, <1>4 DEF Next

LEMMA TypesInductive == Spec => []TInv
  BY InitTInv, NextTInv, PTL DEF Spec

\* Every variable of the bundle directory, its writers and its loaders keeps its type; in
\* particular a published manifest has all its entries.
THEOREM TypeCorrect == Spec => []TypeOK
<1>1. TInv => TypeOK
  BY DEF TInv
<1>. QED
  BY <1>1, TypesInductive, PTL

-----------------------------------------------------------------------------
(***************************************************************************)
(* What a load guarantees when nobody locks the directory.  The invariant  *)
(* follows a load through its opens: an artifact on disk that differs from *)
(* the manifest after its hash was checked has been replaced, and one that *)
(* differs in memory but not on disk has been replaced back.               *)
(***************************************************************************)
\* The artifacts parsed before the loader reaches one.
ParsedBefore ==
  [ar1cs |-> {}, pk |-> {"ar1cs"}, vk |-> {"ar1cs", "pk"}, pvk |-> {"ar1cs", "pk", "vk"},
   config |-> {"ar1cs", "pk", "vk", "pvk"}, sol |-> {"ar1cs", "pk", "vk", "pvk", "config"}]

InOrder(l) ==
  /\ op[l] \in {"key", "verify", "trailer"} => lfile[l] = "ar1cs"
  /\ op[l] \in {"wasm", "ok"} => lfile[l] = "sol"
  /\ op[l] = "parse" => lfile[l] \in {"ar1cs", "pk", "vk", "pvk"}
  /\ \A f \in ParsedBefore[lfile[l]] : parsed[l][f] # None
  /\ op[l] = "trailer" => parsed[l]["ar1cs"] # None

Foreign(l, f) == parsed[l][f] # None /\ parsed[l][f] # man[l].entry[f]
Replaced(l, f) == files[f] # man[l].entry[f]

Explained(l) ==
  /\ \A f \in {"pk", "vk", "pvk"} : Foreign(l, f) => swaps[l][f] >= 1
  /\ op[l] = "parse" /\ Replaced(l, lfile[l]) => swaps[l][lfile[l]] >= 1
  /\ ~Foreign(l, "config")
  /\ lfile[l] = "ar1cs" /\ op[l] # "trailer" => ~Foreign(l, "ar1cs")
  /\ Foreign(l, "ar1cs") => swaps[l]["ar1cs"] >= 1
  /\ op[l] = "trailer" /\ Foreign(l, "ar1cs") /\ ~Replaced(l, "ar1cs") =>
       swaps[l]["ar1cs"] >= 2
  /\ lfile[l] # "ar1cs" /\ Foreign(l, "ar1cs") /\ HashesAgree(man[l]) =>
       swaps[l]["ar1cs"] >= 2

LoadInv(l) == Loading(l) \/ op[l] = "ok" => InOrder(l) /\ Explained(l)

\* A run changes files and counts what it changes.
LEMMA RunKeepsLoadInv ==
  ASSUME TInv, NEW w \in Runs, Run(w), NEW l \in Loaders, LoadInv(l)
  PROVE  LoadInv(l)'
<1>. USE DEF TInv, TypeOK, LoaderTypeOK
<1>1. UNCHANGED <<op, lfile, man, verifier, parsed, wgen>>
  BY DEF Run, loaderVars
<1>2. \A f \in Artifacts : /\ swaps'[l][f] \in Nat /\ swaps[l][f] \in Nat
                           /\ swaps'[l][f] >= swaps[l][f]
                           /\ Loading(l) /\ files'[f] # files[f] =>
                                swaps'[l][f] = 2 \/ swaps'[l][f] = swaps[l][f] + 1
  <2>1. SUFFICES ASSUME NEW f \in Artifacts
                 PROVE  /\ swaps'[l][f] \in Nat /\ swaps[l][f] \in Nat
                        /\ swaps'[l][f] >= swaps[l][f]
                        /\ Loading(l) /\ files'[f] # files[f] =>
                             swaps'[l][f] = 2 \/ swaps'[l][f] = swaps[l][f] + 1
    OBVIOUS
  <2>2. swaps[l][f] \in 0 .. 2
    BY DEF SwapCap
  <2>3. swaps'[l][f] = IF Swapped(l, f) THEN swaps[l][f] + 1 ELSE swaps[l][f]
    BY DEF Run
  <2>. QED
    BY <2>2, <2>3 DEF Swapped, SwapCap
<1>3. SUFFICES ASSUME Loading(l) \/ op[l] = "ok"
               PROVE  InOrder(l)' /\ Explained(l)'
  BY <1>1 DEF LoadInv, Loading
<1>4. InOrder(l) /\ Explained(l)
  BY <1>3 DEF LoadInv
<1>5. InOrder(l)'
  BY <1>1, <1>4 DEF InOrder
<1>6. \A f \in Artifacts : Foreign(l, f)' <=> Foreign(l, f)
  BY <1>1 DEF Foreign
<1>7. {"pk", "vk", "pvk", "ar1cs", "config"} \subseteq Artifacts
  BY DEF Artifacts, Keyed
<1>8. Loading(l) \/ op[l] = "ok"
  BY <1>3
<1>9. HashesAgree(man[l])' <=> HashesAgree(man[l])
  BY <1>1 DEF HashesAgree
<1>10. op[l] = "parse" /\ Replaced(l, lfile[l])' => swaps'[l][lfile[l]] >= 1
  BY <1>1, <1>2, <1>4 DEF Explained, Replaced, Loading
<1>11. op[l] = "trailer" /\ Foreign(l, "ar1cs") /\ ~Replaced(l, "ar1cs")' =>
         swaps'[l]["ar1cs"] >= 2
  <2>. SUFFICES ASSUME op[l] = "trailer", Foreign(l, "ar1cs"), ~Replaced(l, "ar1cs")'
                PROVE  swaps'[l]["ar1cs"] >= 2
    OBVIOUS
  <2>1. CASE Replaced(l, "ar1cs")
    <3>1. Loading(l) /\ files'["ar1cs"] # files["ar1cs"]
      BY <2>1, <1>1 DEF Replaced, Loading
    <3>2. swaps[l]["ar1cs"] >= 1
      BY <1>4 DEF Explained
    <3>. QED
      BY <1>2, <1>7, <3>1, <3>2
  <2>2. CASE ~Replaced(l, "ar1cs")
    <3>1. swaps[l]["ar1cs"] >= 2
      BY <1>4, <2>2 DEF Explained
    <3>. QED
      BY <1>2, <1>7, <3>1
  <2>. QED
    BY <2>1, <2>2
<1>. QED
  BY <1>1, <1>2, <1>4, <1>5, <1>6, <1>7, <1>9, <1>10, <1>11 DEF Explained

LEMMA BeginKeepsLoadInv ==
  ASSUME TInv, NEW m \in Loaders, Begin(m), NEW l \in Loaders, LoadInv(l)
  PROVE  LoadInv(l)'
<1>. USE DEF TInv, TypeOK, LoaderTypeOK, HistoryTypeOK
<1>1. CASE l # m
  <2>1. /\ op'[l] = op[l] /\ lfile'[l] = lfile[l] /\ man'[l] = man[l]
        /\ parsed'[l] = parsed[l] /\ swaps'[l] = swaps[l] /\ files' = files
    BY <1>1 DEF Begin, BeginLoad, Proceed, dirVars
  <2>. QED
    BY <2>1 DEF LoadInv, Loading, InOrder, Explained, Foreign, Replaced, HashesAgree
<1>2. CASE l = m
  <2>1. /\ op'[l] \in {"key", "hash"} /\ lfile'[l] = "ar1cs" /\ parsed'[l] = Nothing
    BY <1>2 DEF Begin, BeginLoad, Proceed
  <2>2. \A f \in Artifacts : ~Foreign(l, f)'
    BY <2>1 DEF Foreign, Nothing
  <2>. QED
    BY <2>1, <2>2 DEF LoadInv, InOrder, Explained, ParsedBefore, Artifacts, Keyed
<1>. QED
  BY <1>1, <1>2

\* The load's own steps.
LEMMA StepKeepsOwnLoadInv ==
  ASSUME TInv, NEW l \in Loaders, LoaderStep(l), UNCHANGED history, LoadInv(l)
  PROVE  LoadInv(l)'
<1>. USE DEF TInv, TypeOK, LoaderTypeOK, Proceed
<1>1. Loading(l) /\ InOrder(l) /\ Explained(l)
  BY DEF LoadInv, Loading, LoaderStep, ReadKey, Verify, Hash, Parse, Trailer, LoadConfig,
         CheckSol, Mismatch, PickUpWasm
<1>2. UNCHANGED files /\ UNCHANGED man /\ UNCHANGED swaps
  BY DEF LoaderStep, ReadKey, Verify, Hash, Parse, Trailer, LoadConfig, CheckSol, Mismatch,
         PickUpWasm, dirVars, history
<1>3. CASE ReadKey(l) \/ Verify(l) \/ PickUpWasm(l)
  <2>1. /\ parsed' = parsed /\ lfile' = lfile
        /\ op'[l] \in {"verify", "hash", "err", "ok"}
        /\ op'[l] \in {"verify", "hash"} => lfile[l] = "ar1cs"
        /\ op'[l] = "ok" => op[l] = "wasm"
    BY <1>1, <1>3 DEF ReadKey, Verify, PickUpWasm, InOrder
  <2>2. \A f \in Artifacts : Foreign(l, f)' <=> Foreign(l, f)
    BY <1>2, <2>1 DEF Foreign
  <2>3. op'[l] # "err" => InOrder(l)'
    BY <1>1, <1>2, <2>1 DEF InOrder
  <2>4. op'[l] # "err" => Explained(l)'
    <3>1. {"ar1cs", "pk", "vk", "pvk", "config"} \subseteq Artifacts
      BY DEF Artifacts, Keyed
    <3>2. HashesAgree(man[l])' <=> HashesAgree(man[l])
      BY <1>2 DEF HashesAgree
    <3>3. op'[l] # "err" => op'[l] \notin {"parse", "trailer"}
      BY <2>1
    <3>4. lfile[l] = "ar1cs" => ~Foreign(l, "ar1cs")
      BY <1>1, <1>3 DEF Explained, ReadKey, Verify, PickUpWasm
    <3>. QED
      BY <1>1, <1>2, <2>1, <2>2, <3>1, <3>2, <3>3, <3>4 DEF Explained
  <2>. QED
    BY <2>1, <2>3, <2>4 DEF LoadInv, Loading
<1>4. CASE Hash(l)
  <2>1. /\ parsed' = parsed /\ lfile' = lfile /\ op'[l] = "parse" /\ op[l] = "hash"
        /\ lfile[l] \in {"ar1cs", "pk", "vk", "pvk"}
        /\ ~Replaced(l, lfile[l])
    BY <1>4 DEF Hash, Matches, FileOf, Replaced
  <2>. QED
    BY <1>1, <1>2, <2>1
    DEF LoadInv, Loading, InOrder, Explained, Foreign, Replaced, HashesAgree
<1>5. CASE Parse(l)
  <2>0. PICK f \in Artifacts : f = lfile[l]
    OBVIOUS
  <2>1. /\ f \in {"ar1cs", "pk", "vk", "pvk"}
        /\ op[l] = "parse" /\ files[f] # None
        /\ parsed'[l] = [parsed[l] EXCEPT ![f] = files[f]]
    BY <1>1, <1>5, <2>0 DEF Parse, InOrder
  <2>7. /\ parsed'[l][f] = files[f]
        /\ \A g \in Artifacts : g # f => parsed'[l][g] = parsed[l][g]
    BY <2>1
  <2>2. /\ \A g \in Artifacts : g # f => (Foreign(l, g)' <=> Foreign(l, g))
        /\ Foreign(l, f)' => Replaced(l, f)
        /\ parsed'[l][f] # None
        /\ \A g \in Artifacts : parsed[l][g] # None => parsed'[l][g] # None
    <3>1. \A g \in Artifacts : g # f => (Foreign(l, g)' <=> Foreign(l, g))
      BY <1>2, <2>7 DEF Foreign
    <3>2. Foreign(l, f)' => Replaced(l, f)
      BY <1>2, <2>7 DEF Foreign, Replaced
    <3>. QED
      BY <2>1, <2>7, <3>1, <3>2
  <2>3. Foreign(l, f)' => swaps[l][f] >= 1
    BY <1>1, <2>0, <2>1, <2>2 DEF Explained
  <2>4. CASE f = "ar1cs"
    <3>1. op'[l] = "trailer" /\ lfile' = lfile
      BY <1>5, <2>0, <2>4 DEF Parse
    <3>6. lfile'[l] = "ar1cs" /\ ParsedBefore["ar1cs"] = {} /\ parsed'[l]["ar1cs"] # None
      BY <2>0, <2>2, <2>4, <3>1 DEF ParsedBefore
    <3>2. InOrder(l)'
      BY <3>1, <3>6 DEF InOrder
    <3>4. Foreign(l, "ar1cs")' => Replaced(l, "ar1cs")'
      BY <1>2, <2>4, <2>7 DEF Foreign, Replaced
    <3>5. /\ \A g \in {"pk", "vk", "pvk"} : Foreign(l, g)' <=> Foreign(l, g)
          /\ Foreign(l, "config")' <=> Foreign(l, "config")
      BY <2>2, <2>4 DEF Artifacts, Keyed
    <3>3. Explained(l)'
      BY <1>1, <1>2, <2>0, <2>3, <2>4, <3>1, <3>4, <3>5 DEF Explained
    <3>. QED
      BY <3>2, <3>3 DEF LoadInv
  <2>5. CASE f # "ar1cs"
    <3>1. op'[l] = "hash" /\ lfile'[l] = LoadedAfter[f]
      BY <1>5, <2>0, <2>1, <2>5 DEF Parse, Advance
    <3>2. /\ LoadedAfter[f] \in {"vk", "pvk", "config"}
          /\ ParsedBefore[LoadedAfter[f]] = ParsedBefore[f] \union {f}
          /\ ParsedBefore[f] \subseteq Artifacts
      BY <2>1, <2>5 DEF LoadedAfter, ParsedBefore, Artifacts, Keyed
    <3>3. InOrder(l)'
      BY <1>1, <2>0, <2>2, <3>1, <3>2 DEF InOrder
    <3>4. /\ f \in {"pk", "vk", "pvk"}
          /\ {"ar1cs", "pk", "vk", "pvk", "config"} \subseteq Artifacts
          /\ lfile'[l] # "ar1cs"
      BY <2>1, <2>5, <3>1, <3>2 DEF Artifacts, Keyed
    <3>5. \A g \in {"pk", "vk", "pvk"} : Foreign(l, g)' => swaps'[l][g] >= 1
      BY <1>1, <1>2, <2>2, <2>3, <3>4 DEF Explained
    <3>6. /\ ~Foreign(l, "config")'
          /\ Foreign(l, "ar1cs")' <=> Foreign(l, "ar1cs")
      BY <1>1, <2>2, <3>4 DEF Explained
    <3>7. Explained(l)'
      BY <1>1, <1>2, <2>0, <2>5, <3>1, <3>4, <3>5, <3>6 DEF Explained, HashesAgree
    <3>. QED
      BY <3>3, <3>7 DEF LoadInv
  <2>. QED
    BY <2>4, <2>5
<1>6. CASE Trailer(l)
  <2>1. /\ op[l] = "trailer" /\ lfile[l] = "ar1cs" /\ parsed' = parsed
        /\ op'[l] = "hash" /\ lfile'[l] = "pk"
    BY <1>1, <1>6 DEF Trailer, Advance, InOrder, LoadedAfter
  <2>2. HashesAgree(man[l]) => ~Replaced(l, "ar1cs")
    BY <1>6 DEF Trailer, Matches, FileOf, HashesAgree, Replaced
  <2>. QED
    BY <1>1, <1>2, <2>1, <2>2
    DEF LoadInv, InOrder, Explained, Foreign, Replaced, HashesAgree, ParsedBefore
<1>7. CASE LoadConfig(l)
  <2>1. /\ op[l] = "hash" /\ lfile[l] = "config"
        /\ parsed'[l] = [parsed[l] EXCEPT !["config"] = files["config"]]
        /\ files["config"] = man[l].entry["config"]
        /\ op'[l] = "hash" /\ lfile'[l] = "sol"
    BY <1>7 DEF LoadConfig, Advance, LoadedAfter, Matches, FileOf
  <2>2. files["config"] # None
    <3>1. man[l] \in Manifests
      BY <1>1 DEF Loading
    <3>2. man[l].entry["config"] \in Content
      BY <3>1 DEF Manifests, Slots, Artifacts
    <3>. QED
      BY <2>1, <3>2, NothingAssumption
  <2>3. /\ ~Foreign(l, "config")' /\ parsed'[l]["config"] # None
        /\ \A g \in Artifacts : g # "config" =>
             parsed'[l][g] = parsed[l][g] /\ (Foreign(l, g)' <=> Foreign(l, g))
    BY <1>2, <2>1, <2>2 DEF Foreign, Artifacts
  <2>4. InOrder(l)'
    BY <1>1, <2>1, <2>3 DEF InOrder, ParsedBefore, Artifacts, Keyed
  <2>5. Explained(l)'
    BY <1>1, <1>2, <2>1, <2>3 DEF Explained, Replaced, HashesAgree, Artifacts, Keyed
  <2>. QED
    BY <2>4, <2>5 DEF LoadInv
<1>8. CASE CheckSol(l)
  <2>1. op[l] = "hash" /\ lfile[l] = "sol" /\ parsed' = parsed /\ op'[l] = "wasm" /\ lfile' = lfile
    BY <1>8 DEF CheckSol, Advance
  <2>. QED
    BY <1>1, <1>2, <2>1
    DEF LoadInv, InOrder, Explained, Foreign, Replaced, HashesAgree
<1>9. CASE Mismatch(l)
  BY <1>9 DEF Mismatch, LoadInv, Loading
<1>. QED
  BY <1>3, <1>4, <1>5, <1>6, <1>7, <1>8, <1>9 DEF LoaderStep

LEMMA StepKeepsOtherLoadInv ==
  ASSUME TInv, NEW m \in Loaders, Load(m), NEW l \in Loaders, l # m, LoadInv(l)
  PROVE  LoadInv(l)'
<1>1. /\ op'[l] = op[l] /\ lfile'[l] = lfile[l] /\ parsed'[l] = parsed[l]
  BY DEF Load, LoaderStep, ReadKey, Verify, Hash, Parse, Trailer, LoadConfig, CheckSol,
         Mismatch, PickUpWasm, Advance, Proceed, TInv, TypeOK, LoaderTypeOK
<1>2. UNCHANGED <<files, man, swaps>>
  BY DEF Load, LoaderStep, ReadKey, Verify, Hash, Parse, Trailer, LoadConfig, CheckSol,
         Mismatch, PickUpWasm, dirVars, history
<1>. QED
  BY <1>1, <1>2 DEF LoadInv, Loading, InOrder, Explained, Foreign, Replaced, HashesAgree

LEMMA InitLoadInv == Init => \A l \in Loaders : LoadInv(l)
  BY DEF Init, LoaderInit, LoadInv, Loading

LEMMA NextLoadInv ==
  TInv /\ (\A l \in Loaders : LoadInv(l)) /\ [Next]_vars => (\A l \in Loaders : LoadInv(l))'
<1>. SUFFICES ASSUME TInv, \A l \in Loaders : LoadInv(l), [Next]_vars, NEW l \in Loaders
              PROVE  LoadInv(l)'
  OBVIOUS
<1>1. CASE \E w \in Runs : Run(w)
  BY <1>1, RunKeepsLoadInv
<1>2. CASE \E m \in Loaders : Begin(m)
  BY <1>2, BeginKeepsLoadInv
<1>3. CASE \E m \in Loaders : Load(m)
  BY <1>3, StepKeepsOwnLoadInv, StepKeepsOtherLoadInv DEF Load
<1>4. CASE UNCHANGED vars
  BY <1>4 DEF vars, dirVars, loaderVars, history, LoadInv, Loading, InOrder, Explained,
              Foreign, Replaced, HashesAgree
<1>. QED
  BY <1>1, <1>2, <1>3, <1>4 DEF Next

LEMMA LoadsInductive == Spec => [](\A l \in Loaders : LoadInv(l))
  BY InitLoadInv, NextLoadInv, TypesInductive, PTL DEF Spec

\* For any number of runs and loaders, overlapping as they like: a load that returns Ok
\* with a pk, vk or pvk that is not its manifest's has raced with one replacement of that
\* file, with an ar1cs that is not its manifest's with two, and its config.json always is
\* the manifest's.
THEOREM MismatchExplained == Spec => []SwapsExplainMismatch
<1>1. (\A l \in Loaders : LoadInv(l)) => SwapsExplainMismatch
  <2>. SUFFICES ASSUME \A l \in Loaders : LoadInv(l),
                       NEW l \in Loaders, op[l] = "ok",
                       NEW f \in Parsed, parsed[l][f] # man[l].entry[f]
                PROVE  /\ f # "config"
                       /\ swaps[l][f] >= IF f = "ar1cs" /\ HashesAgree(man[l]) THEN 2 ELSE 1
    BY DEF SwapsExplainMismatch
  <2>1. InOrder(l) /\ Explained(l)
    BY DEF LoadInv
  <2>2. lfile[l] = "sol" /\ f \in ParsedBefore["sol"]
    BY <2>1 DEF InOrder, Parsed, Artifacts, Keyed, ParsedBefore
  <2>3. Foreign(l, f)
    BY <2>1, <2>2 DEF InOrder, Foreign
  <2>. QED
    BY <2>1, <2>2, <2>3 DEF Explained, Parsed, Artifacts, Keyed
<1>. QED
  BY <1>1, LoadsInductive, PTL

-----------------------------------------------------------------------------
(***************************************************************************)
(* What a load guarantees when runs take turns (MaxActive = 1).  The one   *)
(* active run reads back what it published itself, so every manifest it    *)
(* emits names one generation, by its true provenance.                     *)
(***************************************************************************)
\* The artifacts published before the one at hand.
PublishedBefore ==
  [pk |-> {}, vk |-> {"pk"}, pvk |-> {"pk", "vk"}, ar1cs |-> {"pk", "vk", "pvk"},
   sol |-> {"pk", "vk", "pvk", "ar1cs"}, config |-> {"pk", "vk", "pvk", "ar1cs", "sol"}]

OutputOf(w) == Output(cli[w].config, key[w])

ReadsBackOwn(w) ==
  /\ phase[w] # "setup" => key[w] = Draw(w)
  /\ phase[w] = "publish" => \A f \in PublishedBefore[at[w]] : files[f] = OutputOf(w)[f]
  /\ phase[w] \notin {"setup", "publish"} => \A f \in Artifacts : files[f] = OutputOf(w)[f]
  /\ phase[w] \notin {"setup", "publish"} =>
       \A s \in Slots : draft[w][s] # None => draft[w][s] = OutputOf(w)[FileOf(s)]

Coherent(m) ==
  \E k \in Randomness :
    /\ \A s \in Slots : m.entry[s] = Output(m.tag, k)[FileOf(s)]
    /\ m.provenance = IF k \in Seeds THEN k ELSE "os-rng"

TakingTurns ==
  /\ \A v, w \in Active : v = w
  /\ \A w \in Active : ReadsBackOwn(w)
  /\ \A w \in Runs : phase[w] \in {"idle", "setup", "publish"} => draft[w] = NoEntries
  /\ manifest # None => Coherent(manifest)

SerialInv == TakingTurns /\ \A l \in Loaders : man[l] # None => Coherent(man[l])

LEMMA NobodyElse ==
  ASSUME IsFiniteSet(Runs), MaxActive = 1, NEW w \in Runs, Start(w)
  PROVE  Active = {}
<1>1. IsFiniteSet(Active)
  BY FS_Subset DEF Active
<1>2. Cardinality(Active) \in Nat /\ Cardinality(Active) < 1
  BY <1>1, FS_CardinalityType DEF Start
<1>. QED
  BY <1>1, <1>2, FS_EmptySet

LEMMA StartTakesTurn ==
  ASSUME TInv, TakingTurns, IsFiniteSet(Runs), MaxActive = 1, NEW w \in Runs, Start(w)
  PROVE  TakingTurns'
<1>. USE DEF TInv, TypeOK, WriterTypeOK
<1>1. Active = {}
  BY NobodyElse
<1>2. /\ phase[w] = "idle" /\ phase'[w] \in {"setup", "rejected"}
      /\ \A v \in Runs : v # w => phase'[v] = phase[v]
      /\ UNCHANGED <<files, manifest, at, key, draft>>
  BY DEF Start, Goto, dirVars
<1>3. Active' \subseteq {w}
  BY <1>1, <1>2 DEF Active
<1>4. \A v \in Active' : ReadsBackOwn(v)'
  BY <1>2, <1>3 DEF ReadsBackOwn, Active, Resting
<1>5. \A v \in Runs : phase'[v] \in {"idle", "setup", "publish"} => draft'[v] = NoEntries
  BY <1>2 DEF TakingTurns
<1>6. manifest' # None => Coherent(manifest)'
  BY <1>2 DEF TakingTurns, Coherent
<1>. QED
  BY <1>3, <1>4, <1>5, <1>6 DEF TakingTurns

\* A step of the run whose turn it is concerns nobody else.
LEMMA OwnTurn ==
  ASSUME TInv, TakingTurns, NEW w \in Active,
         \A v \in Runs : v # w => phase'[v] = phase[v]
  PROVE  Active' \subseteq {w}
  BY DEF TakingTurns, Active

LEMMA SetupTakesTurn ==
  ASSUME TInv, TakingTurns, NEW w \in Runs, Setup(w)
  PROVE  TakingTurns'
<1>. USE DEF TInv, TypeOK, WriterTypeOK
<1>1. w \in Active
  BY DEF Setup, Active, Resting
<1>2. /\ phase[w] = "setup" /\ phase'[w] = "publish" /\ at'[w] = "pk"
      /\ \A v \in Runs : v # w => phase'[v] = phase[v]
      /\ key'[w] = Draw(w)
      /\ UNCHANGED <<files, manifest, cli, draft>>
  BY DEF Setup, Goto, dirVars
<1>3. Active' \subseteq {w}
  BY <1>1, <1>2, OwnTurn
<1>4. ReadsBackOwn(w)'
  BY <1>2 DEF ReadsBackOwn, PublishedBefore, Draw
<1>5. \A v \in Runs : phase'[v] \in {"idle", "setup", "publish"} => draft'[v] = NoEntries
  BY <1>2 DEF TakingTurns
<1>6. manifest' # None => Coherent(manifest)'
  BY <1>2 DEF TakingTurns, Coherent
<1>. QED
  BY <1>3, <1>4, <1>5, <1>6 DEF TakingTurns

LEMMA PublishTakesTurn ==
  ASSUME TInv, TakingTurns, NEW w \in Runs, Publish(w)
  PROVE  TakingTurns'
<1>. USE DEF TInv, TypeOK, WriterTypeOK, DirTypeOK
<1>1. w \in Active
  BY DEF Publish, Active, Resting
<1>2. /\ phase[w] = "publish"
      /\ \A v \in Runs : v # w => phase'[v] = phase[v]
      /\ UNCHANGED <<manifest, cli, key, draft>>
      /\ files' = [files EXCEPT ![at[w]] = OutputOf(w)[at[w]]]
  BY DEF Publish, Goto, OutputOf
<1>3. Active' \subseteq {w}
  BY <1>1, <1>2, OwnTurn
<1>4. at[w] \in Artifacts
  BY <1>2 DEF Slots
<1>5. \A f \in PublishedBefore[at[w]] \union {at[w]} : files'[f] = OutputOf(w)[f]
  BY <1>1, <1>2, <1>4 DEF TakingTurns, ReadsBackOwn, PublishedBefore, Artifacts, Keyed
<1>6. OutputOf(w)' = OutputOf(w)
  BY <1>2 DEF OutputOf
<1>7. ReadsBackOwn(w)'
  <2>1. key'[w] = Draw(w)'
    BY <1>1, <1>2 DEF TakingTurns, ReadsBackOwn, Draw
  <2>2. draft'[w] = NoEntries
    BY <1>2 DEF TakingTurns
  <2>3. CASE at[w] # "config"
    <3>1. phase'[w] = "publish" /\ at'[w] = PublishedAfter[at[w]]
      BY <1>2, <2>3 DEF Publish
    <3>2. PublishedBefore[PublishedAfter[at[w]]] = PublishedBefore[at[w]] \union {at[w]}
      BY <1>4, <2>3 DEF PublishedBefore, PublishedAfter, Artifacts, Keyed
    <3>. QED
      BY <1>5, <1>6, <2>1, <3>1, <3>2 DEF ReadsBackOwn
  <2>4. CASE at[w] = "config"
    <3>1. phase'[w] = "hash"
      BY <1>2, <2>4 DEF Publish, Goto
    <3>2. Artifacts = PublishedBefore[at[w]] \union {at[w]}
      BY <2>4 DEF PublishedBefore, Artifacts, Keyed
    <3>3. \A s \in Slots : draft'[w][s] = None
      BY <2>2 DEF NoEntries
    <3>. QED
      BY <1>5, <1>6, <2>1, <3>1, <3>2, <3>3 DEF ReadsBackOwn
  <2>. QED
    BY <2>3, <2>4
<1>8. \A v \in Runs : phase'[v] \in {"idle", "setup", "publish"} => draft'[v] = NoEntries
  BY <1>2 DEF TakingTurns
<1>9. manifest' # None => Coherent(manifest)'
  BY <1>2 DEF TakingTurns, Coherent
<1>. QED
  BY <1>3, <1>7, <1>8, <1>9 DEF TakingTurns

LEMMA HashEntryTakesTurn ==
  ASSUME TInv, TakingTurns, NEW w \in Runs, HashEntry(w)
  PROVE  TakingTurns'
<1>. USE DEF TInv, TypeOK, WriterTypeOK, DirTypeOK
<1>1. w \in Active
  BY DEF HashEntry, Active, Resting
<1>2. /\ phase[w] = "hash" /\ phase'[w] \in {"hash", "attach"}
      /\ \A v \in Runs : v # w => phase'[v] = phase[v] /\ draft'[v] = draft[v]
      /\ UNCHANGED <<files, manifest, cli, key>>
      /\ draft'[w] = [draft[w] EXCEPT ![at[w]] = files[FileOf(at[w])]]
  BY DEF HashEntry, Goto, dirVars
<1>3. Active' \subseteq {w}
  BY <1>1, <1>2, OwnTurn
<1>4. at[w] \in Slots /\ FileOf(at[w]) \in Artifacts
  BY DEF Slots, FileOf, Artifacts, Keyed
<1>5. /\ files[FileOf(at[w])] = OutputOf(w)[FileOf(at[w])]
      /\ key[w] = Draw(w)
      /\ \A f \in Artifacts : files[f] = OutputOf(w)[f]
      /\ \A s \in Slots : draft[w][s] # None => draft[w][s] = OutputOf(w)[FileOf(s)]
  BY <1>1, <1>2, <1>4 DEF TakingTurns, ReadsBackOwn
<1>6. OutputOf(w)' = OutputOf(w) /\ Draw(w)' = Draw(w)
  BY <1>2 DEF OutputOf, Draw
<1>7. \A s \in Slots : draft'[w][s] # None => draft'[w][s] = OutputOf(w)[FileOf(s)]
  BY <1>2, <1>4, <1>5
<1>8. ReadsBackOwn(w)'
  BY <1>2, <1>5, <1>6, <1>7 DEF ReadsBackOwn
<1>9. \A v \in Runs : phase'[v] \in {"idle", "setup", "publish"} => draft'[v] = NoEntries
  BY <1>2 DEF TakingTurns
<1>10. manifest' # None => Coherent(manifest)'
  BY <1>2 DEF TakingTurns, Coherent
<1>. QED
  BY <1>3, <1>8, <1>9, <1>10 DEF TakingTurns

\* The manifest is built from the run's own output.
LEMMA EmitIsCoherent ==
  ASSUME TInv, TakingTurns, NEW w \in Active, phase[w] = "emit"
  PROVE  Coherent(ManifestOf(w))
<1>. USE DEF TInv, TypeOK
<1>1. /\ cli[w].config \in Configs /\ cli[w].seed \in Seeds \union {None}
      /\ key[w] \in Randomness /\ w \in Runs
  BY ActiveCli
<1>2. /\ key[w] = Draw(w)
      /\ \A s \in Slots : draft[w][s] = OutputOf(w)[FileOf(s)]
  BY <1>1 DEF TakingTurns, ReadsBackOwn, Drafted
<1>3. \A s \in Slots : ManifestOf(w).entry[s] = Output(ManifestOf(w).tag, key[w])[FileOf(s)]
  BY <1>2 DEF ManifestOf, OutputOf
<1>4. ManifestOf(w).provenance = IF key[w] \in Seeds THEN key[w] ELSE "os-rng"
  BY <1>1, <1>2, DrawsAssumption DEF ManifestOf, Draw
<1>. QED
  BY <1>1, <1>3, <1>4 DEF Coherent

LEMMA FinishTakesTurn ==
  ASSUME TInv, TakingTurns, NEW w \in Runs,
         AttachWasm(w) \/ FinishCopy(w) \/ Sign(w) \/ Emit(w) \/ Stop(w)
  PROVE  TakingTurns'
<1>. USE DEF TInv, TypeOK, WriterTypeOK
<1>1. w \in Active
  BY DEF AttachWasm, FinishCopy, Sign, Emit, Stop, Active, Resting
<1>2. /\ \A v \in Runs : v # w => phase'[v] = phase[v] /\ draft'[v] = draft[v]
      /\ phase'[w] \in {"copy", "sign", "emit"} \union (Resting \ {"idle"})
      /\ phase'[w] \in {"copy", "sign", "emit"} =>
           draft'[w] = draft[w] /\ phase[w] \in {"attach", "copy", "sign"}
      /\ UNCHANGED <<files, cli, key>>
  BY FinishEffect DEF Resting
<1>3. Active' \subseteq {w}
  BY <1>1, <1>2, OwnTurn
<1>4. OutputOf(w)' = OutputOf(w) /\ Draw(w)' = Draw(w)
  BY <1>2 DEF OutputOf, Draw
<1>5. \A v \in Active' : ReadsBackOwn(v)'
  <2>1. SUFFICES ASSUME w \in Active'
                 PROVE  ReadsBackOwn(w)'
    BY <1>3
  <2>2. phase'[w] \in {"copy", "sign", "emit"}
    BY <2>1, <1>2 DEF Active
  <2>. QED
    BY <1>1, <1>2, <1>4, <2>2 DEF TakingTurns, ReadsBackOwn
<1>6. \A v \in Runs : phase'[v] \in {"idle", "setup", "publish"} => draft'[v] = NoEntries
  BY <1>2 DEF TakingTurns, Resting
<1>7. manifest' = manifest \/ (phase[w] = "emit" /\ manifest' = ManifestOf(w))
  BY DEF AttachWasm, FinishCopy, Sign, Emit, Stop, dirVars
<1>8. manifest' # None => Coherent(manifest')
  BY <1>1, <1>7, EmitIsCoherent DEF TakingTurns
<1>9. manifest' # None => Coherent(manifest)'
  BY <1>8 DEF Coherent
<1>. QED
  BY <1>3, <1>5, <1>6, <1>9 DEF TakingTurns

LEMMA InitSerial == Init => SerialInv
  BY DEF Init, DirInit, WriterInit, LoaderInit, SerialInv, TakingTurns, Active, Resting

LEMMA NextSerial ==
  ASSUME IsFiniteSet(Runs), MaxActive = 1
  PROVE  TInv /\ SerialInv /\ [Next]_vars => SerialInv'
<1>. SUFFICES ASSUME TInv, SerialInv, [Next]_vars
              PROVE  SerialInv'
  OBVIOUS
<1>. USE DEF SerialInv
<1>1. ASSUME NEW w \in Runs, Run(w)
      PROVE  SerialInv'
  <2>1. TakingTurns'
    BY <1>1, StartTakesTurn, SetupTakesTurn, PublishTakesTurn, HashEntryTakesTurn,
       FinishTakesTurn DEF Run, RunStep
  <2>2. \A l \in Loaders : man'[l] # None => Coherent(man[l])'
    BY <1>1 DEF Run, loaderVars, Coherent
  <2>. QED
    BY <2>1, <2>2
<1>2. ASSUME NEW l \in Loaders, Begin(l) \/ Load(l)
      PROVE  SerialInv'
  <2>1. UNCHANGED <<files, manifest, phase, at, cli, key, draft>>
    BY <1>2, LoaderStepType DEF Begin, BeginLoad, Load, dirVars, writerVars, TInv, TypeOK
  <2>2. TakingTurns'
    BY <2>1 DEF TakingTurns, Active, ReadsBackOwn, OutputOf, Draw, Coherent
  <2>3. man' = man \/ man' = [man EXCEPT ![l] = manifest]
    BY <1>2 DEF Begin, BeginLoad, Load, LoaderStep, ReadKey, Verify, Hash, Parse, Trailer,
                LoadConfig, CheckSol, Mismatch, PickUpWasm
  <2>4. \A m \in Loaders : man'[m] # None => Coherent(man'[m])
    BY <2>3 DEF TakingTurns, TInv, TypeOK, LoaderTypeOK
  <2>5. \A m \in Loaders : man'[m] # None => Coherent(man[m])'
    BY <2>4 DEF Coherent
  <2>. QED
    BY <2>2, <2>5
<1>3. CASE UNCHANGED vars
  BY <1>3 DEF vars, dirVars, writerVars, loaderVars, TakingTurns, Active, ReadsBackOwn,
              OutputOf, Draw, Coherent
<1>. QED
  BY <1>1, <1>2, <1>3 DEF Next

LEMMA SerialInductive ==
  ASSUME IsFiniteSet(Runs), MaxActive = 1
  PROVE  Spec => []SerialInv
<1>1. TInv /\ SerialInv /\ [Next]_vars => SerialInv'
  BY NextSerial
<1>. QED
  BY <1>1, InitSerial, TypesInductive, PTL DEF Spec

\* When runs take turns, a manifest that names key material drawn from a seed discloses
\* that seed, however many runs there are and wherever earlier ones stopped.
THEOREM SeedAlwaysDisclosed ==
  ASSUME IsFiniteSet(Runs), MaxActive = 1
  PROVE  Spec => []SeedDisclosed
<1>1. SerialInv => SeedDisclosed
  <2>. SUFFICES ASSUME SerialInv, manifest # None, NEW f \in Keyed,
                       manifest.entry[f].key \in Seeds
                PROVE  manifest.provenance = manifest.entry[f].key
    BY DEF SeedDisclosed
  <2>1. PICK k \in Randomness :
          /\ \A s \in Slots : manifest.entry[s] = Output(manifest.tag, k)[FileOf(s)]
          /\ manifest.provenance = IF k \in Seeds THEN k ELSE "os-rng"
    BY DEF SerialInv, TakingTurns, Coherent
  <2>2. f \in Slots /\ f \in Artifacts /\ FileOf(f) = f
    BY DEF FileOf, Slots, Artifacts, Keyed
  <2>3. Output(manifest.tag, k)[f] = [cfg |-> manifest.tag, key |-> k]
    BY <2>2 DEF Output
  <2>4. manifest.entry[f].key = k
    BY <2>1, <2>2, <2>3
  <2>. QED
    BY <2>1, <2>4
<1>. QED
  BY <1>1, SerialInductive, PTL

\* When runs take turns, a load during which no artifact changes returns one complete
\* setup output with its true provenance; what a stopped run left behind is refused.
THEOREM LoadsOneGeneration ==
  ASSUME IsFiniteSet(Runs), MaxActive = 1
  PROVE  Spec => []OneGeneration
<1>1. TInv /\ (\A l \in Loaders : LoadInv(l)) /\ SerialInv => OneGeneration
  <2>. SUFFICES ASSUME TInv, \A l \in Loaders : LoadInv(l), SerialInv,
                       NEW l \in Loaders, op[l] = "ok",
                       \A f \in Artifacts : swaps[l][f] = 0
                PROVE  \E k \in Randomness :
                         /\ \A f \in Parsed : parsed[l][f] = Output(man[l].tag, k)[f]
                         /\ man[l].provenance = IF k \in Seeds THEN k ELSE "os-rng"
    BY DEF OneGeneration
  <2>1. InOrder(l) /\ Explained(l) /\ lfile[l] = "sol" /\ man[l] # None
    BY DEF LoadInv, InOrder, TInv, TypeOK, LoaderTypeOK
  <2>2. \A f \in Parsed : parsed[l][f] # None /\ f \in Artifacts
    BY <2>1 DEF InOrder, ParsedBefore, Parsed, Artifacts, Keyed
  <2>3. \A f \in Parsed : ~Foreign(l, f)
    BY <2>1 DEF Explained, Parsed, Artifacts, Keyed
  <2>4. \A f \in Parsed : parsed[l][f] = man[l].entry[f]
    BY <2>2, <2>3 DEF Foreign
  <2>5. \A f \in Parsed : f \in Slots /\ FileOf(f) = f
    BY DEF Parsed, Slots, FileOf, Artifacts, Keyed
  <2>. QED
    BY <2>1, <2>4, <2>5 DEF SerialInv, Coherent
<1>. QED
  BY <1>1, TypesInductive, LoadsInductive, SerialInductive, PTL

-----------------------------------------------------------------------------
(***************************************************************************)
(* A completed bundle loads.  While the run that last changed the          *)
(* directory is done, the manifest names what the directory holds, and the *)
(* published key is the one it is signed with; a load that began then and  *)
(* saw no change since finds every comparison true.                        *)
(***************************************************************************)
MatchingDir(w) ==
  /\ manifest # None
  /\ \A s \in Slots : files[FileOf(s)] = manifest.entry[s]
  /\ cli[w].vkOut => vkey # None /\ vkey = manifest.sig

DoneInv ==
  /\ \A w \in Runs : phase[w] = "emit" /\ cli[w].vkOut => vkey = cli[w].key
  /\ owner # None /\ phase[owner] = "done" => MatchingDir(owner)

CalmInv(l) ==
  calm[l] =>
    /\ op[l] \notin {"idle", "err"}
    /\ \A s \in Slots : files[FileOf(s)] = man[l].entry[s]
    /\ op[l] \in {"key", "verify"} => vkey # None /\ vkey = man[l].sig
    /\ op[l] = "verify" => verifier[l] = vkey

\* The manifest a run emits names what the directory holds.
LEMMA EmitMatches ==
  ASSUME TInv, TakingTurns, DoneInv, NEW w \in Runs, Emit(w)
  PROVE  MatchingDir(w)'
<1>. USE DEF TInv, TypeOK, WriterTypeOK
<1>1. w \in Active /\ phase[w] = "emit"
  BY DEF Emit, Active, Resting
<1>2. manifest' = ManifestOf(w) /\ UNCHANGED <<files, vkey, cli>>
  BY DEF Emit
<1>3. /\ \A s \in Slots : draft[w][s] = OutputOf(w)[FileOf(s)]
      /\ \A f \in Artifacts : files[f] = OutputOf(w)[f]
  BY <1>1 DEF TakingTurns, ReadsBackOwn, Drafted
<1>4. \A s \in Slots : FileOf(s) \in Artifacts
  BY DEF Slots, FileOf, Artifacts, Keyed
<1>5. \A s \in Slots : files'[FileOf(s)] = manifest'.entry[s]
  BY <1>2, <1>3, <1>4 DEF ManifestOf
<1>6. manifest' # None
  <2>1. \A s \in Slots : draft[w][s] \in Content
    BY <1>1 DEF Drafted
  <2>2. ManifestOf(w) \in Manifests
    <3>1. draft[w] \in [Slots -> Content]
      BY <2>1
    <3>2. /\ cli[w].config \in Configs /\ cli[w].seed \in Seeds \union {None}
          /\ cli[w].key \in Keys \union {None}
      BY <1>1, ActiveCli
    <3>. QED
      BY <3>1, <3>2 DEF ManifestOf, Manifests
  <2>. QED
    BY <1>2, <2>2, NothingAssumption
<1>7. cli[w].vkOut => vkey = cli[w].key /\ cli[w].key # None
  BY <1>1, ActiveCli, NoneAssumption DEF DoneInv
<1>8. manifest'.sig = cli[w].key
  BY <1>2 DEF ManifestOf
<1>. QED
  BY <1>2, <1>5, <1>6, <1>7, <1>8 DEF MatchingDir

LEMMA RunKeepsDone ==
  ASSUME TInv, TakingTurns, DoneInv, NEW w \in Runs, Run(w)
  PROVE  DoneInv'
<1>. USE DEF TInv, TypeOK, WriterTypeOK
<1>1. \A v \in Runs : v # w => phase'[v] = phase[v] /\ cli'[v] = cli[v]
  BY DEF Run, RunStep, Start, Setup, Publish, HashEntry, AttachWasm, FinishCopy, Sign, Emit,
         Stop, Goto, End
<1>2. w \in Active \/ (phase[w] = "idle" /\ vkey' = vkey)
  BY DEF Run, RunStep, Start, Setup, Publish, HashEntry, AttachWasm, FinishCopy, Sign, Emit,
         Stop, Active, Resting, dirVars
<1>3. phase'[w] = "emit" => Sign(w)
  BY DEF Run, RunStep, Start, Setup, Publish, HashEntry, AttachWasm, FinishCopy, Sign, Emit,
         Stop, Goto, End
<1>4. phase'[w] = "done" => Emit(w)
  BY DEF Run, RunStep, Start, Setup, Publish, HashEntry, AttachWasm, FinishCopy, Sign, Emit,
         Stop, Goto, End, Active, Resting
<1>5. ASSUME NEW v \in Runs, phase'[v] = "emit", cli'[v].vkOut
      PROVE  vkey' = cli'[v].key
  <2>1. CASE v = w
    BY <1>3, <1>5, <2>1 DEF Sign
  <2>2. CASE v # w
    <3>1. v \in Active /\ vkey = cli[v].key
      BY <1>1, <1>5, <2>2 DEF DoneInv, Active, Resting
    <3>2. vkey' = vkey
      BY <1>2, <2>2, <3>1 DEF TakingTurns
    <3>. QED
      BY <1>1, <2>2, <3>1, <3>2
  <2>. QED
    BY <2>1, <2>2
<1>6. ASSUME owner' # None, phase'[owner'] = "done"
      PROVE  MatchingDir(owner)'
  <2>1. CASE owner' = w
    <3>1. MatchingDir(w)'
      BY <1>4, <1>6, <2>1, EmitMatches
    <3>. QED
      BY <2>1, <3>1 DEF MatchingDir
  <2>2. CASE owner' # w
    <3>1. owner' = owner /\ dirVars' = dirVars /\ owner \in Runs
      BY <1>6, <2>2 DEF Run
    <3>2. MatchingDir(owner)
      BY <1>1, <1>6, <2>2, <3>1 DEF DoneInv
    <3>. QED
      BY <1>1, <2>2, <3>1, <3>2 DEF MatchingDir, dirVars
  <2>. QED
    BY <2>1, <2>2
<1>. QED
  BY <1>5, <1>6 DEF DoneInv

LEMMA RunKeepsCalm ==
  ASSUME NEW w \in Runs, Run(w), TInv, NEW l \in Loaders, CalmInv(l)
  PROVE  CalmInv(l)'
<1>1. /\ calm'[l] => calm[l] /\ dirVars' = dirVars
      /\ UNCHANGED <<op, man, verifier>>
  BY DEF Run, loaderVars
<1>. QED
  BY <1>1 DEF CalmInv, dirVars

LEMMA BeginIsCalm ==
  ASSUME TInv, DoneInv, NEW m \in Loaders, Begin(m), NEW l \in Loaders, CalmInv(l)
  PROVE  CalmInv(l)'
<1>. USE DEF TInv, TypeOK, LoaderTypeOK
<1>1. UNCHANGED <<files, manifest, vkey>> /\ calm' = [calm EXCEPT ![m] = Completed(op'[m] = "key")]
  BY DEF Begin, BeginLoad, dirVars
<1>2. CASE l # m
  BY <1>1, <1>2 DEF Begin, BeginLoad, Proceed, CalmInv
<1>3. CASE l = m
  <2>1. man'[m] = manifest /\ op'[m] \in {"key", "hash"}
    BY DEF Begin, BeginLoad, Proceed
  <2>2. SUFFICES ASSUME calm'[m] PROVE CalmInv(m)'
    BY <1>3 DEF CalmInv
  <2>3. MatchingDir(owner) /\ (op'[m] = "key" => cli[owner].vkOut)
    BY <1>1, <2>2 DEF Completed, DoneInv
  <2>. QED
    BY <1>1, <2>1, <2>3 DEF MatchingDir, CalmInv
<1>. QED
  BY <1>2, <1>3

LEMMA LoadKeepsCalm ==
  ASSUME TInv, NEW m \in Loaders, Load(m), NEW l \in Loaders, CalmInv(l)
  PROVE  CalmInv(l)'
<1>. USE DEF TInv, TypeOK, LoaderTypeOK
<1>1. UNCHANGED <<files, manifest, vkey, man, calm>>
  BY DEF Load, LoaderStep, ReadKey, Verify, Hash, Parse, Trailer, LoadConfig, CheckSol,
         Mismatch, PickUpWasm, dirVars, history
<1>2. CASE l # m
  <2>1. op'[l] = op[l] /\ verifier'[l] = verifier[l]
    BY <1>2 DEF Load, LoaderStep, ReadKey, Verify, Hash, Parse, Trailer, LoadConfig, CheckSol,
       Mismatch, PickUpWasm, Advance, Proceed
  <2>. QED
    BY <1>1, <2>1 DEF CalmInv
<1>3. CASE l = m
  <2>. SUFFICES ASSUME calm[l] PROVE CalmInv(l)'
    BY <1>1 DEF CalmInv
  <2>1. \A s \in Slots : Matches(l, s)
    BY DEF CalmInv, Matches
  <2>2. ~Mismatch(l)
    BY <2>1 DEF Mismatch, Slots
  <2>3. CASE ReadKey(l)
    BY <1>1, <2>3 DEF ReadKey, Proceed, CalmInv
  <2>4. CASE Verify(l)
    BY <1>1, <2>4 DEF Verify, Proceed, CalmInv
  <2>5. CASE Hash(l) \/ Parse(l) \/ Trailer(l) \/ LoadConfig(l) \/ CheckSol(l) \/ PickUpWasm(l)
    <3>1. op'[l] \in {"parse", "trailer", "wasm", "hash", "ok"}
      BY <2>5 DEF Hash, Parse, Trailer, LoadConfig, CheckSol, PickUpWasm, Advance, Proceed
    <3>. QED
      BY <1>1, <3>1 DEF CalmInv
  <2>. QED
    BY <1>3, <2>2, <2>3, <2>4, <2>5 DEF Load, LoaderStep
<1>. QED
  BY <1>2, <1>3

LEMMA DoneInductive ==
  ASSUME IsFiniteSet(Runs), MaxActive = 1
  PROVE  Spec => [](DoneInv /\ \A l \in Loaders : CalmInv(l))
<1>1. Init => DoneInv /\ \A l \in Loaders : CalmInv(l)
  BY DEF Init, WriterInit, DoneInv, CalmInv
<1>2. TInv /\ SerialInv /\ (DoneInv /\ \A l \in Loaders : CalmInv(l)) /\ [Next]_vars
        => (DoneInv /\ \A l \in Loaders : CalmInv(l))'
  <2>. SUFFICES ASSUME TInv, SerialInv, DoneInv, \A l \in Loaders : CalmInv(l), [Next]_vars
                PROVE  DoneInv' /\ \A l \in Loaders : CalmInv(l)'
    OBVIOUS
  <2>1. ASSUME NEW w \in Runs, Run(w)
        PROVE  DoneInv' /\ \A l \in Loaders : CalmInv(l)'
    BY <2>1, RunKeepsDone, RunKeepsCalm DEF SerialInv
  <2>2. ASSUME NEW m \in Loaders, Begin(m) \/ Load(m)
        PROVE  DoneInv' /\ \A l \in Loaders : CalmInv(l)'
    <3>1. UNCHANGED <<files, manifest, vkey, phase, cli, owner>>
      BY <2>2 DEF Begin, BeginLoad, Load, LoaderStep, ReadKey, Verify, Hash, Parse, Trailer,
         LoadConfig, CheckSol, Mismatch, PickUpWasm, dirVars, writerVars, history
    <3>2. DoneInv'
      BY <3>1 DEF DoneInv, MatchingDir
    <3>. QED
      BY <2>2, <3>2, BeginIsCalm, LoadKeepsCalm
  <2>3. CASE UNCHANGED vars
    BY <2>3 DEF vars, dirVars, writerVars, loaderVars, history, DoneInv, MatchingDir, CalmInv
  <2>. QED
    BY <2>1, <2>2, <2>3 DEF Next
<1>. QED
  BY <1>1, <1>2, TypesInductive, SerialInductive, PTL DEF Spec

\* When runs take turns, a load that begins on a completed bundle and sees no change
\* since is not refused, whatever earlier runs left behind; a signed load, if that run
\* published its key.
THEOREM CompletedLoads ==
  ASSUME IsFiniteSet(Runs), MaxActive = 1
  PROVE  Spec => []CompletedBundleLoads
<1>1. (DoneInv /\ \A l \in Loaders : CalmInv(l)) => CompletedBundleLoads
  BY DEF CompletedBundleLoads, CalmInv
<1>. QED
  BY <1>1, DoneInductive, PTL

-----------------------------------------------------------------------------
(***************************************************************************)
(* The published key and the manifest.  A manifest that names a run's own  *)
(* draw is that run's, which is done; so whoever replaces the key has      *)
(* replaced the proving key's file first.                                  *)
(***************************************************************************)
NamedRunIsDone ==
  manifest # None => \A w \in Runs : manifest.entry["pk"].key = w => phase[w] = "done"

KeyInv == NamedRunIsDone /\ IntactBundleHasItsKey

LEMMA OwnProvingKey ==
  ASSUME TInv, TakingTurns, NEW u \in Active, phase[u] # "setup",
         NEW w \in Runs, OutputOf(u)["pk"].key = w
  PROVE  u = w
<1>1. key[u] = w
  BY DEF OutputOf, Output, Artifacts, Keyed
<1>2. key[u] = Draw(u)
  BY DEF TakingTurns, ReadsBackOwn
<1>3. u \in Runs /\ cli[u].seed \in Seeds \union {None}
  BY ActiveCli DEF TInv, TypeOK
<1>. QED
  BY <1>1, <1>2, <1>3, DrawsAssumption DEF Draw

LEMMA RunKeepsKey ==
  ASSUME TInv, TakingTurns, DoneInv, KeyInv, NEW u \in Runs, Run(u)
  PROVE  KeyInv'
<1>. USE DEF TInv, TypeOK, WriterTypeOK
<1>1. /\ \A w \in Runs : phase[w] = "done" => w # u /\ phase'[w] = "done" /\ cli'[w] = cli[w]
      /\ manifest' = manifest \/ Emit(u)
  BY DEF Run, RunStep, Start, Setup, Publish, HashEntry, AttachWasm, FinishCopy, Sign, Emit,
         Stop, Goto, End, Active, Resting, dirVars
<1>2. "pk" \in Slots /\ "pk" \in Artifacts /\ FileOf("pk") = "pk"
  BY DEF Slots, Artifacts, Keyed, FileOf
<1>3. CASE Emit(u)
  <2>1. u \in Active /\ phase[u] = "emit"
    BY <1>3 DEF Emit, Active, Resting
  <2>2. /\ manifest' = ManifestOf(u) /\ phase'[u] = "done"
        /\ UNCHANGED <<vkey, cli>>
    BY <1>3 DEF Emit, End, Goto
  <2>3. manifest'.entry["pk"] = OutputOf(u)["pk"] /\ manifest'.sig = cli[u].key
    BY <1>2, <2>1, <2>2 DEF TakingTurns, ReadsBackOwn, Drafted, ManifestOf
  <2>4. \A w \in Runs : manifest'.entry["pk"].key = w => w = u
    BY <2>1, <2>3, OwnProvingKey
  <2>5. cli[u].vkOut => vkey = cli[u].key
    BY <2>1 DEF DoneInv
  <2>. QED
    BY <2>2, <2>3, <2>4, <2>5 DEF KeyInv, NamedRunIsDone, IntactBundleHasItsKey
<1>4. CASE manifest' = manifest
  <2>1. NamedRunIsDone'
    BY <1>1, <1>4 DEF KeyInv, NamedRunIsDone
  <2>2. ASSUME Intact', NEW w \in Runs, manifest.entry["pk"].key = w, cli'[w].vkOut
        PROVE  vkey' = manifest.sig
    <3>1. w # u /\ cli'[w] = cli[w] /\ manifest # None
      BY <1>1, <1>4, <2>2 DEF KeyInv, NamedRunIsDone, Intact
    <3>2. files'["pk"].key = w
      BY <1>2, <1>4, <2>2 DEF Intact
    <3>3. CASE UNCHANGED <<files, vkey>>
      BY <1>4, <2>2, <3>1, <3>3 DEF KeyInv, IntactBundleHasItsKey, Intact
    <3>4. ASSUME Publish(u)
          PROVE  FALSE
      <4>1. u \in Active /\ phase[u] = "publish" /\ at[u] \in Artifacts
        BY <3>4 DEF Publish, Active, Resting, Slots
      <4>2. files'["pk"] = OutputOf(u)["pk"]
        BY <1>2, <3>4, <4>1 DEF Publish, OutputOf, TakingTurns, ReadsBackOwn, PublishedBefore,
           Artifacts, Keyed, DirTypeOK
      <4>. QED
        BY <3>1, <3>2, <4>1, <4>2, OwnProvingKey
    <3>5. ASSUME Sign(u)
          PROVE  FALSE
      <4>1. u \in Active /\ phase[u] = "sign" /\ files' = files
        BY <3>5 DEF Sign, Active, Resting
      <4>2. files["pk"] = OutputOf(u)["pk"]
        BY <1>2, <4>1 DEF TakingTurns, ReadsBackOwn
      <4>. QED
        BY <3>1, <3>2, <4>1, <4>2, OwnProvingKey
    <3>6. Publish(u) \/ Sign(u) \/ UNCHANGED <<files, vkey>>
      BY DEF Run, RunStep, Start, Setup, HashEntry, AttachWasm, FinishCopy, Emit, Stop, dirVars
    <3>. QED
      BY <3>3, <3>4, <3>5, <3>6
  <2>. QED
    BY <1>4, <2>1, <2>2 DEF KeyInv, IntactBundleHasItsKey
<1>. QED
  BY <1>1, <1>3, <1>4

\* When runs take turns, a bundle that is all there, whose run drew from the OS and
\* published its key, finds that key: however far a later run has come, and wherever it
\* stopped, the key is replaced only after the files.
THEOREM IntactKey ==
  ASSUME IsFiniteSet(Runs), MaxActive = 1
  PROVE  Spec => []IntactBundleHasItsKey
<1>1. Init => KeyInv
  BY DEF Init, DirInit, KeyInv, NamedRunIsDone, IntactBundleHasItsKey, Intact
<1>2. TInv /\ SerialInv /\ DoneInv /\ KeyInv /\ [Next]_vars => KeyInv'
  <2>. SUFFICES ASSUME TInv, SerialInv, DoneInv, KeyInv, [Next]_vars
                PROVE  KeyInv'
    OBVIOUS
  <2>1. ASSUME NEW u \in Runs, Run(u)
        PROVE  KeyInv'
    BY <2>1, RunKeepsKey DEF SerialInv
  <2>2. ASSUME NEW m \in Loaders, Begin(m) \/ Load(m)
        PROVE  UNCHANGED <<files, manifest, vkey, phase, cli>>
    BY <2>2 DEF Begin, BeginLoad, Load, LoaderStep, ReadKey, Verify, Hash, Parse, Trailer,
       LoadConfig, CheckSol, Mismatch, PickUpWasm, dirVars, writerVars
  <2>3. ASSUME UNCHANGED <<files, manifest, vkey, phase, cli>>
        PROVE  KeyInv'
    BY <2>3 DEF KeyInv, NamedRunIsDone, IntactBundleHasItsKey, Intact
  <2>4. CASE UNCHANGED vars
    BY <2>3, <2>4 DEF vars, dirVars, writerVars
  <2>. QED
    BY <2>1, <2>2, <2>3, <2>4 DEF Next
<1>. QED
  BY <1>1, <1>2, TypesInductive, SerialInductive, DoneInductive, PTL DEF Spec, KeyInv

-----------------------------------------------------------------------------
(***************************************************************************)
(* The composition with the sidecar implements CrsBundle, so everything    *)
(* proved of it holds here.                                                *)
(***************************************************************************)

LEMMA ImplementsBundle == SidecarSpec => Spec
<1>1. SidecarInit => Init
  BY DEF SidecarInit
<1>2. [SidecarNext]_allVars => [Next]_vars
  BY DEF SidecarNext, LoadAgain, HashWasm, WriteSidecar, Pair, Next, allVars
<1>. QED
  BY <1>1, <1>2, PTL DEF SidecarSpec, Spec

LEMMA BundleInvariants == SidecarSpec => [](TInv /\ \A l \in Loaders : LoadInv(l))
  BY ImplementsBundle, TypesInductive, LoadsInductive, PTL

-----------------------------------------------------------------------------
(***************************************************************************)
(* circuit.ar1cs during a load: what was parsed is what the trailer names, *)
(* unless the file changed in between.                                     *)
(***************************************************************************)
TrailerBinds(l) ==
  /\ op[l] = "trailer" /\ files["ar1cs"] # parsed[l]["ar1cs"] => swaps[l]["ar1cs"] >= 1
  /\ (Loading(l) \/ op[l] = "ok") /\ lfile[l] # "ar1cs" /\ parsed[l]["ar1cs"] # man[l].entry["blake3"]
       => swaps[l]["ar1cs"] >= 1

LEMMA RunKeepsTrailer ==
  ASSUME TInv, NEW w \in Runs, Run(w), NEW l \in Loaders, TrailerBinds(l)
  PROVE  TrailerBinds(l)'
<1>1. UNCHANGED <<op, lfile, man, parsed>>
  BY DEF Run, loaderVars
<1>2. "ar1cs" \in Artifacts
  BY DEF Artifacts
<1>3. swaps[l]["ar1cs"] \in 0 .. 2
  BY <1>2 DEF TInv, TypeOK, SwapCap
<1>4. swaps'[l]["ar1cs"] = IF Swapped(l, "ar1cs") THEN swaps[l]["ar1cs"] + 1 ELSE swaps[l]["ar1cs"]
  BY <1>2 DEF Run
<1>5. /\ swaps'[l]["ar1cs"] >= swaps[l]["ar1cs"]
      /\ Loading(l) /\ files'["ar1cs"] # files["ar1cs"] => swaps'[l]["ar1cs"] >= 1
  BY <1>3, <1>4 DEF Swapped, SwapCap
<1>6. swaps'[l]["ar1cs"] \in Nat
  BY <1>3, <1>4
<1>. QED
  BY <1>1, <1>3, <1>5, <1>6 DEF TrailerBinds, Loading

LEMMA BeginKeepsTrailer ==
  ASSUME TInv, NEW m \in Loaders, Begin(m), NEW l \in Loaders, TrailerBinds(l)
  PROVE  TrailerBinds(l)'
<1>. USE DEF TInv, TypeOK, LoaderTypeOK
<1>1. UNCHANGED files
  BY DEF Begin, BeginLoad, dirVars
<1>2. CASE l = m
  BY <1>2 DEF Begin, BeginLoad, Proceed, TrailerBinds
<1>3. CASE l # m
  BY <1>1, <1>3 DEF Begin, BeginLoad, Proceed, TrailerBinds, Loading
<1>. QED
  BY <1>2, <1>3

LEMMA LoadKeepsTrailer ==
  ASSUME TInv, NEW m \in Loaders, LoadInv(m), Load(m), NEW l \in Loaders, TrailerBinds(l)
  PROVE  TrailerBinds(l)'
<1>. USE DEF TInv, TypeOK, LoaderTypeOK, Proceed
<1>1. UNCHANGED <<files, man, swaps>>
  BY DEF Load, LoaderStep, ReadKey, Verify, Hash, Parse, Trailer, LoadConfig, CheckSol, Mismatch,
         PickUpWasm, dirVars, history
<1>2. Loading(m) /\ InOrder(m)
  BY DEF Load, LoadInv, Loading, LoaderStep, ReadKey, Verify, Hash, Parse, Trailer, LoadConfig,
         CheckSol, Mismatch, PickUpWasm
<1>3. CASE l # m
  <2>1. op'[l] = op[l] /\ lfile'[l] = lfile[l] /\ parsed'[l] = parsed[l]
    BY <1>3 DEF Load, LoaderStep, ReadKey, Verify, Hash, Parse, Trailer, LoadConfig, CheckSol,
       Mismatch, PickUpWasm, Advance
  <2>. QED
    BY <1>1, <2>1 DEF TrailerBinds, Loading
<1>4. CASE l = m
  <2>1. CASE ReadKey(l) \/ Verify(l) \/ Hash(l) \/ CheckSol(l) \/ PickUpWasm(l)
    <3>1. parsed' = parsed /\ op'[l] # "trailer"
      BY <2>1 DEF ReadKey, Verify, Hash, CheckSol, PickUpWasm, Advance
    <3>2. lfile'[l] # "ar1cs" => lfile[l] # "ar1cs"
      BY <2>1 DEF ReadKey, Verify, Hash, CheckSol, PickUpWasm, Advance
    <3>. QED
      BY <1>1, <1>2, <1>4, <3>1, <3>2 DEF TrailerBinds
  <2>2. CASE Parse(l)
    <3>1. lfile[l] \in {"ar1cs", "pk", "vk", "pvk"} /\ op[l] = "parse"
      BY <1>2, <1>4, <2>2 DEF Parse, InOrder
    <3>2. CASE lfile[l] = "ar1cs"
      <4>1. op'[l] = "trailer" /\ lfile'[l] = "ar1cs" /\ parsed'[l]["ar1cs"] = files["ar1cs"]
        BY <2>2, <3>2 DEF Parse, Artifacts
      <4>. QED
        BY <1>1, <4>1 DEF TrailerBinds
    <3>3. CASE lfile[l] # "ar1cs"
      <4>1. parsed'[l]["ar1cs"] = parsed[l]["ar1cs"] /\ op'[l] # "trailer"
        BY <2>2, <3>1, <3>3 DEF Parse, Advance, Artifacts
      <4>. QED
        BY <1>1, <1>2, <1>4, <3>3, <4>1 DEF TrailerBinds
    <3>. QED
      BY <3>2, <3>3
  <2>3. CASE Trailer(l)
    <3>1. op[l] = "trailer" /\ files["ar1cs"] = man[l].entry["blake3"] /\ parsed' = parsed
      BY <2>3 DEF Trailer, Matches, FileOf
    <3>2. op'[l] # "trailer"
      BY <2>3 DEF Trailer, Advance
    <3>. QED
      BY <1>1, <3>1, <3>2 DEF TrailerBinds
  <2>4. CASE LoadConfig(l)
    <3>1. /\ parsed'[l]["ar1cs"] = parsed[l]["ar1cs"] /\ op'[l] # "trailer"
          /\ lfile[l] # "ar1cs"
      BY <2>4 DEF LoadConfig, Advance, Artifacts
    <3>. QED
      BY <1>1, <1>2, <1>4, <3>1 DEF TrailerBinds
  <2>5. CASE Mismatch(l)
    BY <2>5 DEF Mismatch, TrailerBinds, Loading
  <2>. QED
    BY <1>4, <2>1, <2>2, <2>3, <2>4, <2>5 DEF Load, LoaderStep
<1>. QED
  BY <1>3, <1>4

LEMMA TrailerInductive == SidecarSpec => [](\A l \in Loaders : TrailerBinds(l))
<1>1. Init => \A l \in Loaders : TrailerBinds(l)
  BY DEF Init, LoaderInit, TrailerBinds, Loading
<1>2. ASSUME TInv, \A l \in Loaders : LoadInv(l), \A l \in Loaders : TrailerBinds(l), [Next]_vars
      PROVE  (\A l \in Loaders : TrailerBinds(l))'
  <2>1. CASE UNCHANGED vars
    BY <1>2, <2>1 DEF vars, dirVars, loaderVars, history, TrailerBinds, Loading
  <2>2. CASE Next
    BY <1>2, <2>2, RunKeepsTrailer, BeginKeepsTrailer, LoadKeepsTrailer DEF Next
  <2>. QED
    BY <1>2, <2>1, <2>2
<1>. QED
  BY <1>1, <1>2, ImplementsBundle, BundleInvariants, PTL DEF Spec

-----------------------------------------------------------------------------
(***************************************************************************)
(* The tool and the consumers. A sidecar is handmade or the tool's, and    *)
(* what a consumer paired stays as it was until it loads again.            *)
(***************************************************************************)
ToolInv ==
  /\ SidecarTypeOK
  /\ tool.at # "done" => sidecar \in Handmade \union {None} /\ tool.shapes = {}
  /\ tool.at = "done" => sidecar = Collected

PairInv(l) ==
  /\ pair[l] # "none" => op[l] = "ok"
  /\ pair[l] = "paired" => man[l].entry["blake3"] \in Described
  /\ pair[l] = "paired" /\ wgen[l] # "whole" => tool.at = "done" /\ tool.sha = "partial"

SInv == ToolInv /\ \A l \in Loaders : PairInv(l)

LEMMA ToolStep ==
  ASSUME TInv, ToolInv, HashWasm \/ WriteSidecar
  PROVE  ToolInv' /\ tool.at # "done" /\ tool.shapes \subseteq tool'.shapes /\ UNCHANGED <<vars, pair>>
<1>. USE DEF ToolInv, SidecarTypeOK
<1>1. CASE HashWasm
  BY <1>1 DEF HashWasm, Die, Idle, TInv, TypeOK, DirTypeOK
<1>2. CASE WriteSidecar
  <2>1. CASE manifest = None
    BY <1>2, <2>1 DEF WriteSidecar, Die, Idle
  <2>2. CASE manifest # None
    <3>1. /\ tool.at = "bundle" /\ UNCHANGED <<vars, pair>>
          /\ tool' = [tool EXCEPT !.shapes = @ \union {manifest.entry["blake3"]}, !.at = "done"]
          /\ sidecar' = Collected'
      BY <1>2, <2>2 DEF WriteSidecar
    <3>2. manifest.entry["blake3"] \in Content
      <4>1. manifest \in Manifests
        BY <2>2 DEF TInv, TypeOK, DirTypeOK
      <4>. QED
        BY <4>1 DEF Manifests, Slots
    <3>3. /\ tool'.at = "done" /\ tool'.sha = tool.sha
          /\ tool'.shapes = {manifest.entry["blake3"]}
      BY <3>1
    <3>4. tool' \in [at : {"idle", "bundle", "done", "died"}, sha : {"partial", "whole", "malformed"},
                     shapes : SUBSET Content]
      BY <3>1, <3>2
    <3>5. Collected' \in Documents
      BY <3>2, <3>3 DEF Collected, Documents
    <3>. QED
      BY <3>1, <3>3, <3>4, <3>5
  <2>. QED
    BY <2>1, <2>2
<1>. QED
  BY <1>1, <1>2

LEMMA PairStep ==
  ASSUME SInv, HandmadeIsWhole, NEW m \in Loaders, Pair(m)
  PROVE  SInv'
<1>. USE DEF SInv, ToolInv, SidecarTypeOK
<1>1. UNCHANGED <<op, man, wgen, tool, sidecar>>
  BY DEF Pair, vars, loaderVars
<1>2. pair' \in [Loaders -> {"none", "paired", "refused"}] /\ op[m] = "ok"
  BY DEF Pair
<1>3. \A l \in Loaders : l # m => pair'[l] = pair[l]
  BY DEF Pair
<1>4. ASSUME pair'[m] = "paired"
      PROVE  /\ sidecar # None
             /\ wgen[m] = sidecar.sha
             /\ WellFormed(sidecar)
             /\ man[m].entry["blake3"] \in sidecar.shapes
  BY <1>4 DEF Pair, VerifyWasmSha, RequireCompatible, IsCompatible
<1>5. ASSUME pair'[m] = "paired"
      PROVE  man[m].entry["blake3"] \in Described
  <2>1. CASE tool.at = "done"
    BY <1>4, <1>5, <2>1 DEF Collected, Described
  <2>2. CASE tool.at # "done"
    BY <1>4, <1>5, <2>2 DEF Described
  <2>. QED
    BY <2>1, <2>2
<1>6. ASSUME pair'[m] = "paired", wgen[m] # "whole"
      PROVE  tool.at = "done" /\ tool.sha = "partial"
  <2>1. sidecar \in Documents /\ sidecar.sha = "partial"
    BY <1>4, <1>6 DEF Documents, WellFormed
  <2>2. sidecar \notin Handmade
    BY <2>1 DEF HandmadeIsWhole
  <2>3. tool.at = "done" /\ sidecar = Collected
    BY <1>4, <1>6, <2>2
  <2>. QED
    BY <2>1, <2>3 DEF Collected
<1>7. Described' = Described
  BY <1>1 DEF Described
<1>8. \A l \in Loaders : PairInv(l)'
  BY <1>1, <1>2, <1>3, <1>5, <1>6, <1>7 DEF PairInv
<1>9. ToolInv'
  BY <1>1, <1>2 DEF Collected
<1>. QED
  BY <1>8, <1>9

LEMMA NextSInv ==
  ASSUME TInv, SInv, HandmadeIsWhole, [SidecarNext]_allVars
  PROVE  SInv'
<1>. USE DEF SInv
<1>1. CASE HashWasm \/ WriteSidecar
  <2>1. ToolInv' /\ tool.at # "done" /\ tool.shapes \subseteq tool'.shapes /\ UNCHANGED <<vars, pair>>
    BY <1>1, ToolStep
  <2>2. UNCHANGED <<op, man, wgen>>
    BY <2>1 DEF vars, loaderVars
  <2>3. Described \subseteq Described'
    BY <2>1 DEF Described
  <2>. QED
    BY <2>1, <2>2, <2>3 DEF PairInv
<1>2. CASE \E m \in Loaders : Pair(m)
  BY <1>2, PairStep
<1>3. CASE (\E w \in Runs : Run(w) /\ UNCHANGED sidecarVars) \/ UNCHANGED allVars
  <2>1. UNCHANGED <<tool, sidecar, pair, op, man, wgen>>
    BY <1>3 DEF Run, loaderVars, allVars, vars, sidecarVars
  <2>. QED
    BY <2>1 DEF PairInv, ToolInv, SidecarTypeOK, Collected, Described
<1>4. ASSUME NEW m \in Loaders, LoadAgain(m)
      PROVE  SInv'
  <2>1. UNCHANGED <<tool, sidecar>> /\ pair' = [pair EXCEPT ![m] = "none"]
    BY <1>4 DEF LoadAgain
  <2>2. \A l \in Loaders : l # m => op'[l] = op[l] /\ man'[l] = man[l] /\ wgen'[l] = wgen[l]
    BY <1>4 DEF LoadAgain, Begin, BeginLoad, Proceed, TInv, TypeOK, LoaderTypeOK
  <2>3. ToolInv'
    BY <2>1 DEF ToolInv, SidecarTypeOK, Collected
  <2>4. pair'[m] = "none" /\ \A l \in Loaders : l # m => pair'[l] = pair[l]
    BY <2>1 DEF ToolInv, SidecarTypeOK
  <2>. QED
    BY <2>1, <2>2, <2>3, <2>4 DEF PairInv, Described
<1>5. ASSUME NEW m \in Loaders, Load(m), UNCHANGED sidecarVars
      PROVE  SInv'
  <2>1. op[m] # "ok" /\ \A l \in Loaders : l # m => op'[l] = op[l] /\ wgen'[l] = wgen[l]
    BY <1>5 DEF Load, LoaderStep, ReadKey, Verify, Hash, Parse, Trailer, LoadConfig, CheckSol, Mismatch,
       PickUpWasm, Advance, Proceed, TInv, TypeOK, LoaderTypeOK
  <2>2. UNCHANGED <<man, tool, sidecar, pair>>
    BY <1>5 DEF Load, LoaderStep, ReadKey, Verify, Hash, Parse, Trailer, LoadConfig, CheckSol, Mismatch,
       PickUpWasm, sidecarVars
  <2>3. ToolInv'
    BY <2>2 DEF ToolInv, SidecarTypeOK, Collected
  <2>4. Described' = Described
    BY <2>2 DEF Described
  <2>5. pair[m] = "none"
    BY <2>1 DEF PairInv, ToolInv, SidecarTypeOK
  <2>. QED
    BY <2>1, <2>2, <2>3, <2>4, <2>5 DEF PairInv
<1>. QED
  BY <1>1, <1>2, <1>3, <1>4, <1>5 DEF SidecarNext

LEMMA InitSInv == SidecarInit => SInv
  BY HandmadeAssumption
  DEF SidecarInit, SInv, ToolInv, SidecarTypeOK, Idle, PairInv, Content

LEMMA ToolInductive == ASSUME HandmadeIsWhole PROVE SidecarSpec => []SInv
  BY InitSInv, NextSInv, BundleInvariants, PTL DEF SidecarSpec

\* The composition keeps its types.
THEOREM BundleTypes == ASSUME HandmadeIsWhole PROVE SidecarSpec => []BundleTypeOK
<1>1. TInv /\ SInv => BundleTypeOK
  BY DEF TInv, SInv, ToolInv, BundleTypeOK
<1>. QED
  BY <1>1, BundleInvariants, ToolInductive, PTL

\* However runs, loads, the tool and consumers interleave, a witness generator whose copy
\* is not finished is paired only if the tool itself hashed it in that state.
THEOREM NeverPairsTruncated == ASSUME HandmadeIsWhole PROVE SidecarSpec => []TruncatedNeverPairs
<1>1. SInv => TruncatedNeverPairs
  BY DEF SInv, ToolInv, PairInv, TruncatedNeverPairs
<1>. QED
  BY <1>1, ToolInductive, PTL

\* Only circuits that the sidecar's author saw are paired, by what was parsed of them.
THEOREM PairsDescribed == ASSUME HandmadeIsWhole PROVE SidecarSpec => []PairsOnlyDescribedShapes
<1>1. ASSUME TInv, \A l \in Loaders : LoadInv(l), \A l \in Loaders : TrailerBinds(l), SInv
      PROVE  PairsOnlyDescribedShapes
  <2>. SUFFICES ASSUME NEW l \in Loaders, pair[l] = "paired"
                PROVE  /\ man[l].entry["blake3"] \in Described
                       /\ parsed[l]["ar1cs"] \in Described \/ swaps[l]["ar1cs"] >= 1
    BY DEF PairsOnlyDescribedShapes
  <2>1. op[l] = "ok" /\ man[l].entry["blake3"] \in Described
    BY <1>1 DEF SInv, PairInv
  <2>2. lfile[l] = "sol"
    BY <1>1, <2>1 DEF LoadInv, InOrder
  <2>3. parsed[l]["ar1cs"] = man[l].entry["blake3"] \/ swaps[l]["ar1cs"] >= 1
    BY <1>1, <2>1, <2>2 DEF TrailerBinds
  <2>. QED
    BY <2>1, <2>3
<1>. QED
  BY <1>1, BundleInvariants, TrailerInductive, ToolInductive, PTL
=============================================================================
